----------------------------- MODULE DListProofs -----------------------------
(***************************************************************************)
(* Proofs about the library of doubly linked lists: the heap stays sound   *)
(* whatever the calls, and each operation keeps its contract, for every    *)
(* heap, every type of values and every comparison.                        *)
(*                                                                         *)
(* The inductive invariant says that the memory is that of two sequences   *)
(* of nodes: Rep(m, l, c, k, d).  Each operation is then a change of one   *)
(* sequence into another, shown once from the pointers it writes; the      *)
(* loops (unique, remove_if, from_array, the merge sort) are recursive     *)
(* functions, shown to exist before anything is said of them.              *)
(***************************************************************************)
EXTENDS DList, SequenceTheorems, FiniteSetTheorems, WellFoundedInduction, TLAPS

Ptr == Node \cup {NULL}

Nodes(c) == {c[i] : i \in 1..Len(c)}
Distinct(c) == \A i, j \in 1..Len(c) : c[i] = c[j] => i = j
FirstOf(c, x) == IF Len(c) = 0 THEN x ELSE c[1]
LastOf(c, x) == IF Len(c) = 0 THEN x ELSE c[Len(c)]

(* The nodes of c are linked both ways, after a and before b.              *)
Seg(m, c, a, b) ==
    \A i \in 1..Len(c) :
        /\ m.next[c[i]] = IF i = Len(c) THEN b ELSE c[i + 1]
        /\ m.prev[c[i]] = IF i = 1 THEN a ELSE c[i - 1]
-----------------------------------------------------------------------------
(* NULL is no node.                                                        *)
LEMMA NullIsNoNode == NULL \notin Node /\ N \in Nat /\ N > 0
  BY DListAssumption DEF NULL, Node

(* The elements of a concatenation.                                        *)
LEMMA ConcatIs ==
  ASSUME NEW S, NEW s \in Seq(S), NEW t \in Seq(S)
  PROVE  /\ s \o t \in Seq(S) /\ Len(s \o t) = Len(s) + Len(t)
         /\ \A i \in 1..Len(s) : (s \o t)[i] = s[i]
         /\ \A i \in 1..Len(t) : (s \o t)[Len(s) + i] = t[i]
  OBVIOUS

(* The nodes of a concatenation.                                           *)
LEMMA NodesConcat ==
  ASSUME NEW S, NEW s \in Seq(S), NEW t \in Seq(S)
  PROVE  Nodes(s \o t) = Nodes(s) \cup Nodes(t)
<1> DEFINE u == s \o t
<1>1. /\ Len(u) = Len(s) + Len(t) /\ Len(s) \in Nat /\ Len(t) \in Nat
      /\ \A i \in 1..Len(s) : u[i] = s[i]
      /\ \A i \in 1..Len(t) : u[Len(s) + i] = t[i]
  OBVIOUS
<1> HIDE DEF u
<1>2. ASSUME NEW x \in Nodes(u) PROVE x \in Nodes(s) \cup Nodes(t)
  <2>1. PICK i \in 1..Len(u) : x = u[i]
    BY <1>2 DEF Nodes
  <2>2. CASE i <= Len(s)
    BY <1>1, <2>1, <2>2 DEF Nodes
  <2>3. CASE ~(i <= Len(s))
    <3>1. i - Len(s) \in 1..Len(t) /\ i = Len(s) + (i - Len(s))
      BY <1>1, <2>3
    <3>2. x = t[i - Len(s)]
      BY <1>1, <2>1, <3>1
    <3> QED BY <3>1, <3>2 DEF Nodes
  <2> QED BY <2>2, <2>3
<1>3. ASSUME NEW x \in Nodes(s) PROVE x \in Nodes(u)
  <2>1. PICK i \in 1..Len(s) : x = s[i]
    BY <1>3 DEF Nodes
  <2>2. i \in 1..Len(u) /\ u[i] = x
    BY <1>1, <2>1
  <2> QED BY <2>2 DEF Nodes
<1>4. ASSUME NEW x \in Nodes(t) PROVE x \in Nodes(u)
  <2>1. PICK i \in 1..Len(t) : x = t[i]
    BY <1>4 DEF Nodes
  <2>2. Len(s) + i \in 1..Len(u) /\ u[Len(s) + i] = x
    BY <1>1, <2>1
  <2> QED BY <2>2 DEF Nodes
<1> QED BY <1>2, <1>3, <1>4 DEF u

(* No node twice in a concatenation.                                       *)
LEMMA DistinctConcat ==
  ASSUME NEW S, NEW s \in Seq(S), NEW t \in Seq(S)
  PROVE  Distinct(s \o t) <=> Distinct(s) /\ Distinct(t) /\ Nodes(s) \cap Nodes(t) = {}
<1> DEFINE u == s \o t
<1>1. /\ Len(u) = Len(s) + Len(t) /\ Len(s) \in Nat /\ Len(t) \in Nat
      /\ \A i \in 1..Len(s) : u[i] = s[i]
      /\ \A i \in 1..Len(t) : u[Len(s) + i] = t[i]
  OBVIOUS
<1> HIDE DEF u
<1>2. ASSUME Distinct(u) PROVE Distinct(s) /\ Distinct(t) /\ Nodes(s) \cap Nodes(t) = {}
  <2>1. Distinct(s)
    <3> SUFFICES ASSUME NEW i \in 1..Len(s), NEW j \in 1..Len(s), s[i] = s[j] PROVE i = j
      BY DEF Distinct
    <3>1. i \in 1..Len(u) /\ j \in 1..Len(u) /\ u[i] = u[j]
      BY <1>1
    <3> QED BY <1>2, <3>1 DEF Distinct
  <2>2. Distinct(t)
    <3> SUFFICES ASSUME NEW i \in 1..Len(t), NEW j \in 1..Len(t), t[i] = t[j] PROVE i = j
      BY DEF Distinct
    <3>1. Len(s) + i \in 1..Len(u) /\ Len(s) + j \in 1..Len(u) /\ u[Len(s) + i] = u[Len(s) + j]
      BY <1>1
    <3>2. Len(s) + i = Len(s) + j
      BY <1>2, <3>1 DEF Distinct
    <3> QED BY <1>1, <3>2
  <2>3. ASSUME NEW x \in Nodes(s), x \in Nodes(t) PROVE FALSE
    <3>1. PICK i \in 1..Len(s) : x = s[i]
      BY DEF Nodes
    <3>2. PICK j \in 1..Len(t) : x = t[j]
      BY <2>3 DEF Nodes
    <3>a. i \in 1..Len(u) /\ Len(s) + j \in 1..Len(u)
      BY <1>1
    <3>b. u[i] = s[i] /\ u[Len(s) + j] = t[j]
      BY <1>1
    <3>3. i \in 1..Len(u) /\ Len(s) + j \in 1..Len(u) /\ u[i] = u[Len(s) + j]
      BY <3>1, <3>2, <3>a, <3>b
    <3>4. i = Len(s) + j
      BY <1>2, <3>3 DEF Distinct
    <3> QED BY <1>1, <3>4
  <2> QED BY <2>1, <2>2, <2>3
<1>3. ASSUME Distinct(s), Distinct(t), Nodes(s) \cap Nodes(t) = {} PROVE Distinct(u)
  <2> SUFFICES ASSUME NEW i \in 1..Len(u), NEW j \in 1..Len(u), u[i] = u[j] PROVE i = j
    BY DEF Distinct
  <2>1. \A x \in 1..Len(u) : x > Len(s) => x - Len(s) \in 1..Len(t) /\ u[x] = t[x - Len(s)]
    <3> SUFFICES ASSUME NEW x \in 1..Len(u), x > Len(s)
                 PROVE  x - Len(s) \in 1..Len(t) /\ u[x] = t[x - Len(s)]
      OBVIOUS
    <3>1. x - Len(s) \in 1..Len(t) /\ Len(s) + (x - Len(s)) = x
      BY <1>1
    <3> QED BY <1>1, <3>1
  <2>2. CASE i <= Len(s) /\ j <= Len(s)
    BY <1>1, <1>3, <2>2 DEF Distinct
  <2>3. CASE i > Len(s) /\ j > Len(s)
    <3>1. t[i - Len(s)] = t[j - Len(s)] /\ i - Len(s) \in 1..Len(t) /\ j - Len(s) \in 1..Len(t)
      BY <2>1, <2>3
    <3>2. i - Len(s) = j - Len(s)
      BY <1>3, <3>1 DEF Distinct
    <3> QED BY <1>1, <3>2
  <2>4. CASE i <= Len(s) /\ j > Len(s)
    <3>1. u[i] \in Nodes(s) /\ u[j] \in Nodes(t)
      BY <1>1, <2>1, <2>4 DEF Nodes
    <3> QED BY <1>3, <3>1
  <2>5. CASE i > Len(s) /\ j <= Len(s)
    <3>1. u[j] \in Nodes(s) /\ u[i] \in Nodes(t)
      BY <1>1, <2>1, <2>5 DEF Nodes
    <3> QED BY <1>3, <3>1
  <2> QED BY <1>1, <2>2, <2>3, <2>4, <2>5
<1> QED BY <1>2, <1>3 DEF u

(* The first and the last of a concatenation.                              *)
LEMMA EndsConcat ==
  ASSUME NEW S, NEW s \in Seq(S), NEW t \in Seq(S), NEW x
  PROVE  /\ FirstOf(s \o t, x) = FirstOf(s, FirstOf(t, x))
         /\ LastOf(s \o t, x) = LastOf(t, LastOf(s, x))
<1> DEFINE u == s \o t
<1>1. /\ Len(u) = Len(s) + Len(t) /\ Len(s) \in Nat /\ Len(t) \in Nat
      /\ \A i \in 1..Len(s) : u[i] = s[i]
      /\ \A i \in 1..Len(t) : u[Len(s) + i] = t[i]
  OBVIOUS
<1> HIDE DEF u
<1>2. FirstOf(u, x) = FirstOf(s, FirstOf(t, x))
  BY <1>1 DEF FirstOf
<1>3. LastOf(u, x) = LastOf(t, LastOf(s, x))
  BY <1>1 DEF LastOf
<1> QED BY <1>2, <1>3 DEF u

(* Two sequences are linked one after the other when each is, up to the    *)
(* ends of the other.                                                      *)
LEMMA SegConcat ==
  ASSUME NEW S, NEW s \in Seq(S), NEW t \in Seq(S), NEW m, NEW a, NEW b
  PROVE  Seg(m, s \o t, a, b) <=> Seg(m, s, a, FirstOf(t, b)) /\ Seg(m, t, LastOf(s, a), b)
<1> DEFINE u == s \o t
<1>1. /\ Len(u) = Len(s) + Len(t) /\ Len(s) \in Nat /\ Len(t) \in Nat
      /\ \A i \in 1..Len(s) : u[i] = s[i]
      /\ \A i \in 1..Len(t) : u[Len(s) + i] = t[i]
  OBVIOUS
<1> HIDE DEF u
<1>2. \A i \in 1..Len(s) :
         /\ i \in 1..Len(u) /\ u[i] = s[i]
         /\ (IF i = Len(u) THEN b ELSE u[i + 1]) = (IF i = Len(s) THEN FirstOf(t, b) ELSE s[i + 1])
         /\ (IF i = 1 THEN a ELSE u[i - 1]) = (IF i = 1 THEN a ELSE s[i - 1])
  <2> SUFFICES ASSUME NEW i \in 1..Len(s)
               PROVE /\ i \in 1..Len(u) /\ u[i] = s[i]
                     /\ (IF i = Len(u) THEN b ELSE u[i + 1]) = (IF i = Len(s) THEN FirstOf(t, b) ELSE s[i + 1])
                     /\ (IF i = 1 THEN a ELSE u[i - 1]) = (IF i = 1 THEN a ELSE s[i - 1])
    OBVIOUS
  <2>1. i \in 1..Len(u) /\ u[i] = s[i]
    BY <1>1
  <2>2. i # 1 => u[i - 1] = s[i - 1]
    BY <1>1
  <2>3. i # Len(s) => u[i + 1] = s[i + 1] /\ i # Len(u)
    BY <1>1
  <2>4. i = Len(s) => (IF i = Len(u) THEN b ELSE u[i + 1]) = FirstOf(t, b)
    BY <1>1 DEF FirstOf
  <2> QED BY <2>1, <2>2, <2>3, <2>4
<1>3. \A i \in 1..Len(t) :
         /\ Len(s) + i \in 1..Len(u) /\ u[Len(s) + i] = t[i]
         /\ (IF Len(s) + i = Len(u) THEN b ELSE u[(Len(s) + i) + 1]) = (IF i = Len(t) THEN b ELSE t[i + 1])
         /\ (IF Len(s) + i = 1 THEN a ELSE u[(Len(s) + i) - 1]) = (IF i = 1 THEN LastOf(s, a) ELSE t[i - 1])
  <2> SUFFICES ASSUME NEW i \in 1..Len(t)
               PROVE /\ Len(s) + i \in 1..Len(u) /\ u[Len(s) + i] = t[i]
                     /\ (IF Len(s) + i = Len(u) THEN b ELSE u[(Len(s) + i) + 1]) = (IF i = Len(t) THEN b ELSE t[i + 1])
                     /\ (IF Len(s) + i = 1 THEN a ELSE u[(Len(s) + i) - 1]) = (IF i = 1 THEN LastOf(s, a) ELSE t[i - 1])
    OBVIOUS
  <2>a. u[Len(s) + i] = t[i]
    BY <1>1
  <2>c. Len(s) + i \in 1..Len(u)
    BY <1>1
  <2>b. Len(s) + i = Len(u) <=> i = Len(t)
    BY <1>1
  <2>1. Len(s) + i \in 1..Len(u) /\ u[Len(s) + i] = t[i] /\ (Len(s) + i = Len(u) <=> i = Len(t))
    BY <2>a, <2>b, <2>c
  <2>2. i # Len(t) => u[(Len(s) + i) + 1] = t[i + 1]
    <3>1. (Len(s) + i) + 1 = Len(s) + (i + 1) /\ (i # Len(t) => i + 1 \in 1..Len(t))
      BY <1>1
    <3> QED BY <1>1, <3>1
  <2>3. i # 1 => u[(Len(s) + i) - 1] = t[i - 1] /\ Len(s) + i # 1
    <3>1. (Len(s) + i) - 1 = Len(s) + (i - 1) /\ (i # 1 => i - 1 \in 1..Len(t))
      BY <1>1
    <3> QED BY <1>1, <3>1
  <2>4. i = 1 => (IF Len(s) + i = 1 THEN a ELSE u[(Len(s) + i) - 1]) = LastOf(s, a)
    <3>1. (Len(s) + 1) - 1 = Len(s) /\ (Len(s) + 1 = 1 <=> Len(s) = 0)
      BY <1>1
    <3>2. Len(s) # 0 => u[Len(s)] = s[Len(s)]
      BY <1>1
    <3> QED BY <3>1, <3>2 DEF LastOf
  <2> QED BY <2>1, <2>2, <2>3, <2>4
<1>4. ASSUME Seg(m, u, a, b) PROVE Seg(m, s, a, FirstOf(t, b)) /\ Seg(m, t, LastOf(s, a), b)
  <2>0. \A i \in 1..Len(u) : /\ m.next[u[i]] = IF i = Len(u) THEN b ELSE u[i + 1]
                             /\ m.prev[u[i]] = IF i = 1 THEN a ELSE u[i - 1]
    BY <1>4 DEF Seg
  <2>1. Seg(m, s, a, FirstOf(t, b))
    <3>1. \A i \in 1..Len(s) : /\ m.next[s[i]] = IF i = Len(s) THEN FirstOf(t, b) ELSE s[i + 1]
                               /\ m.prev[s[i]] = IF i = 1 THEN a ELSE s[i - 1]
      BY <1>2, <2>0
    <3> QED BY <3>1 DEF Seg
  <2>2. Seg(m, t, LastOf(s, a), b)
    <3>1. \A i \in 1..Len(t) : /\ m.next[t[i]] = IF i = Len(t) THEN b ELSE t[i + 1]
                               /\ m.prev[t[i]] = IF i = 1 THEN LastOf(s, a) ELSE t[i - 1]
      <4> SUFFICES ASSUME NEW i \in 1..Len(t)
                   PROVE  /\ m.next[t[i]] = IF i = Len(t) THEN b ELSE t[i + 1]
                          /\ m.prev[t[i]] = IF i = 1 THEN LastOf(s, a) ELSE t[i - 1]
        OBVIOUS
      <4> DEFINE k == Len(s) + i
      <4>1. /\ k \in 1..Len(u) /\ u[k] = t[i]
            /\ (IF k = Len(u) THEN b ELSE u[k + 1]) = (IF i = Len(t) THEN b ELSE t[i + 1])
            /\ (IF k = 1 THEN a ELSE u[k - 1]) = (IF i = 1 THEN LastOf(s, a) ELSE t[i - 1])
        BY <1>3
      <4> HIDE DEF k
      <4>2. /\ m.next[u[k]] = IF k = Len(u) THEN b ELSE u[k + 1]
            /\ m.prev[u[k]] = IF k = 1 THEN a ELSE u[k - 1]
        BY <2>0, <4>1
      <4> QED BY <4>1, <4>2
    <3> QED BY <3>1 DEF Seg
  <2> QED BY <2>1, <2>2
<1>5. ASSUME Seg(m, s, a, FirstOf(t, b)), Seg(m, t, LastOf(s, a), b) PROVE Seg(m, u, a, b)
  <2> SUFFICES ASSUME NEW i \in 1..Len(u)
               PROVE  /\ m.next[u[i]] = IF i = Len(u) THEN b ELSE u[i + 1]
                      /\ m.prev[u[i]] = IF i = 1 THEN a ELSE u[i - 1]
    BY DEF Seg
  <2>1. CASE i <= Len(s)
    <3>1. i \in 1..Len(s)
      BY <1>1, <2>1
    <3> QED BY <1>2, <1>5, <3>1 DEF Seg
  <2>2. CASE ~(i <= Len(s))
    <3> DEFINE j == i - Len(s)
    <3>1. j \in 1..Len(t) /\ Len(s) + j = i
      BY <1>1, <2>2
    <3> HIDE DEF j
    <3>2. /\ m.next[t[j]] = IF j = Len(t) THEN b ELSE t[j + 1]
          /\ m.prev[t[j]] = IF j = 1 THEN LastOf(s, a) ELSE t[j - 1]
      BY <1>5, <3>1 DEF Seg
    <3>3. /\ Len(s) + j \in 1..Len(u) /\ u[Len(s) + j] = t[j]
          /\ (IF Len(s) + j = Len(u) THEN b ELSE u[(Len(s) + j) + 1]) = (IF j = Len(t) THEN b ELSE t[j + 1])
          /\ (IF Len(s) + j = 1 THEN a ELSE u[(Len(s) + j) - 1]) = (IF j = 1 THEN LastOf(s, a) ELSE t[j - 1])
      BY <1>3, <3>1
    <3> QED BY <3>1, <3>2, <3>3
  <2> QED BY <2>1, <2>2
<1> QED BY <1>4, <1>5 DEF u

(* A sequence around one of its elements.                                  *)
Glue(s, n, t) == (s \o <<n>>) \o t

(* A sequence of one node.                                                 *)
LEMMA OneIs ==
  ASSUME NEW n, NEW S, n \in S
  PROVE  /\ <<n>> \in Seq(S) /\ Len(<<n>>) = 1 /\ <<n>>[1] = n
         /\ Nodes(<<n>>) = {n} /\ Distinct(<<n>>)
         /\ \A x : FirstOf(<<n>>, x) = n /\ LastOf(<<n>>, x) = n
         /\ \A m, a, b : Seg(m, <<n>>, a, b) <=> m.next[n] = b /\ m.prev[n] = a
<1>1. <<n>> \in Seq(S) /\ Len(<<n>>) = 1 /\ <<n>>[1] = n
  OBVIOUS
<1>2. \A i : i \in 1..Len(<<n>>) <=> i = 1
  BY <1>1
<1> DEFINE u == <<n>>
<1>3. Len(u) = 1 /\ u[1] = n /\ \A i : i \in 1..Len(u) <=> i = 1
  BY <1>1, <1>2
<1> HIDE DEF u
<1>4. Nodes(u) = {n} /\ Distinct(u) /\ \A x : FirstOf(u, x) = n /\ LastOf(u, x) = n
  BY <1>3 DEF Nodes, Distinct, FirstOf, LastOf
<1>5. ASSUME NEW m, NEW a, NEW b PROVE Seg(m, u, a, b) <=> m.next[n] = b /\ m.prev[n] = a
  BY <1>3 DEF Seg
<1> QED BY <1>1, <1>4, <1>5 DEF u

(* A node between two sequences.                                           *)
LEMMA GlueIs ==
  ASSUME NEW S, NEW s \in Seq(S), NEW t \in Seq(S), NEW n \in S
  PROVE  /\ Glue(s, n, t) \in Seq(S) /\ Len(Glue(s, n, t)) = (Len(s) + 1) + Len(t)
         /\ Nodes(Glue(s, n, t)) = Nodes(s) \cup {n} \cup Nodes(t)
         /\ Distinct(Glue(s, n, t)) <=>
                /\ Distinct(s) /\ Distinct(t) /\ n \notin Nodes(s) /\ n \notin Nodes(t)
                /\ Nodes(s) \cap Nodes(t) = {}
         /\ \A x : FirstOf(Glue(s, n, t), x) = FirstOf(s, n) /\ LastOf(Glue(s, n, t), x) = LastOf(t, n)
         /\ \A m, a, b : Seg(m, Glue(s, n, t), a, b) <=>
                /\ Seg(m, s, a, n) /\ m.prev[n] = LastOf(s, a)
                /\ m.next[n] = FirstOf(t, b) /\ Seg(m, t, n, b)
<1> DEFINE u == <<n>>
           v == s \o u
<1>1. /\ u \in Seq(S) /\ Len(u) = 1 /\ Nodes(u) = {n} /\ Distinct(u)
      /\ \A x : FirstOf(u, x) = n /\ LastOf(u, x) = n
      /\ \A m, a, b : Seg(m, u, a, b) <=> m.next[n] = b /\ m.prev[n] = a
  BY OneIs
<1> HIDE DEF u
<1>2. /\ v \in Seq(S) /\ Len(v) = Len(s) + 1 /\ Nodes(v) = Nodes(s) \cup {n}
      /\ Distinct(v) <=> Distinct(s) /\ n \notin Nodes(s)
      /\ \A x : FirstOf(v, x) = FirstOf(s, n) /\ LastOf(v, x) = n
  <2>1. v \in Seq(S) /\ Len(v) = Len(s) + Len(u)
    BY <1>1, ConcatIs
  <2>2. Nodes(v) = Nodes(s) \cup Nodes(u)
    BY <1>1, NodesConcat
  <2>3. Distinct(v) <=> Distinct(s) /\ Distinct(u) /\ Nodes(s) \cap Nodes(u) = {}
    BY <1>1, DistinctConcat
  <2>4. \A x : FirstOf(v, x) = FirstOf(s, FirstOf(u, x)) /\ LastOf(v, x) = LastOf(u, LastOf(s, x))
    BY <1>1, EndsConcat
  <2> HIDE DEF v
  <2>5. Distinct(v) <=> Distinct(s) /\ n \notin Nodes(s)
    BY <1>1, <2>3
  <2> QED BY <1>1, <2>1, <2>2, <2>4, <2>5
<1>3. \A m, a, b : Seg(m, v, a, b) <=> Seg(m, s, a, n) /\ m.next[n] = b /\ m.prev[n] = LastOf(s, a)
  BY <1>1, SegConcat
<1> HIDE DEF v
<1>4. Glue(s, n, t) = v \o t
  BY DEF Glue, u, v
<1>5. /\ v \o t \in Seq(S) /\ Len(v \o t) = (Len(s) + 1) + Len(t)
      /\ Nodes(v \o t) = Nodes(s) \cup {n} \cup Nodes(t)
  <2>1. v \o t \in Seq(S) /\ Len(v \o t) = Len(v) + Len(t)
    BY <1>2, ConcatIs
  <2>2. Nodes(v \o t) = Nodes(v) \cup Nodes(t)
    BY <1>2, NodesConcat
  <2> QED BY <1>2, <2>1, <2>2
<1>6. Distinct(v \o t) <=>
          /\ Distinct(s) /\ Distinct(t) /\ n \notin Nodes(s) /\ n \notin Nodes(t)
          /\ Nodes(s) \cap Nodes(t) = {}
  <2>1. Distinct(v \o t) <=> Distinct(v) /\ Distinct(t) /\ Nodes(v) \cap Nodes(t) = {}
    BY <1>2, DistinctConcat
  <2>2. Nodes(v) \cap Nodes(t) = {} <=> Nodes(s) \cap Nodes(t) = {} /\ n \notin Nodes(t)
    BY <1>2
  <2> QED BY <1>2, <2>1, <2>2
<1>7. \A x : FirstOf(v \o t, x) = FirstOf(s, n) /\ LastOf(v \o t, x) = LastOf(t, n)
  <2>1. \A x : FirstOf(v \o t, x) = FirstOf(v, FirstOf(t, x)) /\ LastOf(v \o t, x) = LastOf(t, LastOf(v, x))
    BY <1>2, EndsConcat
  <2> QED BY <1>2, <2>1
<1>8. ASSUME NEW m, NEW a, NEW b
      PROVE  Seg(m, v \o t, a, b) <=> /\ Seg(m, s, a, n) /\ m.prev[n] = LastOf(s, a)
                                      /\ m.next[n] = FirstOf(t, b) /\ Seg(m, t, n, b)
  <2>1. Seg(m, v \o t, a, b) <=> Seg(m, v, a, FirstOf(t, b)) /\ Seg(m, t, LastOf(v, a), b)
    BY <1>2, SegConcat
  <2> QED BY <1>2, <1>3, <2>1
<1> QED BY <1>4, <1>5, <1>6, <1>7, <1>8

(* A sequence is cut at one of its elements.                               *)
LEMMA CutAt ==
  ASSUME NEW S, NEW c \in Seq(S), NEW i \in 1..Len(c)
  PROVE  /\ SubSeq(c, 1, i - 1) \in Seq(S) /\ Len(SubSeq(c, 1, i - 1)) = i - 1
         /\ SubSeq(c, i + 1, Len(c)) \in Seq(S) /\ Len(SubSeq(c, i + 1, Len(c))) = Len(c) - i
         /\ c[i] \in S
         /\ c = Glue(SubSeq(c, 1, i - 1), c[i], SubSeq(c, i + 1, Len(c)))
<1> DEFINE s == SubSeq(c, 1, i - 1)
           t == SubSeq(c, i + 1, Len(c))
           n == c[i]
           u == s \o <<n>>
           g == u \o t
<1>1. /\ s \in Seq(S) /\ Len(s) = i - 1 /\ t \in Seq(S) /\ Len(t) = Len(c) - i /\ n \in S
      /\ \A j \in 1..(i - 1) : s[j] = c[j]
      /\ Len(c) \in Nat /\ i \in Nat /\ i >= 1 /\ i <= Len(c)
  OBVIOUS
<1>2. \A j \in 1..(Len(c) - i) : t[j] = c[i + j]
  OBVIOUS
<1> HIDE DEF s, t
<1>3. u \in Seq(S) /\ Len(u) = i /\ \A j \in 1..i : u[j] = c[j]
  <2>1. u \in Seq(S) /\ Len(u) = i
    BY <1>1
  <2>2. \A j \in 1..(i - 1) : u[j] = s[j]
    BY <1>1
  <2>3. u[i] = c[i]
    BY <1>1
  <2> QED BY <1>1, <2>1, <2>2, <2>3
<1> HIDE DEF u
<1>4. g \in Seq(S) /\ Len(g) = Len(c)
  <2>1. g \in Seq(S) /\ Len(g) = Len(u) + Len(t)
    BY <1>1, <1>3, ConcatIs
  <2> QED BY <1>1, <1>3, <2>1
<1>5. \A j \in 1..Len(c) : g[j] = c[j]
  <2> SUFFICES ASSUME NEW j \in 1..Len(c) PROVE g[j] = c[j]
    OBVIOUS
  <2>1. CASE j <= i
    BY <1>1, <1>3, <2>1
  <2>2. CASE ~(j <= i)
    <3> DEFINE k == j - i
    <3>1. k \in 1..Len(t) /\ k \in 1..(Len(c) - i) /\ i + k = j
      BY <1>1, <2>2
    <3> HIDE DEF k
    <3>2. g[i + k] = t[k]
      BY <1>1, <1>3, <3>1
    <3> QED BY <1>2, <3>1, <3>2
  <2> QED BY <2>1, <2>2
<1> HIDE DEF g
<1>6. c = g
  BY <1>4, <1>5, SeqEqual
<1> QED BY <1>1, <1>6 DEF Glue, s, t, u, g

(* A sequence is cut at one of its nodes.                                  *)
LEMMA CutAtNode ==
  ASSUME NEW S, NEW c \in Seq(S), NEW n \in Nodes(c)
  PROVE  n \in S /\ \E s, t \in Seq(S) : c = Glue(s, n, t)
<1>1. PICK i \in 1..Len(c) : n = c[i]
  BY DEF Nodes
<1>2. /\ SubSeq(c, 1, i - 1) \in Seq(S) /\ SubSeq(c, i + 1, Len(c)) \in Seq(S) /\ c[i] \in S
      /\ c = Glue(SubSeq(c, 1, i - 1), c[i], SubSeq(c, i + 1, Len(c)))
  BY CutAt
<1> QED BY <1>1, <1>2

(* The nodes of a sequence are nodes; none when it is empty.               *)
LEMMA NodesIn ==
  ASSUME NEW S, NEW c \in Seq(S)
  PROVE  Nodes(c) \subseteq S /\ (c = <<>> <=> Len(c) = 0) /\ Len(c) \in Nat
         /\ (Nodes(c) = {} <=> c = <<>>)
<1>1. Len(c) \in Nat /\ (c = <<>> <=> Len(c) = 0) /\ \A i \in 1..Len(c) : c[i] \in S
  OBVIOUS
<1>2. c # <<>> => 1 \in 1..Len(c)
  BY <1>1
<1> QED BY <1>1, <1>2 DEF Nodes

(* The empty sequence.                                                     *)
LEMMA EmptyIs ==
  /\ \A S : <<>> \in Seq(S)
  /\ Len(<<>>) = 0 /\ Nodes(<<>>) = {} /\ Distinct(<<>>)
  /\ \A x : FirstOf(<<>>, x) = x /\ LastOf(<<>>, x) = x
  /\ \A m, a, b : Seg(m, <<>>, a, b)
<1>1. Len(<<>>) = 0 /\ 1..0 = {}
  OBVIOUS
<1> QED BY <1>1 DEF Nodes, Distinct, FirstOf, LastOf, Seg

(* The ends of a sequence that is not empty are nodes of it.               *)
LEMMA EndsAreNodes ==
  ASSUME NEW S, NEW c \in Seq(S), c # <<>>, NEW x
  PROVE  FirstOf(c, x) \in Nodes(c) /\ LastOf(c, x) \in Nodes(c)
<1>1. Len(c) \in Nat /\ Len(c) # 0
  OBVIOUS
<1>2. 1 \in 1..Len(c) /\ Len(c) \in 1..Len(c)
  BY <1>1
<1> QED BY <1>1, <1>2 DEF FirstOf, LastOf, Nodes

(* A segment whose ends are linked anew.                                   *)
LEMMA SegRelink ==
  ASSUME NEW S, NEW c \in Seq(S), Distinct(c), NEW m, NEW a, NEW b, Seg(m, c, a, b),
         NEW o, NEW d, NEW e,
         \A x \in Nodes(c) : /\ o.next[x] = IF x = LastOf(c, a) THEN e ELSE m.next[x]
                             /\ o.prev[x] = IF x = FirstOf(c, b) THEN d ELSE m.prev[x]
  PROVE  Seg(o, c, d, e)
<1> SUFFICES ASSUME NEW i \in 1..Len(c)
             PROVE  /\ o.next[c[i]] = IF i = Len(c) THEN e ELSE c[i + 1]
                    /\ o.prev[c[i]] = IF i = 1 THEN d ELSE c[i - 1]
  BY DEF Seg
<1>1. c[i] \in Nodes(c) /\ Len(c) \in Nat /\ Len(c) # 0 /\ 1 \in 1..Len(c) /\ Len(c) \in 1..Len(c)
  BY DEF Nodes
<1>2. c[i] = LastOf(c, a) <=> i = Len(c)
  BY <1>1 DEF LastOf, Distinct
<1>3. c[i] = FirstOf(c, b) <=> i = 1
  BY <1>1 DEF FirstOf, Distinct
<1>4. /\ m.next[c[i]] = IF i = Len(c) THEN b ELSE c[i + 1]
      /\ m.prev[c[i]] = IF i = 1 THEN a ELSE c[i - 1]
  BY DEF Seg
<1> QED BY <1>1, <1>2, <1>3, <1>4

(* Links are kept by whatever leaves the pointers of the nodes alone.      *)
LEMMA SegFrame ==
  ASSUME NEW c, NEW m, NEW a, NEW b, Seg(m, c, a, b), NEW o,
         \A x \in Nodes(c) : o.next[x] = m.next[x] /\ o.prev[x] = m.prev[x]
  PROVE  Seg(o, c, a, b)
BY DEF Seg, Nodes

(* A list is not longer than the heap has nodes.                           *)
LEMMA ShortEnough ==
  ASSUME NEW c \in Seq(Node), Distinct(c)
  PROVE  Len(c) \in Nat /\ Len(c) <= N
<1>1. Len(c) \in Nat /\ N \in Nat
  BY DListAssumption
<1>2. IsFiniteSet(Node) /\ Cardinality(Node) = N
  BY <1>1, FS_Interval DEF Node
<1>3. IsFiniteSet(1..Len(c)) /\ Cardinality(1..Len(c)) = Len(c)
  BY <1>1, FS_Interval
<1>4. c \in [1..Len(c) -> Node]
  OBVIOUS
<1>5. SUFFICES ASSUME N < Len(c) PROVE FALSE
  BY <1>1
<1>6. \E i, j \in 1..Len(c) : i # j /\ c[i] = c[j]
  BY <1>2, <1>3, <1>4, <1>5, FS_PigeonHole
<1> QED BY <1>6 DEF Distinct

(* A set of natural numbers that is not empty has a least one; induction,  *)
(* for a set in place of a predicate.                                      *)
LEMMA Least ==
  ASSUME NEW S \in SUBSET Nat, S # {}
  PROVE  \E m \in S : \A t \in S : m <= t
<1> DEFINE R == {s \in Nat \X Nat : s[1] < s[2]}
<1>1. OpToRel(<, Nat) = R
  BY Zenon DEF OpToRel
<1>2. IsWellFoundedOn(R, Nat)
  BY <1>1, NatLessThanWellFounded
<1>3. PICK m \in S : \A t \in S : <<t, m>> \notin R
  <2> HIDE DEF R
  <2> QED BY <1>2, WFMin
<1>4. \A t \in S : ~(t < m)
  BY <1>3
<1> QED BY <1>4

(* Induction, for a set in place of a predicate.                           *)
LEMMA NatInd ==
  ASSUME NEW P, 0 \in P, \A n \in Nat : n \in P => n + 1 \in P
  PROVE  \A n \in Nat : n \in P
<1> DEFINE Bad == {n \in Nat : n \notin P}
<1>1. SUFFICES ASSUME Bad # {} PROVE FALSE
  OBVIOUS
<1>2. PICK m \in Bad : \A t \in Bad : m <= t
  <2>1. Bad \in SUBSET Nat
    OBVIOUS
  <2> HIDE DEF Bad
  <2> QED BY <1>1, <2>1, Least
<1>3. m \in Nat /\ m # 0 /\ m \notin P
  OBVIOUS
<1>4. m - 1 \in Nat /\ (m - 1) + 1 = m /\ ~(m <= m - 1)
  BY <1>3
<1>5. m - 1 \in P
  BY <1>2, <1>4
<1> QED BY <1>3, <1>4, <1>5

(* The recursive function of Walk, up to k steps.                          *)
Paths(f, field, m) ==
    f = [k \in 0..m |->
            [x \in Node \cup {NULL} |->
                IF x = NULL \/ k = 0 THEN <<>> ELSE <<x>> \o f[k - 1][field[x]]]]

(* It exists.                                                              *)
LEMMA PathsExist ==
  ASSUME NEW field
  PROVE  \A m \in Nat : \E f : Paths(f, field, m)
<1> DEFINE P == {m \in Nat : \E f : Paths(f, field, m)}
           By(r, k) == [x \in Node \cup {NULL} |->
                           IF x = NULL \/ k = 0 THEN <<>> ELSE <<x>> \o r[field[x]]]
<1>1. 0 \in P
  <2> DEFINE f == [k \in 0..0 |-> By(<<>>, 0)]
  <2>1. \A k \in 0..0 : f[k] = By(f[k - 1], k)
    <3> SUFFICES ASSUME NEW k \in 0..0 PROVE f[k] = By(f[k - 1], k)
      OBVIOUS
    <3>1. k = 0
      OBVIOUS
    <3> QED BY <3>1
  <2>2. f = [k \in 0..0 |-> By(f[k - 1], k)]
    <3> HIDE DEF By
    <3> QED BY <2>1
  <2>3. Paths(f, field, 0)
    BY <2>2, Zenon DEF Paths
  <2> HIDE DEF f
  <2> QED BY <2>3
<1>2. \A m \in Nat : m \in P => m + 1 \in P
  <2> SUFFICES ASSUME NEW m \in Nat, m \in P PROVE m + 1 \in P
    OBVIOUS
  <2>1. PICK g : Paths(g, field, m)
    OBVIOUS
  <2> DEFINE f == [k \in 0..(m + 1) |-> IF k <= m THEN g[k] ELSE By(g[m], m + 1)]
  <2>2. \A k \in 0..m : g[k] = By(g[k - 1], k)
    BY <2>1 DEF Paths
  <2>3. \A k \in 0..(m + 1) : f[k] = By(f[k - 1], k)
    <3> SUFFICES ASSUME NEW k \in 0..(m + 1) PROVE f[k] = By(f[k - 1], k)
      OBVIOUS
    <3>1. CASE k = 0
      <4>1. \A x, y : By(x, 0) = By(y, 0)
        OBVIOUS
      <4>2. 0 \in 0..m /\ f[0] = g[0]
        OBVIOUS
      <4>3. g[0] = By(g[0 - 1], 0)
        BY <2>2, <4>2
      <4> HIDE DEF By, f
      <4> QED BY <3>1, <4>1, <4>2, <4>3
    <3>2. CASE k # 0 /\ k <= m
      <4>1. k \in 0..m /\ k - 1 \in 0..(m + 1) /\ k - 1 <= m
        BY <3>2
      <4> HIDE DEF By
      <4> QED BY <2>2, <3>2, <4>1
    <3>3. CASE k = m + 1
      <4>1. k - 1 = m /\ m \in 0..(m + 1) /\ m <= m /\ ~(m + 1 <= m)
        BY <3>3
      <4> HIDE DEF By
      <4> QED BY <3>3, <4>1
    <3>4. k = 0 \/ (k # 0 /\ k <= m) \/ k = m + 1
      OBVIOUS
    <3> QED BY <3>1, <3>2, <3>3, <3>4
  <2>4. f = [k \in 0..(m + 1) |-> By(f[k - 1], k)]
    <3> HIDE DEF By
    <3> QED BY <2>3
  <2>5. Paths(f, field, m + 1)
    BY <2>4, Zenon DEF Paths
  <2> HIDE DEF f
  <2> QED BY <2>5
<1> HIDE DEF P
<1>3. \A m \in Nat : m \in P
  BY <1>1, <1>2, NatInd
<1> QED BY <1>3 DEF P

(* A walk along a field that links c from its head is c.                   *)
LEMMA WalkIs ==
  ASSUME NEW field, NEW c \in Seq(Node), Distinct(c),
         \A i \in 1..Len(c) : field[c[i]] = IF i = Len(c) THEN NULL ELSE c[i + 1]
  PROVE  Walk(field, FirstOf(c, NULL)) = c
<1>1. PICK f : Paths(f, field, N) /\ \A h : Walk(field, h) = f[N][h]
  <2> DEFINE g == CHOOSE f : Paths(f, field, N)
  <2>1. N \in Nat
    BY DListAssumption
  <2>2. Paths(g, field, N)
    BY <2>1, PathsExist
  <2>3. \A h : Walk(field, h) = g[N][h]
    BY Zenon DEF Walk, Paths
  <2> HIDE DEF g
  <2> QED BY <2>2, <2>3
<1>2. \A k \in 0..N : \A x \in Node \cup {NULL} :
          f[k][x] = IF x = NULL \/ k = 0 THEN <<>> ELSE <<x>> \o f[k - 1][field[x]]
  <2> DEFINE By(k) == [x \in Node \cup {NULL} |->
                         IF x = NULL \/ k = 0 THEN <<>> ELSE <<x>> \o f[k - 1][field[x]]]
  <2>1. f = [k \in 0..N |-> By(k)]
    BY <1>1, Zenon DEF Paths
  <2>2. \A k \in 0..N : f[k] = By(k)
    <3> HIDE DEF By
    <3> QED BY <2>1
  <2> SUFFICES ASSUME NEW k \in 0..N, NEW x \in Node \cup {NULL}
               PROVE  f[k][x] = IF x = NULL \/ k = 0 THEN <<>> ELSE <<x>> \o f[k - 1][field[x]]
    OBVIOUS
  <2>3. f[k] = By(k)
    BY <2>2
  <2>4. By(k)[x] = IF x = NULL \/ k = 0 THEN <<>> ELSE <<x>> \o f[k - 1][field[x]]
    OBVIOUS
  <2> HIDE DEF By
  <2> QED BY <2>3, <2>4
<1>3. Len(c) \in Nat /\ Len(c) <= N /\ N \in Nat /\ \A i \in 1..Len(c) : c[i] \in Node
  BY ShortEnough, DListAssumption
<1> DEFINE L == Len(c)
           At(i) == IF i <= L THEN c[i] ELSE NULL
           P == {k \in Nat : k <= N =>
                    \A i \in 1..(L + 1) : L + 1 - i <= k => f[k][At(i)] = SubSeq(c, i, L)}
<1>4. SubSeq(c, L + 1, L) = <<>>
  BY <1>3
<1>5. 0 \in P
  <2> SUFFICES ASSUME NEW i \in 1..(L + 1), L + 1 - i <= 0 PROVE f[0][At(i)] = SubSeq(c, i, L)
    OBVIOUS
  <2>1. i = L + 1 /\ At(i) = NULL
    BY <1>3
  <2>2. 0 \in 0..N
    BY <1>3
  <2> QED BY <1>2, <1>4, <2>1, <2>2
<1>6. \A k \in Nat : k \in P => k + 1 \in P
  <2> SUFFICES ASSUME NEW k \in Nat, k \in P, k + 1 <= N,
                      NEW i \in 1..(L + 1), L + 1 - i <= k + 1
               PROVE  f[k + 1][At(i)] = SubSeq(c, i, L)
    OBVIOUS
  <2>1. k + 1 \in 0..N /\ (k + 1) - 1 = k /\ k + 1 # 0
    BY <1>3
  <2>2. CASE i = L + 1
    <3>1. At(i) = NULL
      BY <1>3, <2>2
    <3> QED BY <1>2, <1>4, <2>1, <2>2, <3>1
  <2>3. CASE i # L + 1
    <3>1. i \in 1..L /\ i + 1 \in 1..(L + 1) /\ L + 1 - (i + 1) <= k /\ k <= N /\ At(i) = c[i]
      <4> HIDE DEF At
      <4>1. i \in 1..L /\ i + 1 \in 1..(L + 1) /\ L + 1 - (i + 1) <= k /\ k <= N
        BY <1>3, <2>3
      <4>2. At(i) = c[i]
        BY <1>3, <4>1 DEF At
      <4> QED BY <4>1, <4>2
    <3>2. f[k][At(i + 1)] = SubSeq(c, i + 1, L)
      BY <3>1
    <3>3. field[c[i]] = At(i + 1)
      <4>1. i = L => At(i + 1) = NULL
        BY <1>3
      <4>2. i # L => At(i + 1) = c[i + 1]
        BY <1>3, <3>1
      <4> HIDE DEF At
      <4> QED BY <3>1, <4>1, <4>2
    <3>4. c[i] \in Node \cup {NULL} /\ c[i] # NULL
      BY <1>3, <3>1, NullIsNoNode
    <3>5. f[k + 1][c[i]] = <<c[i]>> \o SubSeq(c, i + 1, L)
      <4> HIDE DEF At
      <4>1. f[k + 1][c[i]] = <<c[i]>> \o f[(k + 1) - 1][field[c[i]]]
        BY <1>2, <2>1, <3>4
      <4> QED BY <2>1, <3>2, <3>3, <4>1
    <3>6. <<c[i]>> \o SubSeq(c, i + 1, L) = SubSeq(c, i, L)
      <4> DEFINE u == <<c[i]>> \o SubSeq(c, i + 1, L)
                 v == SubSeq(c, i, L)
      <4>1. u \in Seq(Node) /\ v \in Seq(Node) /\ Len(u) = (L - i) + 1 /\ Len(v) = (L - i) + 1
        BY <1>3, <3>1
      <4>2. \A j \in 1..((L - i) + 1) : u[j] = v[j]
        <5> SUFFICES ASSUME NEW j \in 1..((L - i) + 1) PROVE u[j] = v[j]
          OBVIOUS
        <5>1. v[j] = c[i + (j - 1)]
          BY <1>3, <3>1
        <5>2. CASE j = 1
          BY <1>3, <3>1, <5>1, <5>2
        <5>3. CASE j # 1
          <6>1. u[j] = SubSeq(c, i + 1, L)[j - 1]
            BY <1>3, <3>1, <5>3
          <6>2. SubSeq(c, i + 1, L)[j - 1] = c[(i + 1) + ((j - 1) - 1)]
            BY <1>3, <3>1, <5>3
          <6> QED BY <1>3, <3>1, <5>1, <6>1, <6>2
        <5> QED BY <5>2, <5>3
      <4> HIDE DEF u, v
      <4>3. u = v
        BY <4>1, <4>2, SeqEqual
      <4> QED BY <4>3 DEF u, v
    <3> QED BY <3>1, <3>5, <3>6
  <2> QED BY <2>2, <2>3
<1> HIDE DEF P
<1>7. N \in P
  BY <1>3, <1>5, <1>6, NatInd
<1>8. f[N][At(1)] = SubSeq(c, 1, L)
  <2>1. 1 \in 1..(L + 1) /\ L + 1 - 1 <= N /\ N <= N
    BY <1>3
  <2> QED BY <1>7, <2>1 DEF P
<1>9. At(1) = FirstOf(c, NULL)
  BY <1>3 DEF FirstOf
<1>10. SubSeq(c, 1, L) = c
  OBVIOUS
<1> QED BY <1>1, <1>8, <1>9, <1>10

Cell == Value \cup {NULL}
Structure == [exists : {TRUE}, head : Ptr, tail : Ptr, size : Nat, copy : BOOLEAN]
Memory == [live : SUBSET Node, data : [Node -> Cell], prev : [Node -> Ptr], next : [Node -> Ptr],
           list : [Lists -> Structure \cup {NoList}]]

ListOf(c, copies) ==
    [exists |-> TRUE, head |-> FirstOf(c, NULL), tail |-> LastOf(c, NULL), size |-> Len(c),
     copy |-> copies]

(* List l is made of the nodes of c, or there is no list l.                *)
Holds(m, l, c) ==
    /\ \/ m.list[l] = NoList /\ c = <<>>
       \/ \E copies \in BOOLEAN : m.list[l] = ListOf(c, copies)
    /\ Seg(m, c, NULL, NULL) /\ Distinct(c)
    /\ \A n \in Nodes(c) : m.data[n] \in Value

(* The memory is that of a list c and a list d.                            *)
Rep(m, l, c, k, d) ==
    /\ m \in Memory
    /\ l \in Lists /\ k \in Lists /\ l # k
    /\ c \in Seq(Node) /\ d \in Seq(Node)
    /\ Holds(m, l, c) /\ Holds(m, k, d)
    /\ Nodes(c) \cap Nodes(d) = {}
    /\ m.live = Nodes(c) \cup Nodes(d)
-----------------------------------------------------------------------------
(* The fields of a memory.                                                 *)
LEMMA MemoryIs ==
  ASSUME NEW m \in Memory
  PROVE  /\ m.live \subseteq Node /\ m.data \in [Node -> Cell]
         /\ m.prev \in [Node -> Ptr] /\ m.next \in [Node -> Ptr]
         /\ m.list \in [Lists -> Structure \cup {NoList}]
BY DEF Memory

(* The two lists are named in either order.                                *)
LEMMA RepSwap ==
  ASSUME NEW m, NEW l, NEW c, NEW k, NEW d, Rep(m, l, c, k, d)
  PROVE  Rep(m, k, d, l, c)
BY DEF Rep

(* The structure of a list that exists.                                    *)
LEMMA LivesIs ==
  ASSUME NEW m, NEW l, NEW c, Holds(m, l, c), m.list[l].exists
  PROVE  /\ m.list[l].copy \in BOOLEAN /\ m.list[l] = ListOf(c, m.list[l].copy)
         /\ m.list[l].head = FirstOf(c, NULL) /\ m.list[l].tail = LastOf(c, NULL)
         /\ m.list[l].size = Len(c)
<1>1. m.list[l] # NoList
  BY DEF NoList
<1>2. PICK copies \in BOOLEAN : m.list[l] = ListOf(c, copies)
  BY <1>1 DEF Holds
<1> QED BY <1>2 DEF ListOf

(* A list that does not exist has no nodes.                                *)
LEMMA AbsentIs ==
  ASSUME NEW m, NEW l, NEW c, Holds(m, l, c), ~m.list[l].exists
  PROVE  m.list[l] = NoList /\ c = <<>>
<1>1. \A copies : ListOf(c, copies).exists
  BY DEF ListOf
<1> QED BY <1>1 DEF Holds

(* The walk from the head meets the nodes of the list, in order.           *)
LEMMA ChainIs ==
  ASSUME NEW m, NEW l, NEW c \in Seq(Node), Holds(m, l, c), m.list[l].exists
  PROVE  Chain(m, l) = c
<1>1. m.list[l].head = FirstOf(c, NULL)
  BY LivesIs
<1>2. Walk(m.next, FirstOf(c, NULL)) = c
  BY WalkIs DEF Holds, Seg
<1> QED BY <1>1, <1>2 DEF Chain

(* A sequence read backwards.                                              *)
LEMMA ReverseIs ==
  ASSUME NEW S, NEW c \in Seq(S)
  PROVE  /\ Reverse(c) \in Seq(S) /\ Len(Reverse(c)) = Len(c) /\ Len(c) \in Nat
         /\ \A i \in 1..Len(c) : Reverse(c)[i] = c[Len(c) - i + 1]
         /\ Nodes(Reverse(c)) = Nodes(c)
         /\ Distinct(c) => Distinct(Reverse(c))
         /\ \A x : FirstOf(Reverse(c), x) = LastOf(c, x) /\ LastOf(Reverse(c), x) = FirstOf(c, x)
<1> DEFINE r == Reverse(c)
           L == Len(c)
<1>1. L \in Nat /\ \A i \in 1..L : c[i] \in S /\ L - i + 1 \in 1..L /\ L - (L - i + 1) + 1 = i
  OBVIOUS
<1>2. r = [i \in 1..L |-> c[(L - i) + 1]]
  BY DEF Reverse
<1>3. r \in Seq(S) /\ Len(r) = L /\ \A i \in 1..L : r[i] = c[L - i + 1]
  BY <1>1, <1>2
<1> HIDE DEF r
<1>4. Nodes(r) = Nodes(c)
  <2>1. ASSUME NEW x \in Nodes(r) PROVE x \in Nodes(c)
    <3>1. PICK i \in 1..L : x = r[i]
      BY <1>3, <2>1 DEF Nodes
    <3>2. x = c[L - i + 1] /\ L - i + 1 \in 1..L
      BY <1>1, <1>3, <3>1
    <3> QED BY <3>2 DEF Nodes
  <2>2. ASSUME NEW x \in Nodes(c) PROVE x \in Nodes(r)
    <3>1. PICK i \in 1..L : x = c[i]
      BY <2>2 DEF Nodes
    <3> DEFINE j == L - i + 1
    <3>2. j \in 1..L /\ L - j + 1 = i
      BY <1>1
    <3> HIDE DEF j
    <3>3. r[j] = x
      BY <1>3, <3>1, <3>2
    <3> QED BY <1>3, <3>2, <3>3 DEF Nodes
  <2> QED BY <2>1, <2>2
<1>5. ASSUME Distinct(c) PROVE Distinct(r)
  <2> SUFFICES ASSUME NEW i \in 1..L, NEW j \in 1..L, r[i] = r[j] PROVE i = j
    BY <1>3 DEF Distinct
  <2>1. c[L - i + 1] = c[L - j + 1] /\ L - i + 1 \in 1..L /\ L - j + 1 \in 1..L
    BY <1>1, <1>3
  <2>2. L - i + 1 = L - j + 1
    BY <1>5, <2>1 DEF Distinct
  <2> QED BY <1>1, <2>2
<1>6. ASSUME NEW x PROVE FirstOf(r, x) = LastOf(c, x) /\ LastOf(r, x) = FirstOf(c, x)
  <2>1. CASE L = 0
    BY <1>3, <2>1 DEF FirstOf, LastOf
  <2>2. CASE L # 0
    <3>1. 1 \in 1..L /\ L \in 1..L /\ L - 1 + 1 = L /\ L - L + 1 = 1
      BY <1>1, <2>2
    <3>2. r[1] = c[L] /\ r[L] = c[1]
      BY <1>3, <3>1
    <3> QED BY <1>3, <2>2, <3>2 DEF FirstOf, LastOf
  <2> QED BY <2>1, <2>2
<1> QED BY <1>1, <1>3, <1>4, <1>5, <1>6 DEF r

(* The pointers that lead one way through c lead the other way through its *)
(* reverse.                                                                *)
LEMMA SegReverse ==
  ASSUME NEW S, NEW c \in Seq(S), NEW m, NEW a, NEW b, Seg(m, c, a, b), NEW o,
         \A n \in Nodes(c) : o.next[n] = m.prev[n] /\ o.prev[n] = m.next[n]
  PROVE  Seg(o, Reverse(c), b, a)
<1> DEFINE r == Reverse(c)
           L == Len(c)
<1>1. r \in Seq(S) /\ Len(r) = L /\ L \in Nat /\ \A i \in 1..L : r[i] = c[L - i + 1]
  BY ReverseIs
<1> HIDE DEF r
<1> SUFFICES ASSUME NEW i \in 1..L
             PROVE  /\ o.next[r[i]] = IF i = L THEN a ELSE r[i + 1]
                    /\ o.prev[r[i]] = IF i = 1 THEN b ELSE r[i - 1]
  BY <1>1 DEF Seg, r
<1> DEFINE j == L - i + 1
<1>2. j \in 1..L /\ (j = 1 <=> i = L) /\ (j = L <=> i = 1)
  BY <1>1
<1>3. r[i] = c[j] /\ (i # L => r[i + 1] = c[j - 1]) /\ (i # 1 => r[i - 1] = c[j + 1])
  <2>1. i # L => i + 1 \in 1..L /\ L - (i + 1) + 1 = j - 1
    BY <1>1
  <2>2. i # 1 => i - 1 \in 1..L /\ L - (i - 1) + 1 = j + 1
    BY <1>1
  <2>3. r[i] = c[j]
    BY <1>1
  <2>4. i # L => r[i + 1] = c[L - (i + 1) + 1]
    BY <1>1, <2>1
  <2>5. i # 1 => r[i - 1] = c[L - (i - 1) + 1]
    BY <1>1, <2>2
  <2> HIDE DEF j
  <2> QED BY <2>1, <2>2, <2>3, <2>4, <2>5
<1> HIDE DEF j
<1>4. /\ m.next[c[j]] = IF j = L THEN b ELSE c[j + 1]
      /\ m.prev[c[j]] = IF j = 1 THEN a ELSE c[j - 1]
  BY <1>2 DEF Seg
<1>5. o.next[c[j]] = m.prev[c[j]] /\ o.prev[c[j]] = m.next[c[j]]
  BY <1>2 DEF Nodes
<1> QED BY <1>2, <1>3, <1>4, <1>5

(* The walk from the tail along prev meets them in the reverse order.      *)
LEMMA WalksBack ==
  ASSUME NEW m, NEW l, NEW c \in Seq(Node), Holds(m, l, c), m.list[l].exists
  PROVE  Walk(m.prev, m.list[l].tail) = Reverse(c)
<1> DEFINE r == Reverse(c)
           o == [next |-> m.prev, prev |-> m.next]
<1>1. r \in Seq(Node) /\ Distinct(r) /\ FirstOf(r, NULL) = LastOf(c, NULL)
  BY ReverseIs DEF Holds
<1>2. Seg(o, r, NULL, NULL)
  <2>1. Seg(m, c, NULL, NULL)
    BY DEF Holds
  <2>2. o.next = m.prev /\ o.prev = m.next
    OBVIOUS
  <2> HIDE DEF o
  <2> QED BY <2>1, <2>2, SegReverse
<1>3. m.list[l].tail = LastOf(c, NULL)
  BY LivesIs
<1> HIDE DEF r
<1>4. \A i \in 1..Len(r) : m.prev[r[i]] = IF i = Len(r) THEN NULL ELSE r[i + 1]
  BY <1>2 DEF Seg
<1>5. Walk(m.prev, FirstOf(r, NULL)) = r
  BY <1>1, <1>4, WalkIs
<1> QED BY <1>1, <1>3, <1>5 DEF r

(* ToSet (SequencesExt) gives the nodes.                                   *)
LEMMA ToSetIs ==
  ASSUME NEW c
  PROVE  c \in Seq(Node) => ToSet(c) = Nodes(c)
BY DEF ToSet, Nodes

(* The nodes around a node.                                                *)
LEMMA GlueNodes ==
  ASSUME NEW S, NEW s \in Seq(S), NEW t \in Seq(S), NEW n \in S
  PROVE  /\ Glue(s, n, t) \in Seq(S) /\ Len(Glue(s, n, t)) = (Len(s) + 1) + Len(t)
         /\ Nodes(Glue(s, n, t)) = Nodes(s) \cup {n} \cup Nodes(t)
<1>1. Glue(s, n, t) \in Seq(S)
  BY GlueIs
<1>2. Len(Glue(s, n, t)) = (Len(s) + 1) + Len(t)
  BY GlueIs
<1>3. Nodes(Glue(s, n, t)) = Nodes(s) \cup {n} \cup Nodes(t)
  BY GlueIs
<1> QED BY <1>1, <1>2, <1>3

(* No node twice around a node.                                            *)
LEMMA GlueDistinct ==
  ASSUME NEW S, NEW s \in Seq(S), NEW t \in Seq(S), NEW n \in S
  PROVE  Distinct(Glue(s, n, t)) <=>
             /\ Distinct(s) /\ Distinct(t) /\ n \notin Nodes(s) /\ n \notin Nodes(t)
             /\ Nodes(s) \cap Nodes(t) = {}
BY GlueIs

(* The ends around a node.                                                 *)
LEMMA GlueEnds ==
  ASSUME NEW S, NEW s \in Seq(S), NEW t \in Seq(S), NEW n \in S, NEW x
  PROVE  FirstOf(Glue(s, n, t), x) = FirstOf(s, n) /\ LastOf(Glue(s, n, t), x) = LastOf(t, n)
<1>1. FirstOf(Glue(s, n, t), x) = FirstOf(s, n)
  BY GlueIs
<1>2. LastOf(Glue(s, n, t), x) = LastOf(t, n)
  BY GlueIs
<1> QED BY <1>1, <1>2

(* The links around a node.                                                *)
LEMMA GlueSeg ==
  ASSUME NEW S, NEW s \in Seq(S), NEW t \in Seq(S), NEW n \in S, NEW m, NEW a, NEW b
  PROVE  Seg(m, Glue(s, n, t), a, b) <=>
             /\ Seg(m, s, a, n) /\ m.prev[n] = LastOf(s, a)
             /\ m.next[n] = FirstOf(t, b) /\ Seg(m, t, n, b)
BY GlueIs

(* Facts under a name, so that a lemma's hypotheses are found.             *)
Has(m, l) == m.list[l].exists
Tells(m, l) == m.list[l].copy \in BOOLEAN
Fresh(m, n) == n \in Node /\ n \notin m.live
Gives(o, n, v) == o.data[n] = v

(* What a memory and the next one agree on: the values of the nodes that   *)
(* both have, and all of list k.                                           *)
Keeps(m, o, l, k) ==
    /\ o.list[k] = m.list[k]
    /\ Has(o, l) /\ o.list[l].copy = m.list[l].copy
    /\ \A x \in o.live \cap m.live : o.data[x] = m.data[x]

(* Fields of a memory, one by one.                                         *)
Made(o, live, data, prev, next, list) ==
    o = [live |-> live, data |-> data, prev |-> prev, next |-> next, list |-> list]

(* The fields of a memory that is made of them.                            *)
LEMMA MadeIs ==
  ASSUME NEW o, NEW live, NEW data, NEW prev, NEW next, NEW list,
         Made(o, live, data, prev, next, list)
  PROVE  o.live = live /\ o.data = data /\ o.prev = prev /\ o.next = next /\ o.list = list
BY DEF Made

(* Fields of the right types make a memory.                                *)
LEMMA MadeMemory ==
  ASSUME NEW o, NEW live \in SUBSET Node, NEW data \in [Node -> Cell], NEW prev \in [Node -> Ptr],
         NEW next \in [Node -> Ptr], NEW list \in [Lists -> Structure \cup {NoList}],
         Made(o, live, data, prev, next, list)
  PROVE  o \in Memory
BY DEF Made, Memory

(* A memory is made of its fields.                                         *)
LEMMA MemoryMade ==
  ASSUME NEW m \in Memory
  PROVE  Made(m, m.live, m.data, m.prev, m.next, m.list)
BY DEF Made, Memory

(* The structure of a list is one.                                         *)
LEMMA ListOfIs ==
  ASSUME NEW c \in Seq(Node), NEW copies \in BOOLEAN
  PROVE  ListOf(c, copies) \in Structure
<1>1. FirstOf(c, NULL) \in Ptr /\ LastOf(c, NULL) \in Ptr /\ Len(c) \in Nat
  <2>1. Nodes(c) \subseteq Node /\ Len(c) \in Nat
    BY NodesIn
  <2>2. c # <<>> => FirstOf(c, NULL) \in Nodes(c) /\ LastOf(c, NULL) \in Nodes(c)
    BY EndsAreNodes
  <2>3. c = <<>> => FirstOf(c, NULL) = NULL /\ LastOf(c, NULL) = NULL
    BY EmptyIs
  <2> QED BY <2>1, <2>2, <2>3 DEF Ptr
<1> QED BY <1>1 DEF ListOf, Structure

(* The list structures with l replaced.                                    *)
Relisted(m, l, st) == [m.list EXCEPT ![l] = st]

Relist(m, l, e) == Relisted(m, l, ListOf(e, m.list[l].copy))

(* A list is replaced by another: what is asked of the new nodes and of    *)
(* the old ones.                                                           *)
LEMMA Rebuilt ==
  ASSUME NEW m, NEW l, NEW c, NEW k, NEW d, Rep(m, l, c, k, d),
         NEW e \in Seq(Node), NEW data \in [Node -> Cell], NEW prev \in [Node -> Ptr],
         NEW next \in [Node -> Ptr], Tells(m, l), NEW o,
         Made(o, Nodes(e) \cup Nodes(d), data, prev, next, Relist(m, l, e)),
         Distinct(e), Nodes(e) \cap Nodes(d) = {}, Seg(o, e, NULL, NULL),
         \A x \in Nodes(e) : data[x] \in Value,
         \A x \in Nodes(d) : data[x] = m.data[x] /\ prev[x] = m.prev[x] /\ next[x] = m.next[x],
         \A x \in Nodes(e) \cap m.live : data[x] = m.data[x]
  PROVE  Rep(o, l, e, k, d) /\ Keeps(m, o, l, k)
<1> DEFINE list == Relist(m, l, e)
<1>1. /\ m \in Memory /\ l \in Lists /\ k \in Lists /\ l # k /\ c \in Seq(Node) /\ d \in Seq(Node)
      /\ Holds(m, k, d)
  BY DEF Rep
<1>2. ListOf(e, m.list[l].copy) \in Structure /\ ListOf(e, m.list[l].copy).exists
      /\ ListOf(e, m.list[l].copy).copy = m.list[l].copy
  BY ListOfIs DEF ListOf, Tells
<1>3. list \in [Lists -> Structure \cup {NoList}] /\ list[l] = ListOf(e, m.list[l].copy) /\ list[k] = m.list[k]
  <2>1. m.list \in [Lists -> Structure \cup {NoList}]
    BY <1>1, MemoryIs
  <2> QED BY <1>1, <1>2, <2>1 DEF Relisted, Relist
<1> HIDE DEF list
<1>4. Nodes(e) \cup Nodes(d) \in SUBSET Node
  BY <1>1, NodesIn
<1>5. Made(o, Nodes(e) \cup Nodes(d), data, prev, next, list)
  BY DEF list
<1>6. o \in Memory
  BY <1>3, <1>4, <1>5, MadeMemory
<1>7. o.live = Nodes(e) \cup Nodes(d) /\ o.data = data /\ o.prev = prev /\ o.next = next /\ o.list = list
  BY <1>5, MadeIs
<1>8. Holds(o, l, e)
  BY <1>3, <1>7 DEF Holds, Tells
<1>9. Holds(o, k, d)
  <2>1. Seg(m, d, NULL, NULL)
    BY <1>1 DEF Holds
  <2>2. Seg(o, d, NULL, NULL)
    BY <1>7, <2>1, SegFrame
  <2>3. \A x \in Nodes(d) : o.data[x] = m.data[x]
    BY <1>7
  <2> QED BY <1>1, <1>3, <1>7, <2>2, <2>3 DEF Holds
<1>10. Rep(o, l, e, k, d)
  BY <1>1, <1>6, <1>7, <1>8, <1>9 DEF Rep
<1>11. Keeps(m, o, l, k)
  BY <1>2, <1>3, <1>7 DEF Keeps, Has
<1> QED BY <1>10, <1>11

(* A free node, linked between s and t.                                    *)
Between(f, n, x, at, y) == [z \in Node |-> IF z = n THEN x ELSE IF z = at THEN y ELSE f[z]]

Inserts(m, o, l, s, n, t, v) ==
    Made(o, m.live \cup {n}, [m.data EXCEPT ![n] = v],
         Between(m.prev, n, LastOf(s, NULL), FirstOf(t, NULL), n),
         Between(m.next, n, FirstOf(t, NULL), LastOf(s, NULL), n),
         Relisted(m, l, ListOf(Glue(s, n, t), m.list[l].copy)))

(* After the links of an insertion the memory is that of the longer list.  *)
LEMMA Inserted ==
  ASSUME NEW m, NEW l, NEW s \in Seq(Node), NEW t \in Seq(Node), NEW k, NEW d,
         Rep(m, l, s \o t, k, d), Has(m, l), NEW n, Fresh(m, n), NEW v \in Value,
         NEW o, Inserts(m, o, l, s, n, t, v)
  PROVE  Rep(o, l, Glue(s, n, t), k, d) /\ Keeps(m, o, l, k) /\ Gives(o, n, v)
<1>0. /\ m.list[l].exists /\ n \in Node /\ n \notin m.live
      /\ Made(o, m.live \cup {n}, [m.data EXCEPT ![n] = v],
              Between(m.prev, n, LastOf(s, NULL), FirstOf(t, NULL), n),
              Between(m.next, n, FirstOf(t, NULL), LastOf(s, NULL), n),
              Relisted(m, l, ListOf(Glue(s, n, t), m.list[l].copy)))
  BY DEF Has, Fresh, Inserts
<1> USE <1>0
<1> DEFINE e == Glue(s, n, t)
           data == [m.data EXCEPT ![n] = v]
           prev == Between(m.prev, n, LastOf(s, NULL), FirstOf(t, NULL), n)
           next == Between(m.next, n, FirstOf(t, NULL), LastOf(s, NULL), n)
           p == LastOf(s, NULL)
           q == FirstOf(t, NULL)
<1>1. /\ m \in Memory /\ l \in Lists /\ k \in Lists /\ l # k /\ d \in Seq(Node)
      /\ Holds(m, l, s \o t) /\ Holds(m, k, d)
      /\ Nodes(s \o t) \cap Nodes(d) = {} /\ m.live = Nodes(s \o t) \cup Nodes(d)
  BY DEF Rep
<1>2. /\ m.data \in [Node -> Cell] /\ m.prev \in [Node -> Ptr] /\ m.next \in [Node -> Ptr]
  BY <1>1, MemoryIs
<1>3. /\ Nodes(s \o t) = Nodes(s) \cup Nodes(t)
      /\ Distinct(s) /\ Distinct(t) /\ Nodes(s) \cap Nodes(t) = {}
      /\ Seg(m, s, NULL, q) /\ Seg(m, t, p, NULL)
  BY <1>1, NodesConcat, DistinctConcat, SegConcat DEF Holds
<1>4. /\ Nodes(s) \subseteq Node /\ Nodes(t) \subseteq Node
      /\ p \in Nodes(s) \cup {NULL} /\ q \in Nodes(t) \cup {NULL}
      /\ s = <<>> => p = NULL
      /\ t = <<>> => q = NULL
  BY NodesIn, EndsAreNodes, EmptyIs
<1>5. /\ n # NULL /\ n # p /\ n # q /\ n \notin Nodes(s) /\ n \notin Nodes(t) /\ n \notin Nodes(d)
      /\ NULL \notin Nodes(s) /\ NULL \notin Nodes(t) /\ NULL \notin Nodes(d)
      /\ p \in Ptr /\ q \in Ptr /\ n \in Ptr
  <2>1. Nodes(d) \subseteq Node
    BY <1>1, NodesIn
  <2> QED BY <1>0, <1>1, <1>3, <1>4, <2>1, NullIsNoNode DEF Ptr
<1>6. /\ data \in [Node -> Cell] /\ prev \in [Node -> Ptr] /\ next \in [Node -> Ptr]
  <2>1. data \in [Node -> Cell]
    BY <1>2 DEF Cell
  <2>2. prev \in [Node -> Ptr] /\ next \in [Node -> Ptr]
    BY <1>2, <1>5 DEF Between
  <2> QED BY <2>1, <2>2
<1>7. /\ data[n] = v /\ \A x \in Node : x # n => data[x] = m.data[x]
      /\ \A x \in Node : prev[x] = IF x = n THEN p ELSE IF x = q THEN n ELSE m.prev[x]
      /\ \A x \in Node : next[x] = IF x = n THEN q ELSE IF x = p THEN n ELSE m.next[x]
  BY <1>2 DEF Between
<1> HIDE DEF data, prev, next, p, q, e
<1>8. /\ e \in Seq(Node) /\ Nodes(e) = Nodes(s) \cup {n} \cup Nodes(t) /\ Distinct(e)
      /\ \A u, a, b : Seg(u, e, a, b) <=>
             /\ Seg(u, s, a, n) /\ u.prev[n] = LastOf(s, a)
             /\ u.next[n] = FirstOf(t, b) /\ Seg(u, t, n, b)
  <2>1. Distinct(e) <=>
            /\ Distinct(s) /\ Distinct(t) /\ n \notin Nodes(s) /\ n \notin Nodes(t)
            /\ Nodes(s) \cap Nodes(t) = {}
    BY GlueNodes, GlueDistinct, GlueSeg DEF e
  <2>2. e \in Seq(Node) /\ Nodes(e) = Nodes(s) \cup {n} \cup Nodes(t)
    BY GlueNodes, GlueDistinct, GlueSeg DEF e
  <2>3. \A u, a, b : Seg(u, e, a, b) <=>
             /\ Seg(u, s, a, n) /\ u.prev[n] = LastOf(s, a)
             /\ u.next[n] = FirstOf(t, b) /\ Seg(u, t, n, b)
    BY GlueNodes, GlueDistinct, GlueSeg DEF e
  <2> QED BY <1>3, <1>5, <2>1, <2>2, <2>3
<1>9. /\ o.data = data /\ o.prev = prev /\ o.next = next
  BY <1>0, MadeIs DEF data, prev, next, p, q
<1>10. Seg(o, s, NULL, n)
  <2>1. \A x \in Nodes(s) : /\ o.next[x] = IF x = LastOf(s, NULL) THEN n ELSE m.next[x]
                            /\ o.prev[x] = IF x = FirstOf(s, q) THEN NULL ELSE m.prev[x]
    <3> SUFFICES ASSUME NEW x \in Nodes(s)
                 PROVE  /\ o.next[x] = IF x = LastOf(s, NULL) THEN n ELSE m.next[x]
                        /\ o.prev[x] = IF x = FirstOf(s, q) THEN NULL ELSE m.prev[x]
      OBVIOUS
    <3>1. x \in Node /\ x # n /\ x # q
      BY <1>3, <1>4, <1>5
    <3>2. o.next[x] = IF x = p THEN n ELSE m.next[x]
      BY <1>7, <1>9, <3>1
    <3>3. o.prev[x] = m.prev[x]
      BY <1>7, <1>9, <3>1
    <3>4. x = FirstOf(s, q) => m.prev[x] = NULL
      <4>1. s # <<>> /\ Len(s) # 0 /\ 1 \in 1..Len(s)
        BY NodesIn, EmptyIs
      <4> QED BY <1>3, <4>1 DEF Seg, FirstOf
    <3> QED BY <3>2, <3>3, <3>4 DEF p
  <2> QED BY <1>3, <2>1, SegRelink
<1>11. Seg(o, t, n, NULL)
  <2>1. \A x \in Nodes(t) : /\ o.next[x] = IF x = LastOf(t, p) THEN NULL ELSE m.next[x]
                            /\ o.prev[x] = IF x = FirstOf(t, NULL) THEN n ELSE m.prev[x]
    <3> SUFFICES ASSUME NEW x \in Nodes(t)
                 PROVE  /\ o.next[x] = IF x = LastOf(t, p) THEN NULL ELSE m.next[x]
                        /\ o.prev[x] = IF x = FirstOf(t, NULL) THEN n ELSE m.prev[x]
      OBVIOUS
    <3>1. x \in Node /\ x # n /\ x # p
      BY <1>3, <1>4, <1>5
    <3>2. o.next[x] = m.next[x]
      BY <1>7, <1>9, <3>1
    <3>3. o.prev[x] = IF x = q THEN n ELSE m.prev[x]
      BY <1>7, <1>9, <3>1
    <3>4. x = LastOf(t, p) => m.next[x] = NULL
      <4>1. t # <<>> /\ Len(t) # 0 /\ Len(t) \in 1..Len(t)
        BY NodesIn, EmptyIs
      <4> QED BY <1>3, <4>1 DEF Seg, LastOf
    <3> QED BY <3>2, <3>3, <3>4 DEF q
  <2> QED BY <1>3, <2>1, SegRelink
<1>12. Seg(o, e, NULL, NULL)
  BY <1>7, <1>8, <1>9, <1>10, <1>11 DEF p, q
<1>13. Nodes(e) \cap Nodes(d) = {} /\ m.live \cup {n} = Nodes(e) \cup Nodes(d)
  BY <1>1, <1>3, <1>5, <1>8
<1>14. \A x \in Nodes(s) \cup Nodes(t) : m.data[x] \in Value
  BY <1>1, <1>3 DEF Holds
<1>15. \A x \in Nodes(e) : data[x] \in Value
  BY <1>4, <1>7, <1>8, <1>14
<1>16. \A x \in Nodes(d) : data[x] = m.data[x] /\ prev[x] = m.prev[x] /\ next[x] = m.next[x]
  <2> SUFFICES ASSUME NEW x \in Nodes(d)
               PROVE  data[x] = m.data[x] /\ prev[x] = m.prev[x] /\ next[x] = m.next[x]
    OBVIOUS
  <2>1. x \in Node /\ x # n /\ x # p /\ x # q
    BY <1>1, <1>3, <1>4, <1>5, NodesIn
  <2> QED BY <1>7, <2>1
<1>17. \A x \in Nodes(e) \cap m.live : data[x] = m.data[x]
  BY <1>4, <1>7, <1>8
<1>18. Tells(m, l)
  BY <1>0, <1>1, LivesIs DEF Tells
<1>19. Made(o, Nodes(e) \cup Nodes(d), data, prev, next, Relist(m, l, e))
  BY <1>0, <1>13 DEF data, prev, next, e, p, q, Relist
<1>20. Rep(o, l, e, k, d) /\ Keeps(m, o, l, k)
  BY <1>6, <1>8, <1>12, <1>13, <1>15, <1>16, <1>17, <1>18, <1>19, Rebuilt
<1> QED BY <1>7, <1>9, <1>20 DEF e, Gives

(* malloc gives a node that is not allocated.                              *)
LEMMA NewIs ==
  ASSUME NEW m, Free(m) # {}
  PROVE  New(m) \in Node /\ New(m) \notin m.live
BY DEF New, Free

(* The structure of a list, field by field.                                *)
Fields(st, h, t, z, copies) ==
    /\ st = [exists |-> st.exists, head |-> st.head, tail |-> st.tail, size |-> st.size, copy |-> st.copy]
    /\ st.exists = TRUE /\ st.head = h /\ st.tail = t /\ st.size = z /\ st.copy = copies

(* Fields says all of a structure.                                         *)
LEMMA FieldsIs ==
  ASSUME NEW st, NEW h, NEW t, NEW z, NEW copies
  PROVE Fields(st, h, t, z, copies) <=> st = [exists |-> TRUE, head |-> h, tail |-> t, size |-> z, copy |-> copies]
<1>1. ASSUME Fields(st, h, t, z, copies) PROVE st = [exists |-> TRUE, head |-> h, tail |-> t, size |-> z, copy |-> copies]
  BY <1>1 DEF Fields
<1>2. ASSUME st = [exists |-> TRUE, head |-> h, tail |-> t, size |-> z, copy |-> copies] PROVE Fields(st, h, t, z, copies)
  BY <1>2 DEF Fields
<1> QED BY <1>1, <1>2

(* The fields of the structure of a list.                                  *)
LEMMA ListOfFields ==
  ASSUME NEW st, NEW c, NEW copies
  PROVE  st = ListOf(c, copies) <=> Fields(st, FirstOf(c, NULL), LastOf(c, NULL), Len(c), copies)
BY FieldsIs DEF ListOf

(* The ends do not depend on the default when there are nodes.             *)
LEMMA EndsSame ==
  ASSUME NEW S, NEW c \in Seq(S), NEW x, NEW y
  PROVE  c # <<>> => FirstOf(c, x) = FirstOf(c, y) /\ LastOf(c, x) = LastOf(c, y)
<1>1. c # <<>> => Len(c) # 0
  BY NodesIn
<1> QED BY <1>1 DEF FirstOf, LastOf

(* Other ways to write a sequence around a node.                           *)
LEMMA GlueAround ==
  ASSUME NEW S, NEW s \in Seq(S), NEW t \in Seq(S), NEW n \in S
  PROVE  /\ Glue(s, n, t) = s \o (<<n>> \o t) /\ Glue(<<>>, n, t) = <<n>> \o t
         /\ Glue(s, n, <<>>) = s \o <<n>> /\ <<n>> \o t \in Seq(S) /\ s \o <<n>> \in Seq(S)
BY DEF Glue

(* What is left to show of each operation that inserts.                    *)
LEMMA InsertMade ==
  ASSUME NEW m, NEW l, NEW s \in Seq(Node), NEW t \in Seq(Node), NEW n, Fresh(m, n), NEW v,
         NEW o, NEW st, NEW prev, NEW next,
         Made(o, m.live \cup {n}, [m.data EXCEPT ![n] = v], prev, next, [m.list EXCEPT ![l] = st]),
         Fields(st, FirstOf(s, n), LastOf(t, n), (Len(s) + Len(t)) + 1, m.list[l].copy),
         prev = Between(m.prev, n, LastOf(s, NULL), FirstOf(t, NULL), n),
         next = Between(m.next, n, FirstOf(t, NULL), LastOf(s, NULL), n)
  PROVE  Inserts(m, o, l, s, n, t, v)
<1>1. n \in Node
  BY DEF Fresh
<1>2. FirstOf(Glue(s, n, t), NULL) = FirstOf(s, n) /\ LastOf(Glue(s, n, t), NULL) = LastOf(t, n)
  BY <1>1, GlueEnds
<1>3. Len(Glue(s, n, t)) = (Len(s) + Len(t)) + 1
  <2>1. Len(Glue(s, n, t)) = (Len(s) + 1) + Len(t)
    BY <1>1, GlueNodes
  <2>2. Len(s) \in Nat /\ Len(t) \in Nat
    BY NodesIn
  <2> QED BY <2>1, <2>2
<1>4. st = ListOf(Glue(s, n, t), m.list[l].copy)
  <2> DEFINE e == Glue(s, n, t)
  <2>1. Fields(st, FirstOf(e, NULL), LastOf(e, NULL), Len(e), m.list[l].copy)
    BY <1>2, <1>3
  <2> HIDE DEF e
  <2>2. st = ListOf(e, m.list[l].copy)
    BY <2>1, ListOfFields
  <2> QED BY <2>2 DEF e
<1> QED BY <1>4 DEF Inserts, Relisted

(* new_node gives a free node that is linked to nothing.                   *)
LEMMA NewNodeIs ==
  ASSUME NEW m \in Memory, Free(m) # {}, NEW v
  PROVE  /\ Fresh(m, New(m))
         /\ Made(new_node(m, v), m.live \cup {New(m)}, [m.data EXCEPT ![New(m)] = v],
                 [m.prev EXCEPT ![New(m)] = NULL], [m.next EXCEPT ![New(m)] = NULL], m.list)
<1> DEFINE n == New(m)
           w == new_node(m, v)
<1>1. Fresh(m, n)
  BY NewIs DEF Fresh
<1>2. w = [m EXCEPT !.live = @ \cup {n}, !.data[n] = v, !.prev[n] = NULL, !.next[n] = NULL]
  BY DEF new_node
<1>3. Made(m, m.live, m.data, m.prev, m.next, m.list)
  BY MemoryMade
<1>4. Made(w, m.live \cup {n}, [m.data EXCEPT ![n] = v], [m.prev EXCEPT ![n] = NULL],
           [m.next EXCEPT ![n] = NULL], m.list)
  <2> HIDE DEF w, n
  <2> QED BY <1>2, <1>3 DEF Made
<1> QED BY <1>1, <1>4
-----------------------------------------------------------------------------
(* push_front links the new node before the others.                        *)
LEMMA PushFrontMade ==
  ASSUME NEW m, NEW l, NEW c, NEW k, NEW d, Rep(m, l, c, k, d), Has(m, l), Free(m) # {}, NEW v \in Value
  PROVE  Inserts(m, push_front(m, l, v), l, <<>>, New(m), c, v)
<1> DEFINE n == New(m)
           h == m.list[l].head
           b == m.list[l].tail
           st == m.list[l]
           copies == st.copy
           o == push_front(m, l, v)
           w == new_node(m, v)
           live == m.live \cup {n}
           data == [m.data EXCEPT ![n] = v]
           p == m.prev
           q == m.next
<1>1. /\ m \in Memory /\ l \in Lists /\ c \in Seq(Node)
  BY DEF Rep
<1>2. /\ p \in [Node -> Ptr] /\ q \in [Node -> Ptr] /\ m.list \in [Lists -> Structure \cup {NoList}]
  BY <1>1, MemoryIs
<1>3. Fresh(m, n) /\ Made(w, live, data, [p EXCEPT ![n] = NULL], [q EXCEPT ![n] = NULL], m.list)
  BY <1>1, NewNodeIs
<1>4. Fields(st, FirstOf(c, NULL), LastOf(c, NULL), Len(c), copies) /\ h = FirstOf(c, NULL) /\ b = LastOf(c, NULL)
  <2>1. Holds(m, l, c) /\ m.list[l].exists
    BY DEF Rep, Has
  <2>2. st = ListOf(c, copies) /\ h = FirstOf(c, NULL) /\ b = LastOf(c, NULL)
    BY <1>1, <2>1, LivesIs
  <2> QED BY <2>2, ListOfFields
<1>5. /\ c = <<>> => h = NULL /\ b = NULL
      /\ c # <<>> => h # NULL /\ h \in Node /\ b \in Node /\ h # n /\ b # n
      /\ n \in Node /\ NULL \notin Node
  <2>1. c = <<>> => FirstOf(c, NULL) = NULL /\ LastOf(c, NULL) = NULL
    BY EmptyIs
  <2>2. c # <<>> => FirstOf(c, NULL) \in Nodes(c) /\ LastOf(c, NULL) \in Nodes(c) /\ Nodes(c) \subseteq Node
    BY <1>1, NodesIn, EndsAreNodes
  <2>3. n \in Node /\ n \notin Nodes(c)
    BY <1>3 DEF Fresh, Rep
  <2> HIDE DEF h, b, n
  <2> QED BY <1>4, <2>1, <2>2, <2>3, NullIsNoNode
<1> DEFINE alone == [st EXCEPT !.head = n, !.tail = n, !.size = @ + 1]
           longer == [st EXCEPT !.head = n, !.size = @ + 1]
<1>6. CASE c = <<>>
  <2>1. o = [w EXCEPT !.list[l].head = n, !.list[l].tail = n, !.list[l].size = @ + 1]
    BY <1>5, <1>6 DEF push_front, Alone
  <2>2. Made(o, live, data, [p EXCEPT ![n] = NULL], [q EXCEPT ![n] = NULL], [m.list EXCEPT ![l] = alone])
    <3> HIDE DEF o, w, n, live, data, p, q
    <3> QED BY <1>1, <1>2, <1>3, <2>1 DEF Made
  <2>3. Fields(alone, n, n, Len(c) + 1, copies)
    <3>1. alone = [st EXCEPT !.head = n, !.tail = n, !.size = Len(c) + 1]
      BY <1>4 DEF Fields
    <3> HIDE DEF st, n, alone, copies
    <3> QED BY <1>4, <3>1 DEF Fields
  <2> DEFINE z == <<>>
             prev == [p EXCEPT ![n] = NULL]
             next == [q EXCEPT ![n] = NULL]
  <2>4. z \in Seq(Node) /\ FirstOf(z, n) = n /\ LastOf(z, n) = n /\ FirstOf(z, NULL) = NULL /\ LastOf(z, NULL) = NULL
    BY EmptyIs
  <2>5. (Len(z) + Len(z)) + 1 = Len(c) + 1
    BY <1>6
  <2>6. prev = Between(p, n, NULL, NULL, n) /\ next = Between(q, n, NULL, NULL, n)
    <3> HIDE DEF n, p, q
    <3> QED BY <1>2, <1>5 DEF Between
  <2> HIDE DEF z, alone, o, n, live, data, prev, next, p, q, st, copies
  <2>7. Fields(alone, FirstOf(z, n), LastOf(z, n), (Len(z) + Len(z)) + 1, copies)
    BY <2>3, <2>4, <2>5
  <2>8. /\ prev = Between(p, n, LastOf(z, NULL), FirstOf(z, NULL), n)
        /\ next = Between(q, n, FirstOf(z, NULL), LastOf(z, NULL), n)
    BY <2>4, <2>6
  <2>9. Made(o, live, data, prev, next, [m.list EXCEPT ![l] = alone])
    BY <2>2 DEF prev, next
  <2>10. Inserts(m, o, l, z, n, z, v)
    BY <1>3, <2>4, <2>7, <2>8, <2>9, InsertMade DEF live, data, p, q, copies, st
  <2>11. c = z
    BY <1>6 DEF z
  <2> QED BY <2>10, <2>11 DEF z, o, n
<1>7. CASE c # <<>>
  <2>1. o = [w EXCEPT !.next[n] = h, !.prev[h] = n, !.list[l].head = n, !.list[l].size = @ + 1]
    BY <1>5, <1>7 DEF push_front
  <2> DEFINE prev == [p EXCEPT ![n] = NULL, ![h] = n]
             next == [q EXCEPT ![n] = NULL, ![n] = h]
  <2>2. Made(o, live, data, prev, next, [m.list EXCEPT ![l] = longer])
    <3> HIDE DEF o, w, n, live, data, p, q, h, b
    <3> QED BY <1>1, <1>2, <1>3, <2>1 DEF Made
  <2>3. Fields(longer, n, LastOf(c, NULL), Len(c) + 1, copies)
    <3>1. longer = [st EXCEPT !.head = n, !.size = Len(c) + 1]
      BY <1>4 DEF Fields
    <3> HIDE DEF st, n, longer, copies
    <3> QED BY <1>4, <3>1 DEF Fields
  <2> DEFINE z == <<>>
  <2>4. z \in Seq(Node) /\ FirstOf(z, n) = n /\ LastOf(z, n) = n /\ FirstOf(z, NULL) = NULL /\ LastOf(z, NULL) = NULL
    BY EmptyIs
  <2>5. (Len(z) + Len(c)) + 1 = Len(c) + 1
    BY <1>1, EmptyIs
  <2>6. prev = Between(p, n, NULL, h, n) /\ next = Between(q, n, h, NULL, n)
    <3> HIDE DEF n, p, q, h, b
    <3> QED BY <1>2, <1>5, <1>7 DEF Between
  <2>6a. FirstOf(c, NULL) = FirstOf(c, n) /\ LastOf(c, NULL) = LastOf(c, n)
    BY <1>1, <1>7, EndsSame
  <2> HIDE DEF z, longer, o, n, live, data, prev, next, p, q, st, copies, h, b
  <2>7. Fields(longer, FirstOf(z, n), LastOf(c, n), (Len(z) + Len(c)) + 1, copies)
    BY <2>3, <2>4, <2>5, <2>6a
  <2>8. /\ prev = Between(p, n, LastOf(z, NULL), FirstOf(c, NULL), n)
        /\ next = Between(q, n, FirstOf(c, NULL), LastOf(z, NULL), n)
    BY <1>4, <2>4, <2>6
  <2>9. Made(o, live, data, prev, next, [m.list EXCEPT ![l] = longer])
    BY <2>2
  <2>10. Inserts(m, o, l, z, n, c, v)
    BY <1>1, <1>3, <2>4, <2>7, <2>8, <2>9, InsertMade DEF live, data, p, q, copies, st
  <2> QED BY <2>10 DEF z, o, n
<1> QED BY <1>6, <1>7

(* push_back links it after them.                                          *)
LEMMA PushBackMade ==
  ASSUME NEW m, NEW l, NEW c, NEW k, NEW d, Rep(m, l, c, k, d), Has(m, l), Free(m) # {}, NEW v \in Value
  PROVE  Inserts(m, push_back(m, l, v), l, c, New(m), <<>>, v)
<1> DEFINE n == New(m)
           h == m.list[l].head
           b == m.list[l].tail
           st == m.list[l]
           copies == st.copy
           o == push_back(m, l, v)
           w == new_node(m, v)
           live == m.live \cup {n}
           data == [m.data EXCEPT ![n] = v]
           p == m.prev
           q == m.next
<1>1. /\ m \in Memory /\ l \in Lists /\ c \in Seq(Node)
  BY DEF Rep
<1>2. /\ p \in [Node -> Ptr] /\ q \in [Node -> Ptr] /\ m.list \in [Lists -> Structure \cup {NoList}]
  BY <1>1, MemoryIs
<1>3. Fresh(m, n) /\ Made(w, live, data, [p EXCEPT ![n] = NULL], [q EXCEPT ![n] = NULL], m.list)
  BY <1>1, NewNodeIs
<1>4. Fields(st, FirstOf(c, NULL), LastOf(c, NULL), Len(c), copies) /\ h = FirstOf(c, NULL) /\ b = LastOf(c, NULL)
  <2>1. Holds(m, l, c) /\ m.list[l].exists
    BY DEF Rep, Has
  <2>2. st = ListOf(c, copies) /\ h = FirstOf(c, NULL) /\ b = LastOf(c, NULL)
    BY <1>1, <2>1, LivesIs
  <2> QED BY <2>2, ListOfFields
<1>5. /\ c = <<>> => h = NULL /\ b = NULL
      /\ c # <<>> => h # NULL /\ h \in Node /\ b \in Node /\ h # n /\ b # n
      /\ n \in Node /\ NULL \notin Node
  <2>1. c = <<>> => FirstOf(c, NULL) = NULL /\ LastOf(c, NULL) = NULL
    BY EmptyIs
  <2>2. c # <<>> => FirstOf(c, NULL) \in Nodes(c) /\ LastOf(c, NULL) \in Nodes(c) /\ Nodes(c) \subseteq Node
    BY <1>1, NodesIn, EndsAreNodes
  <2>3. n \in Node /\ n \notin Nodes(c)
    BY <1>3 DEF Fresh, Rep
  <2> HIDE DEF h, b, n
  <2> QED BY <1>4, <2>1, <2>2, <2>3, NullIsNoNode
<1> DEFINE alone == [st EXCEPT !.head = n, !.tail = n, !.size = @ + 1]
           longer == [st EXCEPT !.tail = n, !.size = @ + 1]
<1>6. CASE c = <<>>
  <2>1. o = [w EXCEPT !.list[l].head = n, !.list[l].tail = n, !.list[l].size = @ + 1]
    BY <1>5, <1>6 DEF push_back, Alone
  <2>2. Made(o, live, data, [p EXCEPT ![n] = NULL], [q EXCEPT ![n] = NULL], [m.list EXCEPT ![l] = alone])
    <3> HIDE DEF o, w, n, live, data, p, q
    <3> QED BY <1>1, <1>2, <1>3, <2>1 DEF Made
  <2>3. Fields(alone, n, n, Len(c) + 1, copies)
    <3>1. alone = [st EXCEPT !.head = n, !.tail = n, !.size = Len(c) + 1]
      BY <1>4 DEF Fields
    <3> HIDE DEF st, n, alone, copies
    <3> QED BY <1>4, <3>1 DEF Fields
  <2> DEFINE z == <<>>
             prev == [p EXCEPT ![n] = NULL]
             next == [q EXCEPT ![n] = NULL]
  <2>4. z \in Seq(Node) /\ FirstOf(z, n) = n /\ LastOf(z, n) = n /\ FirstOf(z, NULL) = NULL /\ LastOf(z, NULL) = NULL
    BY EmptyIs
  <2>5. (Len(z) + Len(z)) + 1 = Len(c) + 1
    BY <1>6
  <2>6. prev = Between(p, n, NULL, NULL, n) /\ next = Between(q, n, NULL, NULL, n)
    <3> HIDE DEF n, p, q
    <3> QED BY <1>2, <1>5 DEF Between
  <2> HIDE DEF z, alone, o, n, live, data, prev, next, p, q, st, copies
  <2>7. Fields(alone, FirstOf(z, n), LastOf(z, n), (Len(z) + Len(z)) + 1, copies)
    BY <2>3, <2>4, <2>5
  <2>8. /\ prev = Between(p, n, LastOf(z, NULL), FirstOf(z, NULL), n)
        /\ next = Between(q, n, FirstOf(z, NULL), LastOf(z, NULL), n)
    BY <2>4, <2>6
  <2>9. Made(o, live, data, prev, next, [m.list EXCEPT ![l] = alone])
    BY <2>2 DEF prev, next
  <2>10. Inserts(m, o, l, z, n, z, v)
    BY <1>3, <2>4, <2>7, <2>8, <2>9, InsertMade DEF live, data, p, q, copies, st
  <2>11. c = z
    BY <1>6 DEF z
  <2> QED BY <2>10, <2>11 DEF z, o, n
<1>7. CASE c # <<>>
  <2>1. o = [w EXCEPT !.prev[n] = b, !.next[b] = n, !.list[l].tail = n, !.list[l].size = @ + 1]
    BY <1>5, <1>7 DEF push_back
  <2> DEFINE prev == [p EXCEPT ![n] = NULL, ![n] = b]
             next == [q EXCEPT ![n] = NULL, ![b] = n]
  <2>2. Made(o, live, data, prev, next, [m.list EXCEPT ![l] = longer])
    <3> HIDE DEF o, w, n, live, data, p, q, h, b
    <3> QED BY <1>1, <1>2, <1>3, <2>1 DEF Made
  <2>3. Fields(longer, FirstOf(c, NULL), n, Len(c) + 1, copies)
    <3>1. longer = [st EXCEPT !.tail = n, !.size = Len(c) + 1]
      BY <1>4 DEF Fields
    <3> HIDE DEF st, n, longer, copies
    <3> QED BY <1>4, <3>1 DEF Fields
  <2> DEFINE z == <<>>
  <2>4. z \in Seq(Node) /\ FirstOf(z, n) = n /\ LastOf(z, n) = n /\ FirstOf(z, NULL) = NULL /\ LastOf(z, NULL) = NULL
    BY EmptyIs
  <2>5. (Len(c) + Len(z)) + 1 = Len(c) + 1
    BY <1>1, EmptyIs
  <2>6. prev = Between(p, n, b, NULL, n) /\ next = Between(q, n, NULL, b, n)
    <3> HIDE DEF n, p, q, h, b
    <3> QED BY <1>2, <1>5, <1>7 DEF Between
  <2>6a. FirstOf(c, NULL) = FirstOf(c, n) /\ LastOf(c, NULL) = LastOf(c, n)
    BY <1>1, <1>7, EndsSame
  <2> HIDE DEF z, longer, o, n, live, data, prev, next, p, q, st, copies, h, b
  <2>7. Fields(longer, FirstOf(c, n), LastOf(z, n), (Len(c) + Len(z)) + 1, copies)
    BY <2>3, <2>4, <2>5, <2>6a
  <2>8. /\ prev = Between(p, n, LastOf(c, NULL), FirstOf(z, NULL), n)
        /\ next = Between(q, n, FirstOf(z, NULL), LastOf(c, NULL), n)
    BY <1>4, <2>4, <2>6
  <2>9. Made(o, live, data, prev, next, [m.list EXCEPT ![l] = longer])
    BY <2>2
  <2>10. Inserts(m, o, l, c, n, z, v)
    BY <1>1, <1>3, <2>4, <2>7, <2>8, <2>9, InsertMade DEF live, data, p, q, copies, st
  <2> QED BY <2>10 DEF z, o, n
<1> QED BY <1>6, <1>7

(* What is around a node x of a list, after s and before t.                *)
Around(m, l, s, x, t) ==
    /\ m.prev[x] = LastOf(s, NULL) /\ m.next[x] = FirstOf(t, NULL)
    /\ Fields(m.list[l], FirstOf(s, x), LastOf(t, x), (Len(s) + Len(t)) + 1, m.list[l].copy)
    /\ m.list[l].copy \in BOOLEAN
    /\ x \in m.live
    /\ (s = <<>> <=> LastOf(s, NULL) = NULL)
    /\ (t = <<>> <=> FirstOf(t, NULL) = NULL)
    /\ LastOf(s, NULL) \in Nodes(s) \cup {NULL} /\ FirstOf(t, NULL) \in Nodes(t) \cup {NULL}
    /\ Nodes(s) \subseteq m.live /\ Nodes(t) \subseteq m.live /\ m.live \subseteq Node
    /\ Distinct(s) /\ Distinct(t) /\ Nodes(s) \cap Nodes(t) = {}
    /\ x \notin Nodes(s) /\ x \notin Nodes(t)
    /\ Seg(m, s, NULL, x) /\ Seg(m, t, x, NULL)

(* All of a position in a list, at once.                                   *)
LEMMA PosFacts ==
  ASSUME NEW m, NEW l, NEW s \in Seq(Node), NEW x \in Node, NEW t \in Seq(Node), NEW k, NEW d,
         Rep(m, l, Glue(s, x, t), k, d), Has(m, l)
  PROVE  Around(m, l, s, x, t)
<1> DEFINE e == Glue(s, x, t)
           p == LastOf(s, NULL)
           q == FirstOf(t, NULL)
<1>1. e \in Seq(Node) /\ Nodes(e) = Nodes(s) \cup {x} \cup Nodes(t)
  BY GlueNodes
<1>2. FirstOf(e, NULL) = FirstOf(s, x) /\ LastOf(e, NULL) = LastOf(t, x)
  BY GlueEnds
<1>3. Len(e) = (Len(s) + Len(t)) + 1
  <2>1. Len(e) = (Len(s) + 1) + Len(t)
    BY GlueNodes
  <2>2. Len(s) \in Nat /\ Len(t) \in Nat
    BY NodesIn
  <2> HIDE DEF e
  <2> QED BY <2>1, <2>2
<1>4. Distinct(e) <=>
          /\ Distinct(s) /\ Distinct(t) /\ x \notin Nodes(s) /\ x \notin Nodes(t)
          /\ Nodes(s) \cap Nodes(t) = {}
  BY GlueDistinct
<1>5. Seg(m, e, NULL, NULL) <=>
          /\ Seg(m, s, NULL, x) /\ m.prev[x] = p /\ m.next[x] = q /\ Seg(m, t, x, NULL)
  BY GlueSeg
<1> HIDE DEF e, p, q
<1>6. Rep(m, l, e, k, d)
  BY DEF e
<1>7. Holds(m, l, e) /\ m.list[l].exists /\ m.live = Nodes(e) \cup Nodes(d) /\ m \in Memory
  BY <1>6 DEF Rep, Has
<1>8. Seg(m, e, NULL, NULL) /\ Distinct(e)
  BY <1>7 DEF Holds
<1>9. m.list[l] = ListOf(e, m.list[l].copy) /\ m.list[l].copy \in BOOLEAN
  BY <1>7, LivesIs
<1>10. Fields(m.list[l], FirstOf(e, NULL), LastOf(e, NULL), Len(e), m.list[l].copy)
  BY <1>9, ListOfFields
<1>11. Fields(m.list[l], FirstOf(s, x), LastOf(t, x), (Len(s) + Len(t)) + 1, m.list[l].copy)
  BY <1>2, <1>3, <1>10
<1>12. /\ s = <<>> <=> p = NULL
       /\ t = <<>> <=> q = NULL
       /\ p \in Nodes(s) \cup {NULL} /\ q \in Nodes(t) \cup {NULL}
  <2>1. s = <<>> => p = NULL
    BY EmptyIs DEF p
  <2>2. t = <<>> => q = NULL
    BY EmptyIs DEF q
  <2>3. s # <<>> => p \in Nodes(s)
    BY EndsAreNodes DEF p
  <2>4. t # <<>> => q \in Nodes(t)
    BY EndsAreNodes DEF q
  <2>5. NULL \notin Nodes(s) /\ NULL \notin Nodes(t)
    BY NodesIn, NullIsNoNode
  <2> QED BY <2>1, <2>2, <2>3, <2>4, <2>5
<1>13. Nodes(s) \subseteq m.live /\ Nodes(t) \subseteq m.live /\ m.live \subseteq Node /\ x \in m.live
  BY <1>1, <1>7, MemoryIs
<1> QED BY <1>4, <1>5, <1>8, <1>9, <1>11, <1>12, <1>13 DEF p, q, Around

(* insert_before links the new node before the position.                   *)
LEMMA InsertBeforeMade ==
  ASSUME NEW m, NEW l, NEW s \in Seq(Node), NEW x \in Node, NEW t \in Seq(Node), NEW k, NEW d,
         Rep(m, l, Glue(s, x, t), k, d), Has(m, l), Free(m) # {}, NEW v \in Value
  PROVE  Inserts(m, insert_before(m, l, x, v), l, s, New(m), <<x>> \o t, v)
<1> DEFINE n == New(m)
           st == m.list[l]
           copies == st.copy
           o == insert_before(m, l, x, v)
           w == new_node(m, v)
           live == m.live \cup {n}
           data == [m.data EXCEPT ![n] = v]
           p == m.prev
           q == m.next
           y == m.prev[x]
           a == s
           b == <<x>> \o t
           prev == Set(Set([p EXCEPT ![n] = NULL], n, y), x, n)
           next == Set(Set([q EXCEPT ![n] = NULL], n, x), y, n)
           nst == [st EXCEPT !.head = IF y = NULL THEN n ELSE @, !.size = @ + 1]
<1>1. /\ m \in Memory /\ l \in Lists
  BY DEF Rep
<1>2. /\ p \in [Node -> Ptr] /\ q \in [Node -> Ptr] /\ m.list \in [Lists -> Structure \cup {NoList}]
  BY <1>1, MemoryIs
<1>3. Fresh(m, n) /\ Made(w, live, data, [p EXCEPT ![n] = NULL], [q EXCEPT ![n] = NULL], m.list)
  BY <1>1, NewNodeIs
<1>4. /\ p[x] = LastOf(s, NULL) /\ q[x] = FirstOf(t, NULL)
      /\ Fields(st, FirstOf(s, x), LastOf(t, x), (Len(s) + Len(t)) + 1, copies)
      /\ s = <<>> <=> LastOf(s, NULL) = NULL
      /\ t = <<>> <=> FirstOf(t, NULL) = NULL
      /\ LastOf(s, NULL) \in Nodes(s) \cup {NULL} /\ FirstOf(t, NULL) \in Nodes(t) \cup {NULL}
      /\ Nodes(s) \subseteq m.live /\ Nodes(t) \subseteq m.live /\ m.live \subseteq Node /\ x \in m.live
      /\ x \notin Nodes(s) /\ x \notin Nodes(t)
  <2>1. Around(m, l, s, x, t)
    BY PosFacts
  <2> QED BY <2>1 DEF Around
<1>5. n # x /\ n \in Node /\ NULL \notin Node /\ x # NULL /\ n # y /\ y # x /\ y \in Ptr
  <2>1. n \in Node /\ n \notin m.live
    BY <1>3 DEF Fresh
  <2>2. y = LastOf(s, NULL)
    BY <1>4
  <2> HIDE DEF n, p, q, y
  <2> QED BY <1>4, <2>1, <2>2, NullIsNoNode DEF Ptr
<1>6. o = [w EXCEPT !.next = Set(Set(@, n, x), y, n), !.prev = Set(Set(@, n, y), x, n),
                    !.list[l].head = IF y = NULL THEN n ELSE @, !.list[l].size = @ + 1]
  BY <1>5 DEF insert_before
<1>7. Made(o, live, data, prev, next, [m.list EXCEPT ![l] = nst])
  <2> HIDE DEF o, w, n, live, data, p, q, y
  <2> QED BY <1>1, <1>2, <1>3, <1>6 DEF Made
<1>8. prev = Between(p, n, y, x, n) /\ next = Between(q, n, x, y, n)
  <2> HIDE DEF n, p, q, y
  <2> QED BY <1>2, <1>5 DEF Between, Set
<1>9. /\ a \in Seq(Node) /\ b \in Seq(Node) /\ Len(a) = Len(s) + 0 /\ Len(b) = Len(t) + 1
      /\ LastOf(a, NULL) = y /\ FirstOf(b, NULL) = x
      /\ \A z : FirstOf(a, z) = FirstOf(s, z) /\ LastOf(b, z) = LastOf(t, x)
  <2> DEFINE u == <<x>>
  <2>1. u \in Seq(Node) /\ Len(u) = 1 /\ \A z : FirstOf(u, z) = x /\ LastOf(u, z) = x
    BY OneIs
  <2>2. u \in Seq(Node)
    BY <2>1
  <2>3. Len(s) \in Nat /\ Len(t) \in Nat /\ Len(s) + 0 = Len(s) /\ Len(t) + 0 = Len(t) /\ Len(u) = 1
    BY <2>1, NodesIn
  <2> HIDE DEF u
  <2>4. \A z : FirstOf(u \o t, z) = FirstOf(u, FirstOf(t, z)) /\ LastOf(u \o t, z) = LastOf(t, LastOf(u, z))
    BY <2>2, EndsConcat
  <2>5. u \o t \in Seq(Node) /\ Len(u \o t) = Len(u) + Len(t)
    BY <2>2, ConcatIs
  <2>6. Len(u \o t) = Len(t) + 1
    BY <2>3, <2>5
  <2>7. \A z : FirstOf(u, z) = x /\ LastOf(u, z) = x
    BY <2>1
  <2>8. a = s /\ b = u \o t
    BY DEF u
  <2> HIDE DEF a, b, n, y, p, q
  <2>9. a \in Seq(Node) /\ b \in Seq(Node)
    BY <2>5, <2>8
  <2>10. Len(a) = Len(s) + 0 /\ Len(b) = Len(t) + 1
    BY <2>3, <2>6, <2>8
  <2>11. LastOf(a, NULL) = y /\ FirstOf(b, NULL) = x
    BY <1>4, <2>4, <2>7, <2>8 DEF y, p, q
  <2>12. \A z : FirstOf(a, z) = FirstOf(s, z) /\ LastOf(b, z) = LastOf(t, x)
    BY <2>4, <2>7, <2>8
  <2> QED BY <2>9, <2>10, <2>11, <2>12
<1>10. Fields(nst, FirstOf(a, n), LastOf(b, n), (Len(a) + Len(b)) + 1, copies)
  <2>1. (Len(a) + Len(b)) + 1 = ((Len(s) + Len(t)) + 1) + 1
    <3>1. Len(s) \in Nat /\ Len(t) \in Nat
      BY NodesIn
    <3> HIDE DEF a, b
    <3> QED BY <1>9, <3>1
  <2>2. nst = [st EXCEPT !.head = FirstOf(s, n), !.size = ((Len(s) + Len(t)) + 1) + 1]
    <3>1. IF y = NULL THEN n = FirstOf(s, n) ELSE st.head = FirstOf(s, n)
      <4>1. s = <<>> => FirstOf(s, n) = n
        BY EmptyIs
      <4>2. s # <<>> => FirstOf(s, n) = FirstOf(s, x)
        BY EndsSame
      <4>3. st.head = FirstOf(s, x)
        BY <1>4 DEF Fields
      <4> HIDE DEF n, st
      <4> QED BY <1>4, <4>1, <4>2, <4>3
    <3>2. st.size = (Len(s) + Len(t)) + 1
      BY <1>4 DEF Fields
    <3> HIDE DEF st, n, y
    <3> QED BY <3>1, <3>2
  <2> HIDE DEF st, n, nst, copies, a, b
  <2>3. Fields(nst, FirstOf(s, n), LastOf(t, x), ((Len(s) + Len(t)) + 1) + 1, copies)
    BY <1>4, <2>2 DEF Fields
  <2>4. FirstOf(a, n) = FirstOf(s, n) /\ LastOf(b, n) = LastOf(t, x)
    BY <1>9
  <2> QED BY <2>1, <2>3, <2>4
<1> HIDE DEF n, st, copies, o, w, live, data, p, q, a, b, prev, next, nst, y
<1>11. /\ prev = Between(p, n, LastOf(a, NULL), FirstOf(b, NULL), n)
       /\ next = Between(q, n, FirstOf(b, NULL), LastOf(a, NULL), n)
  BY <1>8, <1>9
<1>12. a \in Seq(Node) /\ b \in Seq(Node)
  BY <1>9
<1>13. Inserts(m, o, l, a, n, b, v)
  BY <1>3, <1>7, <1>10, <1>11, <1>12, InsertMade DEF live, data, p, q, copies, st
<1> QED BY <1>13 DEF o, n, a, b

(* insert_after links it after the position.                               *)
LEMMA InsertAfterMade ==
  ASSUME NEW m, NEW l, NEW s \in Seq(Node), NEW x \in Node, NEW t \in Seq(Node), NEW k, NEW d,
         Rep(m, l, Glue(s, x, t), k, d), Has(m, l), Free(m) # {}, NEW v \in Value
  PROVE  Inserts(m, insert_after(m, l, x, v), l, s \o <<x>>, New(m), t, v)
<1> DEFINE n == New(m)
           st == m.list[l]
           copies == st.copy
           o == insert_after(m, l, x, v)
           w == new_node(m, v)
           live == m.live \cup {n}
           data == [m.data EXCEPT ![n] = v]
           p == m.prev
           q == m.next
           y == m.next[x]
           a == s \o <<x>>
           b == t
           prev == Set(Set([p EXCEPT ![n] = NULL], n, x), y, n)
           next == Set(Set([q EXCEPT ![n] = NULL], n, y), x, n)
           nst == [st EXCEPT !.tail = IF y = NULL THEN n ELSE @, !.size = @ + 1]
<1>1. /\ m \in Memory /\ l \in Lists
  BY DEF Rep
<1>2. /\ p \in [Node -> Ptr] /\ q \in [Node -> Ptr] /\ m.list \in [Lists -> Structure \cup {NoList}]
  BY <1>1, MemoryIs
<1>3. Fresh(m, n) /\ Made(w, live, data, [p EXCEPT ![n] = NULL], [q EXCEPT ![n] = NULL], m.list)
  BY <1>1, NewNodeIs
<1>4. /\ p[x] = LastOf(s, NULL) /\ q[x] = FirstOf(t, NULL)
      /\ Fields(st, FirstOf(s, x), LastOf(t, x), (Len(s) + Len(t)) + 1, copies)
      /\ s = <<>> <=> LastOf(s, NULL) = NULL
      /\ t = <<>> <=> FirstOf(t, NULL) = NULL
      /\ LastOf(s, NULL) \in Nodes(s) \cup {NULL} /\ FirstOf(t, NULL) \in Nodes(t) \cup {NULL}
      /\ Nodes(s) \subseteq m.live /\ Nodes(t) \subseteq m.live /\ m.live \subseteq Node /\ x \in m.live
      /\ x \notin Nodes(s) /\ x \notin Nodes(t)
  <2>1. Around(m, l, s, x, t)
    BY PosFacts
  <2> QED BY <2>1 DEF Around
<1>5. n # x /\ n \in Node /\ NULL \notin Node /\ x # NULL /\ n # y /\ y # x /\ y \in Ptr
  <2>1. n \in Node /\ n \notin m.live
    BY <1>3 DEF Fresh
  <2>2. y = FirstOf(t, NULL)
    BY <1>4
  <2> HIDE DEF n, p, q, y
  <2> QED BY <1>4, <2>1, <2>2, NullIsNoNode DEF Ptr
<1>6. o = [w EXCEPT !.next = Set(Set(@, n, y), x, n), !.prev = Set(Set(@, n, x), y, n),
                    !.list[l].tail = IF y = NULL THEN n ELSE @, !.list[l].size = @ + 1]
  BY <1>5 DEF insert_after
<1>7. Made(o, live, data, prev, next, [m.list EXCEPT ![l] = nst])
  <2> HIDE DEF o, w, n, live, data, p, q, y
  <2> QED BY <1>1, <1>2, <1>3, <1>6 DEF Made
<1>8. prev = Between(p, n, x, y, n) /\ next = Between(q, n, y, x, n)
  <2> HIDE DEF n, p, q, y
  <2> QED BY <1>2, <1>5 DEF Between, Set
<1>9. /\ a \in Seq(Node) /\ b \in Seq(Node) /\ Len(a) = Len(s) + 1 /\ Len(b) = Len(t) + 0
      /\ LastOf(a, NULL) = x /\ FirstOf(b, NULL) = y
      /\ \A z : FirstOf(a, z) = FirstOf(s, x) /\ LastOf(b, z) = LastOf(t, z)
  <2> DEFINE u == <<x>>
  <2>1. u \in Seq(Node) /\ Len(u) = 1 /\ \A z : FirstOf(u, z) = x /\ LastOf(u, z) = x
    BY OneIs
  <2>2. u \in Seq(Node)
    BY <2>1
  <2>3. Len(s) \in Nat /\ Len(t) \in Nat /\ Len(s) + 0 = Len(s) /\ Len(t) + 0 = Len(t) /\ Len(u) = 1
    BY <2>1, NodesIn
  <2> HIDE DEF u
  <2>4. \A z : FirstOf(s \o u, z) = FirstOf(s, FirstOf(u, z)) /\ LastOf(s \o u, z) = LastOf(u, LastOf(s, z))
    BY <2>2, EndsConcat
  <2>5. s \o u \in Seq(Node) /\ Len(s \o u) = Len(s) + Len(u)
    BY <2>2, ConcatIs
  <2>6. Len(s \o u) = Len(s) + 1
    BY <2>3, <2>5
  <2>7. \A z : FirstOf(u, z) = x /\ LastOf(u, z) = x
    BY <2>1
  <2>8. a = s \o u /\ b = t
    BY DEF u
  <2> HIDE DEF a, b, n, y, p, q
  <2>9. a \in Seq(Node) /\ b \in Seq(Node)
    BY <2>5, <2>8
  <2>10. Len(a) = Len(s) + 1 /\ Len(b) = Len(t) + 0
    BY <2>3, <2>6, <2>8
  <2>11. LastOf(a, NULL) = x /\ FirstOf(b, NULL) = y
    BY <1>4, <2>4, <2>7, <2>8 DEF y, p, q
  <2>12. \A z : FirstOf(a, z) = FirstOf(s, x) /\ LastOf(b, z) = LastOf(t, z)
    BY <2>4, <2>7, <2>8
  <2> QED BY <2>9, <2>10, <2>11, <2>12
<1>10. Fields(nst, FirstOf(a, n), LastOf(b, n), (Len(a) + Len(b)) + 1, copies)
  <2>1. (Len(a) + Len(b)) + 1 = ((Len(s) + Len(t)) + 1) + 1
    <3>1. Len(s) \in Nat /\ Len(t) \in Nat
      BY NodesIn
    <3> HIDE DEF a, b
    <3> QED BY <1>9, <3>1
  <2>2. nst = [st EXCEPT !.tail = LastOf(t, n), !.size = ((Len(s) + Len(t)) + 1) + 1]
    <3>1. IF y = NULL THEN n = LastOf(t, n) ELSE st.tail = LastOf(t, n)
      <4>1. t = <<>> => LastOf(t, n) = n
        BY EmptyIs
      <4>2. t # <<>> => LastOf(t, n) = LastOf(t, x)
        BY EndsSame
      <4>3. st.tail = LastOf(t, x)
        BY <1>4 DEF Fields
      <4> HIDE DEF n, st
      <4> QED BY <1>4, <4>1, <4>2, <4>3
    <3>2. st.size = (Len(s) + Len(t)) + 1
      BY <1>4 DEF Fields
    <3> HIDE DEF st, n, y
    <3> QED BY <3>1, <3>2
  <2> HIDE DEF st, n, nst, copies, a, b
  <2>3. Fields(nst, FirstOf(s, x), LastOf(t, n), ((Len(s) + Len(t)) + 1) + 1, copies)
    BY <1>4, <2>2 DEF Fields
  <2>4. FirstOf(a, n) = FirstOf(s, x) /\ LastOf(b, n) = LastOf(t, n)
    BY <1>9
  <2> QED BY <2>1, <2>3, <2>4
<1> HIDE DEF n, st, copies, o, w, live, data, p, q, a, b, prev, next, nst, y
<1>11. /\ prev = Between(p, n, LastOf(a, NULL), FirstOf(b, NULL), n)
       /\ next = Between(q, n, FirstOf(b, NULL), LastOf(a, NULL), n)
  BY <1>8, <1>9
<1>12. a \in Seq(Node) /\ b \in Seq(Node)
  BY <1>9
<1>13. Inserts(m, o, l, a, n, b, v)
  BY <1>3, <1>7, <1>10, <1>11, <1>12, InsertMade DEF live, data, p, q, copies, st
<1> QED BY <1>13 DEF o, n, a, b

(* A node x of the list, unlinked and freed.                               *)
Removes(m, o, l, s, x, t) ==
    Made(o, m.live \ {x}, [n \in Node |-> IF n = x THEN NULL ELSE m.data[n]],
         Between(m.prev, x, NULL, FirstOf(t, NULL), LastOf(s, NULL)),
         Between(m.next, x, NULL, LastOf(s, NULL), FirstOf(t, NULL)),
         Relisted(m, l, ListOf(s \o t, m.list[l].copy)))

(* After the links of a removal the memory is that of the shorter list.    *)
LEMMA Unlinked ==
  ASSUME NEW m, NEW l, NEW s \in Seq(Node), NEW x \in Node, NEW t \in Seq(Node), NEW k, NEW d,
         Rep(m, l, Glue(s, x, t), k, d), Has(m, l), NEW o, Removes(m, o, l, s, x, t)
  PROVE  Rep(o, l, s \o t, k, d) /\ Keeps(m, o, l, k)
<1> DEFINE e == s \o t
           g == Glue(s, x, t)
           p == LastOf(s, NULL)
           q == FirstOf(t, NULL)
           data == [n \in Node |-> IF n = x THEN NULL ELSE m.data[n]]
           prev == Between(m.prev, x, NULL, q, p)
           next == Between(m.next, x, NULL, p, q)
<1>1. /\ m \in Memory /\ l \in Lists /\ k \in Lists /\ l # k /\ d \in Seq(Node)
      /\ Holds(m, l, g) /\ Holds(m, k, d)
      /\ Nodes(g) \cap Nodes(d) = {} /\ m.live = Nodes(g) \cup Nodes(d)
  BY DEF Rep
<1>2. /\ m.data \in [Node -> Cell] /\ m.prev \in [Node -> Ptr] /\ m.next \in [Node -> Ptr]
  BY <1>1, MemoryIs
<1>3. /\ p \in Nodes(s) \cup {NULL} /\ q \in Nodes(t) \cup {NULL}
      /\ Nodes(s) \subseteq Node /\ Nodes(t) \subseteq Node
      /\ Distinct(s) /\ Distinct(t) /\ Nodes(s) \cap Nodes(t) = {}
      /\ x \notin Nodes(s) /\ x \notin Nodes(t)
      /\ Seg(m, s, NULL, x) /\ Seg(m, t, x, NULL) /\ m.list[l].copy \in BOOLEAN
  <2>1. Around(m, l, s, x, t)
    BY PosFacts
  <2> HIDE DEF p, q
  <2> QED BY <2>1 DEF Around, p, q
<1>4. Nodes(g) = Nodes(s) \cup {x} \cup Nodes(t) /\ Nodes(e) = Nodes(s) \cup Nodes(t)
  <2>1. Nodes(g) = Nodes(s) \cup {x} \cup Nodes(t)
    BY GlueNodes
  <2>2. Nodes(e) = Nodes(s) \cup Nodes(t)
    BY NodesConcat
  <2> QED BY <2>1, <2>2
<1>5. e \in Seq(Node)
  BY ConcatIs
<1>6. Distinct(e)
  BY <1>3, DistinctConcat
<1>7. /\ p \in Ptr /\ q \in Ptr /\ NULL \notin Node /\ NULL \in Ptr
      /\ Nodes(d) \subseteq Node
  <2>1. Nodes(d) \subseteq Node
    BY <1>1, NodesIn
  <2> HIDE DEF p, q
  <2> QED BY <1>3, <2>1, NullIsNoNode DEF Ptr
<1>8. data \in [Node -> Cell] /\ prev \in [Node -> Ptr] /\ next \in [Node -> Ptr]
  <2>1. data \in [Node -> Cell]
    BY <1>2 DEF Cell
  <2>2. prev \in [Node -> Ptr] /\ next \in [Node -> Ptr]
    <3> HIDE DEF p, q
    <3> QED BY <1>2, <1>7 DEF Between
  <2> QED BY <2>1, <2>2
<1>9. /\ \A z \in Node : z # x => data[z] = m.data[z]
      /\ \A z \in Node : z # x => prev[z] = IF z = q THEN p ELSE m.prev[z]
      /\ \A z \in Node : z # x => next[z] = IF z = p THEN q ELSE m.next[z]
  <2> HIDE DEF p, q
  <2> QED BY <1>2 DEF Between
<1>10. Made(o, m.live \ {x}, data, prev, next, Relisted(m, l, ListOf(e, m.list[l].copy)))
  BY DEF Removes
<1> HIDE DEF data, prev, next, p, q, e, g
<1>11. /\ o.data = data /\ o.prev = prev /\ o.next = next
  BY <1>10, MadeIs
<1>12. Seg(o, s, NULL, q)
  <2>1. \A z \in Nodes(s) : /\ o.next[z] = IF z = LastOf(s, NULL) THEN q ELSE m.next[z]
                            /\ o.prev[z] = IF z = FirstOf(s, x) THEN NULL ELSE m.prev[z]
    <3> SUFFICES ASSUME NEW z \in Nodes(s)
                 PROVE  /\ o.next[z] = IF z = LastOf(s, NULL) THEN q ELSE m.next[z]
                        /\ o.prev[z] = IF z = FirstOf(s, x) THEN NULL ELSE m.prev[z]
      OBVIOUS
    <3>1. z \in Node /\ z # x /\ z # q
      BY <1>3, <1>7
    <3>2. o.next[z] = IF z = p THEN q ELSE m.next[z]
      BY <1>9, <1>11, <3>1
    <3>3. o.prev[z] = m.prev[z]
      BY <1>9, <1>11, <3>1
    <3>4. z = FirstOf(s, x) => m.prev[z] = NULL
      <4>1. Len(s) # 0 /\ 1 \in 1..Len(s)
        <5>1. s # <<>>
          BY EmptyIs
        <5> QED BY <5>1, NodesIn
      <4> QED BY <1>3, <4>1 DEF Seg, FirstOf
    <3> QED BY <3>2, <3>3, <3>4 DEF p
  <2> QED BY <1>3, <2>1, SegRelink
<1>13. Seg(o, t, p, NULL)
  <2>1. \A z \in Nodes(t) : /\ o.next[z] = IF z = LastOf(t, x) THEN NULL ELSE m.next[z]
                            /\ o.prev[z] = IF z = FirstOf(t, NULL) THEN p ELSE m.prev[z]
    <3> SUFFICES ASSUME NEW z \in Nodes(t)
                 PROVE  /\ o.next[z] = IF z = LastOf(t, x) THEN NULL ELSE m.next[z]
                        /\ o.prev[z] = IF z = FirstOf(t, NULL) THEN p ELSE m.prev[z]
      OBVIOUS
    <3>1. z \in Node /\ z # x /\ z # p
      BY <1>3, <1>7
    <3>2. o.next[z] = m.next[z]
      BY <1>9, <1>11, <3>1
    <3>3. o.prev[z] = IF z = q THEN p ELSE m.prev[z]
      BY <1>9, <1>11, <3>1
    <3>4. z = LastOf(t, x) => m.next[z] = NULL
      <4>1. Len(t) # 0 /\ Len(t) \in 1..Len(t)
        <5>1. t # <<>>
          BY EmptyIs
        <5> QED BY <5>1, NodesIn
      <4> QED BY <1>3, <4>1 DEF Seg, LastOf
    <3> QED BY <3>2, <3>3, <3>4 DEF q
  <2> QED BY <1>3, <2>1, SegRelink
<1>14. Seg(o, e, NULL, NULL)
  <2>1. Seg(o, e, NULL, NULL) <=> Seg(o, s, NULL, q) /\ Seg(o, t, p, NULL)
    BY SegConcat DEF e, p, q
  <2> QED BY <1>12, <1>13, <2>1
<1>15. Nodes(e) \cap Nodes(d) = {} /\ m.live \ {x} = Nodes(e) \cup Nodes(d)
  BY <1>1, <1>3, <1>4
<1>16. \A z \in Nodes(e) : z \in Node /\ z # x /\ m.data[z] \in Value
  <2>1. \A z \in Nodes(g) : m.data[z] \in Value
    BY <1>1 DEF Holds
  <2> QED BY <1>3, <1>4, <2>1
<1>17. \A z \in Nodes(e) : data[z] \in Value
  BY <1>9, <1>16
<1>18. \A z \in Nodes(d) : data[z] = m.data[z] /\ prev[z] = m.prev[z] /\ next[z] = m.next[z]
  <2> SUFFICES ASSUME NEW z \in Nodes(d)
               PROVE  data[z] = m.data[z] /\ prev[z] = m.prev[z] /\ next[z] = m.next[z]
    OBVIOUS
  <2>1. z \in Node /\ z # x /\ z # p /\ z # q
    BY <1>1, <1>3, <1>4, <1>7
  <2> QED BY <1>9, <2>1
<1>19. \A z \in Nodes(e) \cap m.live : data[z] = m.data[z]
  BY <1>9, <1>16
<1>20. Made(o, Nodes(e) \cup Nodes(d), data, prev, next, Relist(m, l, e))
  BY <1>10, <1>15 DEF Relist
<1>21. Rep(m, l, g, k, d)
  BY DEF g
<1>21a. Tells(m, l)
  BY <1>3 DEF Tells
<1>22. Rep(o, l, e, k, d) /\ Keeps(m, o, l, k)
  BY <1>5, <1>6, <1>8, <1>14, <1>15, <1>17, <1>18, <1>19, <1>20, <1>21, <1>21a, Rebuilt
<1> QED BY <1>22 DEF e

(* The fields after free.                                                  *)
LEMMA ReleasedIs ==
  ASSUME NEW u, NEW S, NEW live, NEW data, NEW prev, NEW next, NEW list,
         Made(u, live, data, prev, next, list)
  PROVE  Made(Released(u, S), live \ S, [n \in Node |-> IF n \in S THEN NULL ELSE data[n]],
              [n \in Node |-> IF n \in S THEN NULL ELSE prev[n]],
              [n \in Node |-> IF n \in S THEN NULL ELSE next[n]], list)
<1> DEFINE d1 == [n \in Node |-> IF n \in S THEN NULL ELSE data[n]]
           p1 == [n \in Node |-> IF n \in S THEN NULL ELSE prev[n]]
           n1 == [n \in Node |-> IF n \in S THEN NULL ELSE next[n]]
           o == Released(u, S)
<1>1. u.live = live /\ u.data = data /\ u.prev = prev /\ u.next = next /\ u.list = list
  BY MadeIs
<1>2. o = [u EXCEPT !.live = live \ S, !.data = d1, !.prev = p1, !.next = n1]
  BY <1>1 DEF Released
<1>3. u = [live |-> u.live, data |-> u.data, prev |-> u.prev, next |-> u.next, list |-> u.list]
  BY <1>1 DEF Made
<1> HIDE DEF o, d1, p1, n1
<1>4. o = [live |-> live \ S, data |-> d1, prev |-> p1, next |-> n1, list |-> u.list]
  BY <1>2, <1>3
<1> QED BY <1>1, <1>4 DEF Made, o, d1, p1, n1

(* The pointers of all nodes but x, when x is unlinked.                    *)
Skips(m, prev, next, s, x, t) ==
    \A z \in Node : z # x =>
        /\ prev[z] = IF z = FirstOf(t, NULL) THEN LastOf(s, NULL) ELSE m.prev[z]
        /\ next[z] = IF z = LastOf(s, NULL) THEN FirstOf(t, NULL) ELSE m.next[z]

(* What is left to show of each operation that removes.                    *)
LEMMA RemoveMade ==
  ASSUME NEW m \in Memory, NEW l \in Lists, NEW s \in Seq(Node), NEW x \in Node, NEW t \in Seq(Node),
         NEW u, NEW st, NEW prev, NEW next,
         Made(u, m.live, m.data, prev, next, [m.list EXCEPT ![l] = st]),
         Fields(st, FirstOf(s, FirstOf(t, NULL)), LastOf(t, LastOf(s, NULL)), (Len(s) + Len(t)) + 1, m.list[l].copy),
         Skips(m, prev, next, s, x, t)
  PROVE  Removes(m, Released(Shrunk(u, l), {x}), l, s, x, t)
<1> DEFINE w == Shrunk(u, l)
           list == [m.list EXCEPT ![l] = st]
           st1 == [st EXCEPT !.size = Len(s) + Len(t)]
           list1 == [m.list EXCEPT ![l] = st1]
           e == s \o t
           o == Released(w, {x})
<1>1. m.list \in [Lists -> Structure \cup {NoList}]
  BY MemoryIs
<1>2. u.live = m.live /\ u.data = m.data /\ u.prev = prev /\ u.next = next /\ u.list = list
  BY MadeIs
<1>3. Len(s) \in Nat /\ Len(t) \in Nat /\ ((Len(s) + Len(t)) + 1) - 1 = Len(s) + Len(t)
  <2>1. Len(s) \in Nat /\ Len(t) \in Nat
    BY NodesIn
  <2> QED BY <2>1
<1>4. [list EXCEPT ![l].size = @ - 1] = list1
  <2>1. list[l] = st /\ st.size = (Len(s) + Len(t)) + 1
    BY <1>1 DEF Fields
  <2>2. [list EXCEPT ![l].size = @ - 1] = [list EXCEPT ![l] = [st EXCEPT !.size = ((Len(s) + Len(t)) + 1) - 1]]
    <3> HIDE DEF list
    <3> QED BY <2>1
  <2> HIDE DEF st1
  <2>3. [list EXCEPT ![l] = st1] = list1
    BY <1>1
  <2>4. [st EXCEPT !.size = ((Len(s) + Len(t)) + 1) - 1] = st1
    BY <1>3 DEF st1
  <2> HIDE DEF list, list1
  <2> QED BY <2>2, <2>3, <2>4
<1>5. Made(w, m.live, m.data, prev, next, list1)
  <2>1. w = [u EXCEPT !.list = [list EXCEPT ![l].size = @ - 1]]
    BY <1>2 DEF Shrunk
  <2>2. w = [u EXCEPT !.list = list1]
    BY <1>4, <2>1
  <2>3. u = [live |-> u.live, data |-> u.data, prev |-> u.prev, next |-> u.next, list |-> u.list]
    BY <1>2 DEF Made
  <2> HIDE DEF w, list, list1
  <2>4. w = [live |-> u.live, data |-> u.data, prev |-> u.prev, next |-> u.next, list |-> list1]
    BY <2>2, <2>3
  <2> QED BY <1>2, <2>4 DEF Made
<1>6. st1 = ListOf(e, m.list[l].copy)
  <2>1. Fields(st1, FirstOf(s, FirstOf(t, NULL)), LastOf(t, LastOf(s, NULL)), Len(s) + Len(t), m.list[l].copy)
    <3>1. st1 = [st EXCEPT !.size = Len(s) + Len(t)]
      OBVIOUS
    <3> HIDE DEF st1
    <3> QED BY <3>1 DEF Fields
  <2>2. FirstOf(e, NULL) = FirstOf(s, FirstOf(t, NULL)) /\ LastOf(e, NULL) = LastOf(t, LastOf(s, NULL))
    BY EndsConcat
  <2>3. Len(e) = Len(s) + Len(t)
    BY ConcatIs
  <2> HIDE DEF st1, e
  <2>4. Fields(st1, FirstOf(e, NULL), LastOf(e, NULL), Len(e), m.list[l].copy)
    BY <2>1, <2>2, <2>3
  <2> QED BY <2>4, ListOfFields
<1> HIDE DEF w, st1, e
<1> DEFINE d1 == [n \in Node |-> IF n \in {x} THEN NULL ELSE m.data[n]]
           p1 == [n \in Node |-> IF n \in {x} THEN NULL ELSE prev[n]]
           n1 == [n \in Node |-> IF n \in {x} THEN NULL ELSE next[n]]
<1>7. Made(o, m.live \ {x}, d1, p1, n1, list1)
  <2> HIDE DEF list1
  <2> QED BY <1>5, ReleasedIs
<1>8. /\ d1 = [n \in Node |-> IF n = x THEN NULL ELSE m.data[n]]
      /\ p1 = Between(m.prev, x, NULL, FirstOf(t, NULL), LastOf(s, NULL))
      /\ n1 = Between(m.next, x, NULL, LastOf(s, NULL), FirstOf(t, NULL))
  BY DEF Between, Skips
<1>9. list1 = Relisted(m, l, ListOf(s \o t, m.list[l].copy))
  BY <1>6 DEF Relisted, e
<1> HIDE DEF o, d1, p1, n1, list1
<1> QED BY <1>7, <1>8, <1>9 DEF Removes, o, w
-----------------------------------------------------------------------------
(* dlist_node_is_in answers whether the node is one of the list.           *)
LEMMA IsInIs ==
  ASSUME NEW m, NEW l, NEW c, NEW k, NEW d, Rep(m, l, c, k, d), Has(m, l), NEW x
  PROVE  IsIn(m, l, x) <=> x \in Nodes(c)
<1>1. c \in Seq(Node) /\ Holds(m, l, c) /\ m.list[l].exists
  BY DEF Rep, Has
<1>2. Chain(m, l) = c /\ ToSet(c) = Nodes(c)
  BY <1>1, ChainIs, ToSetIs
<1> QED BY <1>2 DEF IsIn

(* extract takes the node out of the list.                                 *)
LEMMA ExtractMade ==
  ASSUME NEW m, NEW l, NEW s \in Seq(Node), NEW x \in Node, NEW t \in Seq(Node), NEW k, NEW d,
         Rep(m, l, Glue(s, x, t), k, d), Has(m, l)
  PROVE  Removes(m, extract(m, l, x), l, s, x, t)
<1> DEFINE a == s
           b == t
           st == m.list[l]
           copies == st.copy
           p == m.prev[x]
           q == m.next[x]
<1>1. m \in Memory /\ l \in Lists
  BY DEF Rep
<1>2. /\ m.prev \in [Node -> Ptr] /\ m.next \in [Node -> Ptr] /\ m.list \in [Lists -> Structure \cup {NoList}]
  BY <1>1, MemoryIs
<1>3. a \in Seq(Node) /\ b \in Seq(Node)
  BY EmptyIs
<1>4. Around(m, l, a, x, b)
  <2> HIDE DEF a, b
  <2>1. Rep(m, l, Glue(a, x, b), k, d)
    BY DEF a, b
  <2> QED BY <1>3, <2>1, PosFacts
<1>5. /\ p = LastOf(a, NULL) /\ q = FirstOf(b, NULL)
      /\ Fields(st, FirstOf(a, x), LastOf(b, x), (Len(a) + Len(b)) + 1, copies)
      /\ (a = <<>> <=> p = NULL)
      /\ (b = <<>> <=> q = NULL)
      /\ p \in Nodes(a) \cup {NULL} /\ q \in Nodes(b) \cup {NULL}
      /\ Nodes(a) \subseteq m.live /\ Nodes(b) \subseteq m.live /\ m.live \subseteq Node /\ x \in m.live
      /\ x \notin Nodes(a) /\ x \notin Nodes(b)
  <2> HIDE DEF a, b
  <2> QED BY <1>4 DEF Around
<1>6. NULL \notin Node /\ x # NULL /\ p # x /\ q # x /\ p \in Ptr /\ q \in Ptr
  <2> HIDE DEF a, b, p, q
  <2> QED BY <1>5, NullIsNoNode DEF Ptr
<1>7. (a # <<>> => \A z : FirstOf(a, z) = FirstOf(a, x)) /\ (b # <<>> => \A z : LastOf(b, z) = LastOf(b, x))
  <2> HIDE DEF a, b
  <2> QED BY <1>3, EndsSame
<1>8. (a = <<>> => \A z : FirstOf(a, z) = z /\ LastOf(a, z) = z) /\ (b = <<>> => \A z : LastOf(b, z) = z /\ FirstOf(b, z) = z)
  BY EmptyIs
<1> DEFINE st1 == [st EXCEPT !.head = IF p = NULL THEN q ELSE @, !.tail = IF q = NULL THEN p ELSE @]
           u == [m EXCEPT !.next = Set(@, p, q), !.prev = Set(@, q, p), !.list[l].head = IF p = NULL THEN q ELSE @, !.list[l].tail = IF q = NULL THEN p ELSE @]
           prev == Set(m.prev, q, p)
           next == Set(m.next, p, q)
<1>9. extract(m, l, x) = Released(Shrunk(u, l), {x})
  <2>1. x \in Nodes(Glue(s, x, t))
    BY GlueNodes
  <2>2. IsIn(m, l, x)
    BY <2>1, IsInIs
  <2> QED BY <2>2 DEF extract
<1>10. Made(u, m.live, m.data, prev, next, [m.list EXCEPT ![l] = st1])
  <2>1. Made(m, m.live, m.data, m.prev, m.next, m.list)
    BY <1>1, MemoryMade
  <2>2. u = [m EXCEPT !.next = Set(m.next, p, q), !.prev = Set(m.prev, q, p), !.list = [m.list EXCEPT ![l] = st1]]
    BY <1>1, <1>2
  <2> HIDE DEF u, prev, next, st1, p, q
  <2> QED BY <2>1, <2>2 DEF Made, prev, next
<1>11. Fields(st1, FirstOf(a, FirstOf(b, NULL)), LastOf(b, LastOf(a, NULL)), (Len(a) + Len(b)) + 1, copies)
  <2>1. st1 = [st EXCEPT !.head = FirstOf(a, FirstOf(b, NULL)), !.tail = LastOf(b, LastOf(a, NULL))]
    <3>1. (IF p = NULL THEN q ELSE st.head) = FirstOf(a, FirstOf(b, NULL))
      <4> HIDE DEF a, b, p, q, st
      <4> QED BY <1>5, <1>7, <1>8 DEF Fields
    <3>2. (IF q = NULL THEN p ELSE st.tail) = LastOf(b, LastOf(a, NULL))
      <4> HIDE DEF a, b, p, q, st
      <4> QED BY <1>5, <1>7, <1>8 DEF Fields
    <3> HIDE DEF a, b, p, q, st
    <3> QED BY <3>1, <3>2
  <2> HIDE DEF a, b, p, q, st, st1
  <2> QED BY <1>5, <2>1 DEF Fields
<1>12. \A z \in Node : z # x => prev[z] = IF z = FirstOf(b, NULL) THEN LastOf(a, NULL) ELSE m.prev[z]
  <2> HIDE DEF a, b, p, q
  <2> QED BY <1>2, <1>5, <1>6 DEF Set
<1>13. \A z \in Node : z # x => next[z] = IF z = LastOf(a, NULL) THEN FirstOf(b, NULL) ELSE m.next[z]
  <2> HIDE DEF a, b, p, q
  <2> QED BY <1>2, <1>5, <1>6 DEF Set
<1>12a. Skips(m, prev, next, a, x, b)
  <2> HIDE DEF a, b, prev, next
  <2> QED BY <1>12, <1>13 DEF Skips
<1> DEFINE o == Released(Shrunk(u, l), {x})
<1> HIDE DEF a, b, st1, u, prev, next
<1>14. Removes(m, o, l, a, x, b)
  BY <1>1, <1>3, <1>10, <1>11, <1>12a, RemoveMade DEF copies, st
<1> HIDE DEF o
<1> QED BY <1>9, <1>14 DEF a, b, o

(* pop_front takes the first out.                                          *)
LEMMA PopFrontMade ==
  ASSUME NEW m, NEW l, NEW x \in Node, NEW t \in Seq(Node), NEW k, NEW d,
         Rep(m, l, Glue(<<>>, x, t), k, d), Has(m, l)
  PROVE  Removes(m, pop_front(m, l), l, <<>>, x, t)
<1> DEFINE a == <<>>
           b == t
           st == m.list[l]
           copies == st.copy
           p == m.prev[x]
           q == m.next[x]
<1>1. m \in Memory /\ l \in Lists
  BY DEF Rep
<1>2. /\ m.prev \in [Node -> Ptr] /\ m.next \in [Node -> Ptr] /\ m.list \in [Lists -> Structure \cup {NoList}]
  BY <1>1, MemoryIs
<1>3. a \in Seq(Node) /\ b \in Seq(Node)
  BY EmptyIs
<1>4. Around(m, l, a, x, b)
  <2> HIDE DEF a, b
  <2>1. Rep(m, l, Glue(a, x, b), k, d)
    BY DEF a, b
  <2> QED BY <1>3, <2>1, PosFacts
<1>5. /\ p = LastOf(a, NULL) /\ q = FirstOf(b, NULL)
      /\ Fields(st, FirstOf(a, x), LastOf(b, x), (Len(a) + Len(b)) + 1, copies)
      /\ (a = <<>> <=> p = NULL)
      /\ (b = <<>> <=> q = NULL)
      /\ p \in Nodes(a) \cup {NULL} /\ q \in Nodes(b) \cup {NULL}
      /\ Nodes(a) \subseteq m.live /\ Nodes(b) \subseteq m.live /\ m.live \subseteq Node /\ x \in m.live
      /\ x \notin Nodes(a) /\ x \notin Nodes(b)
  <2> HIDE DEF a, b
  <2> QED BY <1>4 DEF Around
<1>6. NULL \notin Node /\ x # NULL /\ p # x /\ q # x /\ p \in Ptr /\ q \in Ptr
  <2> HIDE DEF a, b, p, q
  <2> QED BY <1>5, NullIsNoNode DEF Ptr
<1>7. (a # <<>> => \A z : FirstOf(a, z) = FirstOf(a, x)) /\ (b # <<>> => \A z : LastOf(b, z) = LastOf(b, x))
  <2> HIDE DEF a, b
  <2> QED BY <1>3, EndsSame
<1>8. (a = <<>> => \A z : FirstOf(a, z) = z /\ LastOf(a, z) = z) /\ (b = <<>> => \A z : LastOf(b, z) = z /\ FirstOf(b, z) = z)
  BY EmptyIs
<1> DEFINE st1 == IF q # NULL THEN [st EXCEPT !.head = q] ELSE [st EXCEPT !.head = NULL, !.tail = NULL]
           u == IF q # NULL THEN [m EXCEPT !.prev[q] = NULL, !.list[l].head = q] ELSE [m EXCEPT !.list[l].head = NULL, !.list[l].tail = NULL]
           prev == IF q # NULL THEN [m.prev EXCEPT ![q] = NULL] ELSE m.prev
           next == m.next
<1>9. pop_front(m, l) = Released(Shrunk(u, l), {x})
  <2>1. st.head = x
    BY <1>5, <1>8 DEF Fields
  <2> QED BY <1>6, <2>1 DEF pop_front
<1>10. Made(u, m.live, m.data, prev, next, [m.list EXCEPT ![l] = st1])
  <2>1. Made(m, m.live, m.data, m.prev, m.next, m.list)
    BY <1>1, MemoryMade
  <2>2. CASE q # NULL
    <3>1. u = [m EXCEPT !.prev[q] = NULL, !.list[l].head = q]
      BY <2>2
    <3>2. [m.list EXCEPT ![l].head = q] = [m.list EXCEPT ![l] = st1]
      BY <1>1, <1>2, <2>2
    <3>3. u = [m EXCEPT !.prev = [@ EXCEPT ![q] = NULL], !.list = [m.list EXCEPT ![l] = st1]]
      BY <3>1, <3>2
    <3>4. prev = [m.prev EXCEPT ![q] = NULL] /\ next = m.next
      BY <2>2
    <3> HIDE DEF u, prev, next, st1, p, q
    <3> QED BY <2>1, <3>3, <3>4 DEF Made
  <2>3. CASE q = NULL
    <3>1. u = [m EXCEPT !.list[l].head = NULL, !.list[l].tail = NULL]
      BY <2>3
    <3>2. [m.list EXCEPT ![l].head = NULL, ![l].tail = NULL] = [m.list EXCEPT ![l] = st1]
      BY <1>1, <1>2, <2>3
    <3>3. u = [m EXCEPT !.list = [m.list EXCEPT ![l] = st1]]
      BY <3>1, <3>2
    <3>4. prev = m.prev /\ next = m.next
      BY <2>3
    <3> HIDE DEF u, prev, next, st1, p, q
    <3> QED BY <2>1, <3>3, <3>4 DEF Made
  <2> HIDE DEF p, q
  <2> QED BY <2>2, <2>3
<1>11. Fields(st1, FirstOf(a, FirstOf(b, NULL)), LastOf(b, LastOf(a, NULL)), (Len(a) + Len(b)) + 1, copies)
  <2>1. CASE q # NULL
    <3>1. st1 = [st EXCEPT !.head = q]
      BY <2>1
    <3>2. FirstOf(a, FirstOf(b, NULL)) = q /\ LastOf(b, LastOf(a, NULL)) = LastOf(b, x)
      <4> HIDE DEF p, q
      <4>1. \A z : FirstOf(a, z) = z /\ LastOf(b, z) = LastOf(b, x)
        BY <1>5, <1>7, <1>8, <2>1
      <4> QED BY <1>5, <4>1
    <3> HIDE DEF a, b, p, q, st, st1, copies
    <3>3. Fields(st1, q, LastOf(b, x), (Len(a) + Len(b)) + 1, copies)
      BY <1>5, <3>1 DEF Fields
    <3> QED BY <3>2, <3>3
  <2>2. CASE q = NULL
    <3>1. st1 = [st EXCEPT !.head = NULL, !.tail = NULL]
      BY <2>2
    <3>2. FirstOf(a, FirstOf(b, NULL)) = NULL /\ LastOf(b, LastOf(a, NULL)) = NULL
      <4> HIDE DEF p, q
      <4>1. \A z : FirstOf(a, z) = z /\ FirstOf(b, z) = z /\ LastOf(a, z) = z /\ LastOf(b, z) = z
        BY <1>5, <1>8, <2>2
      <4> QED BY <4>1
    <3> HIDE DEF a, b, p, q, st, st1, copies
    <3>3. Fields(st1, NULL, NULL, (Len(a) + Len(b)) + 1, copies)
      BY <1>5, <3>1 DEF Fields
    <3> QED BY <3>2, <3>3
  <2> HIDE DEF p, q
  <2> QED BY <2>1, <2>2
<1>12. \A z \in Node : z # x => prev[z] = IF z = FirstOf(b, NULL) THEN LastOf(a, NULL) ELSE m.prev[z]
  <2>1. p = NULL
    BY <1>5
  <2>2. q # NULL => q \in Node
    BY <1>6 DEF Ptr
  <2>3. p = LastOf(a, NULL) /\ q = FirstOf(b, NULL)
    BY <1>5
  <2> HIDE DEF a, b, p, q
  <2> QED BY <1>2, <1>6, <2>1, <2>2, <2>3
<1>13. \A z \in Node : z # x => next[z] = IF z = LastOf(a, NULL) THEN FirstOf(b, NULL) ELSE m.next[z]
  <2>1. p = NULL
    BY <1>5
  <2>2. q # NULL => q \in Node
    BY <1>6 DEF Ptr
  <2>3. p = LastOf(a, NULL) /\ q = FirstOf(b, NULL)
    BY <1>5
  <2> HIDE DEF a, b, p, q
  <2> QED BY <1>2, <1>6, <2>1, <2>2, <2>3
<1>12a. Skips(m, prev, next, a, x, b)
  <2> HIDE DEF a, b, prev, next
  <2> QED BY <1>12, <1>13 DEF Skips
<1> DEFINE o == Released(Shrunk(u, l), {x})
<1> HIDE DEF a, b, st1, u, prev, next
<1>14. Removes(m, o, l, a, x, b)
  BY <1>1, <1>3, <1>10, <1>11, <1>12a, RemoveMade DEF copies, st
<1> HIDE DEF o
<1> QED BY <1>9, <1>14 DEF a, b, o

(* pop_back takes the last out.                                            *)
LEMMA PopBackMade ==
  ASSUME NEW m, NEW l, NEW s \in Seq(Node), NEW x \in Node, NEW k, NEW d,
         Rep(m, l, Glue(s, x, <<>>), k, d), Has(m, l)
  PROVE  Removes(m, pop_back(m, l), l, s, x, <<>>)
<1> DEFINE a == s
           b == <<>>
           st == m.list[l]
           copies == st.copy
           p == m.prev[x]
           q == m.next[x]
<1>1. m \in Memory /\ l \in Lists
  BY DEF Rep
<1>2. /\ m.prev \in [Node -> Ptr] /\ m.next \in [Node -> Ptr] /\ m.list \in [Lists -> Structure \cup {NoList}]
  BY <1>1, MemoryIs
<1>3. a \in Seq(Node) /\ b \in Seq(Node)
  BY EmptyIs
<1>4. Around(m, l, a, x, b)
  <2> HIDE DEF a, b
  <2>1. Rep(m, l, Glue(a, x, b), k, d)
    BY DEF a, b
  <2> QED BY <1>3, <2>1, PosFacts
<1>5. /\ p = LastOf(a, NULL) /\ q = FirstOf(b, NULL)
      /\ Fields(st, FirstOf(a, x), LastOf(b, x), (Len(a) + Len(b)) + 1, copies)
      /\ (a = <<>> <=> p = NULL)
      /\ (b = <<>> <=> q = NULL)
      /\ p \in Nodes(a) \cup {NULL} /\ q \in Nodes(b) \cup {NULL}
      /\ Nodes(a) \subseteq m.live /\ Nodes(b) \subseteq m.live /\ m.live \subseteq Node /\ x \in m.live
      /\ x \notin Nodes(a) /\ x \notin Nodes(b)
  <2> HIDE DEF a, b
  <2> QED BY <1>4 DEF Around
<1>6. NULL \notin Node /\ x # NULL /\ p # x /\ q # x /\ p \in Ptr /\ q \in Ptr
  <2> HIDE DEF a, b, p, q
  <2> QED BY <1>5, NullIsNoNode DEF Ptr
<1>7. (a # <<>> => \A z : FirstOf(a, z) = FirstOf(a, x)) /\ (b # <<>> => \A z : LastOf(b, z) = LastOf(b, x))
  <2> HIDE DEF a, b
  <2> QED BY <1>3, EndsSame
<1>8. (a = <<>> => \A z : FirstOf(a, z) = z /\ LastOf(a, z) = z) /\ (b = <<>> => \A z : LastOf(b, z) = z /\ FirstOf(b, z) = z)
  BY EmptyIs
<1> DEFINE st1 == IF p # NULL THEN [st EXCEPT !.tail = p] ELSE [st EXCEPT !.head = NULL, !.tail = NULL]
           u == IF p # NULL THEN [m EXCEPT !.next[p] = NULL, !.list[l].tail = p] ELSE [m EXCEPT !.list[l].head = NULL, !.list[l].tail = NULL]
           prev == m.prev
           next == IF p # NULL THEN [m.next EXCEPT ![p] = NULL] ELSE m.next
<1>9. pop_back(m, l) = Released(Shrunk(u, l), {x})
  <2>1. st.tail = x
    BY <1>5, <1>8 DEF Fields
  <2> QED BY <1>6, <2>1 DEF pop_back
<1>10. Made(u, m.live, m.data, prev, next, [m.list EXCEPT ![l] = st1])
  <2>1. Made(m, m.live, m.data, m.prev, m.next, m.list)
    BY <1>1, MemoryMade
  <2>2. CASE p # NULL
    <3>1. u = [m EXCEPT !.next[p] = NULL, !.list[l].tail = p]
      BY <2>2
    <3>2. [m.list EXCEPT ![l].tail = p] = [m.list EXCEPT ![l] = st1]
      BY <1>1, <1>2, <2>2
    <3>3. u = [m EXCEPT !.next = [@ EXCEPT ![p] = NULL], !.list = [m.list EXCEPT ![l] = st1]]
      BY <3>1, <3>2
    <3>4. prev = m.prev /\ next = [m.next EXCEPT ![p] = NULL]
      BY <2>2
    <3> HIDE DEF u, prev, next, st1, p, q
    <3> QED BY <2>1, <3>3, <3>4 DEF Made
  <2>3. CASE p = NULL
    <3>1. u = [m EXCEPT !.list[l].head = NULL, !.list[l].tail = NULL]
      BY <2>3
    <3>2. [m.list EXCEPT ![l].head = NULL, ![l].tail = NULL] = [m.list EXCEPT ![l] = st1]
      BY <1>1, <1>2, <2>3
    <3>3. u = [m EXCEPT !.list = [m.list EXCEPT ![l] = st1]]
      BY <3>1, <3>2
    <3>4. prev = m.prev /\ next = m.next
      BY <2>3
    <3> HIDE DEF u, prev, next, st1, p, q
    <3> QED BY <2>1, <3>3, <3>4 DEF Made
  <2> HIDE DEF p, q
  <2> QED BY <2>2, <2>3
<1>11. Fields(st1, FirstOf(a, FirstOf(b, NULL)), LastOf(b, LastOf(a, NULL)), (Len(a) + Len(b)) + 1, copies)
  <2>1. CASE p # NULL
    <3>1. st1 = [st EXCEPT !.tail = p]
      BY <2>1
    <3>2. FirstOf(a, FirstOf(b, NULL)) = FirstOf(a, x) /\ LastOf(b, LastOf(a, NULL)) = p
      <4> HIDE DEF p, q
      <4>1. \A z : FirstOf(a, z) = FirstOf(a, x) /\ LastOf(b, z) = z
        BY <1>5, <1>7, <1>8, <2>1
      <4> QED BY <1>5, <4>1
    <3> HIDE DEF a, b, p, q, st, st1, copies
    <3>3. Fields(st1, FirstOf(a, x), p, (Len(a) + Len(b)) + 1, copies)
      BY <1>5, <3>1 DEF Fields
    <3> QED BY <3>2, <3>3
  <2>2. CASE p = NULL
    <3>1. st1 = [st EXCEPT !.head = NULL, !.tail = NULL]
      BY <2>2
    <3>2. FirstOf(a, FirstOf(b, NULL)) = NULL /\ LastOf(b, LastOf(a, NULL)) = NULL
      <4> HIDE DEF p, q
      <4>1. \A z : FirstOf(a, z) = z /\ FirstOf(b, z) = z /\ LastOf(a, z) = z /\ LastOf(b, z) = z
        BY <1>5, <1>8, <2>2
      <4> QED BY <4>1
    <3> HIDE DEF a, b, p, q, st, st1, copies
    <3>3. Fields(st1, NULL, NULL, (Len(a) + Len(b)) + 1, copies)
      BY <1>5, <3>1 DEF Fields
    <3> QED BY <3>2, <3>3
  <2> HIDE DEF p, q
  <2> QED BY <2>1, <2>2
<1>12. \A z \in Node : z # x => prev[z] = IF z = FirstOf(b, NULL) THEN LastOf(a, NULL) ELSE m.prev[z]
  <2>1. q = NULL
    BY <1>5
  <2>2. p # NULL => p \in Node
    BY <1>6 DEF Ptr
  <2>3. p = LastOf(a, NULL) /\ q = FirstOf(b, NULL)
    BY <1>5
  <2> HIDE DEF a, b, p, q
  <2> QED BY <1>2, <1>6, <2>1, <2>2, <2>3
<1>13. \A z \in Node : z # x => next[z] = IF z = LastOf(a, NULL) THEN FirstOf(b, NULL) ELSE m.next[z]
  <2>1. q = NULL
    BY <1>5
  <2>2. p # NULL => p \in Node
    BY <1>6 DEF Ptr
  <2>3. p = LastOf(a, NULL) /\ q = FirstOf(b, NULL)
    BY <1>5
  <2> HIDE DEF a, b, p, q
  <2> QED BY <1>2, <1>6, <2>1, <2>2, <2>3
<1>12a. Skips(m, prev, next, a, x, b)
  <2> HIDE DEF a, b, prev, next
  <2> QED BY <1>12, <1>13 DEF Skips
<1> DEFINE o == Released(Shrunk(u, l), {x})
<1> HIDE DEF a, b, st1, u, prev, next
<1>14. Removes(m, o, l, a, x, b)
  BY <1>1, <1>3, <1>10, <1>11, <1>12a, RemoveMade DEF copies, st
<1> HIDE DEF o
<1> QED BY <1>9, <1>14 DEF a, b, o

(* erase takes out a node that is at neither end.                          *)
LEMMA EraseInsideMade ==
  ASSUME NEW m, NEW l, NEW s \in Seq(Node), NEW x \in Node, NEW t \in Seq(Node), NEW k, NEW d,
         Rep(m, l, Glue(s, x, t), k, d), Has(m, l), s # <<>>, t # <<>>
  PROVE  Removes(m, erase(m, l, x), l, s, x, t)
<1> DEFINE a == s
           b == t
           st == m.list[l]
           copies == st.copy
           p == m.prev[x]
           q == m.next[x]
<1>1. m \in Memory /\ l \in Lists
  BY DEF Rep
<1>2. /\ m.prev \in [Node -> Ptr] /\ m.next \in [Node -> Ptr] /\ m.list \in [Lists -> Structure \cup {NoList}]
  BY <1>1, MemoryIs
<1>3. a \in Seq(Node) /\ b \in Seq(Node)
  BY EmptyIs
<1>4. Around(m, l, a, x, b)
  <2> HIDE DEF a, b
  <2>1. Rep(m, l, Glue(a, x, b), k, d)
    BY DEF a, b
  <2> QED BY <1>3, <2>1, PosFacts
<1>5. /\ p = LastOf(a, NULL) /\ q = FirstOf(b, NULL)
      /\ Fields(st, FirstOf(a, x), LastOf(b, x), (Len(a) + Len(b)) + 1, copies)
      /\ (a = <<>> <=> p = NULL)
      /\ (b = <<>> <=> q = NULL)
      /\ p \in Nodes(a) \cup {NULL} /\ q \in Nodes(b) \cup {NULL}
      /\ Nodes(a) \subseteq m.live /\ Nodes(b) \subseteq m.live /\ m.live \subseteq Node /\ x \in m.live
      /\ x \notin Nodes(a) /\ x \notin Nodes(b)
  <2> HIDE DEF a, b
  <2> QED BY <1>4 DEF Around
<1>6. NULL \notin Node /\ x # NULL /\ p # x /\ q # x /\ p \in Ptr /\ q \in Ptr
  <2> HIDE DEF a, b, p, q
  <2> QED BY <1>5, NullIsNoNode DEF Ptr
<1>7. (a # <<>> => \A z : FirstOf(a, z) = FirstOf(a, x)) /\ (b # <<>> => \A z : LastOf(b, z) = LastOf(b, x))
  <2> HIDE DEF a, b
  <2> QED BY <1>3, EndsSame
<1>8. (a = <<>> => \A z : FirstOf(a, z) = z /\ LastOf(a, z) = z) /\ (b = <<>> => \A z : LastOf(b, z) = z /\ FirstOf(b, z) = z)
  BY EmptyIs
<1> DEFINE st1 == st
           u == [m EXCEPT !.prev[q] = p, !.next[p] = q]
           prev == [m.prev EXCEPT ![q] = p]
           next == [m.next EXCEPT ![p] = q]
<1>9. erase(m, l, x) = Released(Shrunk(u, l), {x})
  <2>1. x \in Nodes(Glue(s, x, t))
    BY GlueNodes
  <2>2. IsIn(m, l, x)
    BY <2>1, IsInIs
  <2>3. p # NULL /\ q # NULL
    BY <1>5
  <2> QED BY <2>2, <2>3 DEF erase
<1>10. Made(u, m.live, m.data, prev, next, [m.list EXCEPT ![l] = st1])
  <2>1. Made(m, m.live, m.data, m.prev, m.next, m.list)
    BY <1>1, MemoryMade
  <2>2. [m.list EXCEPT ![l] = st1] = m.list
    BY <1>1, <1>2
  <2> HIDE DEF prev, next, st1, p, q
  <2>3. Made(u, m.live, m.data, [m.prev EXCEPT ![q] = p], [m.next EXCEPT ![p] = q], m.list)
    <3>1. u = [m EXCEPT !.prev[q] = p, !.next[p] = q]
      OBVIOUS
    <3> HIDE DEF u
    <3> QED BY <2>1, <3>1 DEF Made
  <2> HIDE DEF u
  <2> QED BY <2>2, <2>3 DEF prev, next
<1>11. Fields(st1, FirstOf(a, FirstOf(b, NULL)), LastOf(b, LastOf(a, NULL)), (Len(a) + Len(b)) + 1, copies)
  <2>1. FirstOf(a, FirstOf(b, NULL)) = FirstOf(a, x) /\ LastOf(b, LastOf(a, NULL)) = LastOf(b, x)
    BY <1>7
  <2> HIDE DEF a, b
  <2> QED BY <1>5, <2>1
<1>12. \A z \in Node : z # x => prev[z] = IF z = FirstOf(b, NULL) THEN LastOf(a, NULL) ELSE m.prev[z]
  <2>1. p # NULL /\ q # NULL /\ p \in Node /\ q \in Node
    BY <1>5, <1>6 DEF Ptr
  <2> HIDE DEF a, b, p, q
  <2> QED BY <1>2, <1>5, <2>1
<1>13. \A z \in Node : z # x => next[z] = IF z = LastOf(a, NULL) THEN FirstOf(b, NULL) ELSE m.next[z]
  <2>1. p # NULL /\ q # NULL /\ p \in Node /\ q \in Node
    BY <1>5, <1>6 DEF Ptr
  <2> HIDE DEF a, b, p, q
  <2> QED BY <1>2, <1>5, <2>1
<1>12a. Skips(m, prev, next, a, x, b)
  <2> HIDE DEF a, b, prev, next
  <2> QED BY <1>12, <1>13 DEF Skips
<1> DEFINE o == Released(Shrunk(u, l), {x})
<1> HIDE DEF a, b, st1, u, prev, next
<1>14. Removes(m, o, l, a, x, b)
  BY <1>1, <1>3, <1>10, <1>11, <1>12a, RemoveMade DEF copies, st
<1> HIDE DEF o
<1> QED BY <1>9, <1>14 DEF a, b, o

(* erase takes out a node wherever it is.                                  *)
LEMMA EraseMade ==
  ASSUME NEW m, NEW l, NEW s \in Seq(Node), NEW x \in Node, NEW t \in Seq(Node), NEW k, NEW d,
         Rep(m, l, Glue(s, x, t), k, d), Has(m, l)
  PROVE  Removes(m, erase(m, l, x), l, s, x, t)
<1>1. Around(m, l, s, x, t)
  BY PosFacts
<1>2. IsIn(m, l, x)
  <2>1. x \in Nodes(Glue(s, x, t))
    BY GlueNodes
  <2> QED BY <2>1, IsInIs
<1>3. CASE t = <<>>
  <2>1. m.next[x] = NULL
    BY <1>1, <1>3 DEF Around
  <2>2. erase(m, l, x) = pop_back(m, l)
    BY <1>2, <2>1 DEF erase
  <2>3. Removes(m, pop_back(m, l), l, s, x, <<>>)
    BY <1>3, PopBackMade
  <2> QED BY <1>3, <2>2, <2>3
<1>4. CASE t # <<>> /\ s = <<>>
  <2>1. m.next[x] # NULL /\ m.prev[x] = NULL
    BY <1>1, <1>4 DEF Around
  <2>2. erase(m, l, x) = pop_front(m, l)
    BY <1>2, <2>1 DEF erase
  <2>3. Removes(m, pop_front(m, l), l, <<>>, x, t)
    BY <1>4, PopFrontMade
  <2> QED BY <1>4, <2>2, <2>3
<1>5. CASE t # <<>> /\ s # <<>>
  BY <1>5, EraseInsideMade
<1> QED BY <1>3, <1>4, <1>5

(* The structure of a list of nodes c.                                     *)
IsList(st, c) == (st = NoList /\ c = <<>>) \/ \E copies \in BOOLEAN : st = ListOf(c, copies)

(* What is to be shown of a memory of two lists.                           *)
LEMMA RepIntro ==
  ASSUME NEW o \in Memory, NEW l \in Lists, NEW k \in Lists, l # k,
         NEW c \in Seq(Node), NEW d \in Seq(Node),
         IsList(o.list[l], c), IsList(o.list[k], d),
         Seg(o, c, NULL, NULL), Seg(o, d, NULL, NULL), Distinct(c), Distinct(d),
         Nodes(c) \cap Nodes(d) = {}, o.live = Nodes(c) \cup Nodes(d),
         \A x \in o.live : o.data[x] \in Value
  PROVE  Rep(o, l, c, k, d)
BY DEF Rep, Holds, IsList

(* What is known of it.                                                    *)
LEMMA RepElim ==
  ASSUME NEW m, NEW l, NEW c, NEW k, NEW d, Rep(m, l, c, k, d)
  PROVE  /\ m \in Memory /\ l \in Lists /\ k \in Lists /\ l # k /\ c \in Seq(Node) /\ d \in Seq(Node)
         /\ IsList(m.list[l], c) /\ IsList(m.list[k], d)
         /\ Seg(m, c, NULL, NULL) /\ Seg(m, d, NULL, NULL) /\ Distinct(c) /\ Distinct(d)
         /\ Nodes(c) \cap Nodes(d) = {} /\ m.live = Nodes(c) \cup Nodes(d)
         /\ \A x \in m.live : m.data[x] \in Value
BY DEF Rep, Holds, IsList

(* The structure of a list, or of none, is one.                            *)
LEMMA IsListIn ==
  ASSUME NEW st, NEW c \in Seq(Node), IsList(st, c)
  PROVE  st \in Structure \cup {NoList}
BY ListOfIs DEF IsList

(* Only the structures change.                                             *)
LEMMA RepRelist ==
  ASSUME NEW m, NEW l, NEW c, NEW k, NEW d, Rep(m, l, c, k, d), NEW o, NEW list,
         Made(o, m.live, m.data, m.prev, m.next, list), DOMAIN list = Lists,
         list = [i \in Lists |-> list[i]],
         NEW e, NEW f, {e, f} = {c, d}, IsList(list[l], e), IsList(list[k], f)
  PROVE  Rep(o, l, e, k, f)
<1>1. /\ m \in Memory /\ l \in Lists /\ k \in Lists /\ l # k /\ c \in Seq(Node) /\ d \in Seq(Node)
      /\ Seg(m, c, NULL, NULL) /\ Seg(m, d, NULL, NULL) /\ Distinct(c) /\ Distinct(d)
      /\ Nodes(c) \cap Nodes(d) = {} /\ m.live = Nodes(c) \cup Nodes(d)
      /\ \A x \in m.live : m.data[x] \in Value
  BY RepElim
<1>2. Lists = {l, k}
  BY <1>1 DEF Lists
<1>3. (e = c /\ f = d) \/ (e = d /\ f = c)
  OBVIOUS
<1>4. e \in Seq(Node) /\ f \in Seq(Node)
  BY <1>1, <1>3
<1>5. list \in [Lists -> Structure \cup {NoList}]
  <2>1. list[l] \in Structure \cup {NoList} /\ list[k] \in Structure \cup {NoList}
    BY <1>4, IsListIn
  <2> QED BY <1>2, <2>1
<1>6. /\ m.live \in SUBSET Node /\ m.data \in [Node -> Cell] /\ m.prev \in [Node -> Ptr]
      /\ m.next \in [Node -> Ptr]
  BY <1>1, MemoryIs
<1>7. o \in Memory
  BY <1>5, <1>6, MadeMemory
<1>8. o.live = m.live /\ o.data = m.data /\ o.prev = m.prev /\ o.next = m.next /\ o.list = list
  BY MadeIs
<1>9. Seg(o, e, NULL, NULL) /\ Seg(o, f, NULL, NULL)
  BY <1>1, <1>3, <1>8, SegFrame
<1>10. Distinct(e) /\ Distinct(f) /\ Nodes(e) \cap Nodes(f) = {} /\ o.live = Nodes(e) \cup Nodes(f)
  BY <1>1, <1>3, <1>8
<1>11. \A x \in o.live : o.data[x] \in Value
  BY <1>1, <1>8
<1>12. IsList(o.list[l], e) /\ IsList(o.list[k], f)
  BY <1>8
<1> QED BY <1>1, <1>4, <1>7, <1>9, <1>10, <1>11, <1>12, RepIntro

(* The structure of a new list is that of no nodes.                        *)
LEMMA EmptyListIs ==
  ASSUME NEW copies \in BOOLEAN
  PROVE  /\ EmptyList(copies) = ListOf(<<>>, copies) /\ IsList(EmptyList(copies), <<>>)
         /\ EmptyList(copies).exists /\ EmptyList(copies).copy = copies
<1> DEFINE z == <<>>
<1>1. FirstOf(z, NULL) = NULL /\ LastOf(z, NULL) = NULL /\ Len(z) = 0
  BY EmptyIs
<1>2. EmptyList(copies) = ListOf(z, copies)
  BY <1>1 DEF EmptyList, ListOf
<1>3. EmptyList(copies).exists /\ EmptyList(copies).copy = copies
  BY DEF EmptyList
<1> QED BY <1>2, <1>3 DEF IsList

(* Nor has an absent list any.                                             *)
LEMMA NoListIs == IsList(NoList, <<>>) /\ ~NoList.exists
BY DEF IsList, NoList

(* The values of all nodes that remain are those they had.                 *)
SameData(m, o) == \A x \in o.live \cap m.live : o.data[x] = m.data[x]

(* After the release of all nodes of a list the memory is that of the      *)
(* other.                                                                  *)
LEMMA Cleared ==
  ASSUME NEW m, NEW l, NEW c, NEW k, NEW d, Rep(m, l, c, k, d), NEW o, NEW st, IsList(st, <<>>),
         NEW data, data = [n \in Node |-> IF n \in Nodes(c) THEN NULL ELSE m.data[n]],
         NEW prev, prev = [n \in Node |-> IF n \in Nodes(c) THEN NULL ELSE m.prev[n]],
         NEW next, next = [n \in Node |-> IF n \in Nodes(c) THEN NULL ELSE m.next[n]],
         Made(o, m.live \ Nodes(c), data, prev, next, [m.list EXCEPT ![l] = st])
  PROVE  Rep(o, l, <<>>, k, d) /\ SameData(m, o) /\ o.list = [m.list EXCEPT ![l] = st]
<1> DEFINE z == <<>>
           list == [m.list EXCEPT ![l] = st]
<1>1. /\ m \in Memory /\ l \in Lists /\ k \in Lists /\ l # k /\ c \in Seq(Node) /\ d \in Seq(Node)
      /\ IsList(m.list[k], d)
      /\ Seg(m, c, NULL, NULL) /\ Seg(m, d, NULL, NULL) /\ Distinct(c) /\ Distinct(d)
      /\ Nodes(c) \cap Nodes(d) = {} /\ m.live = Nodes(c) \cup Nodes(d)
      /\ \A x \in m.live : m.data[x] \in Value
  BY RepElim
<1>2. /\ m.live \subseteq Node /\ m.data \in [Node -> Cell] /\ m.prev \in [Node -> Ptr]
      /\ m.next \in [Node -> Ptr] /\ m.list \in [Lists -> Structure \cup {NoList}]
  BY <1>1, MemoryIs
<1>3. z \in Seq(Node) /\ Nodes(z) = {} /\ Distinct(z) /\ \A u : Seg(u, z, NULL, NULL)
  BY EmptyIs
<1>4. data \in [Node -> Cell] /\ prev \in [Node -> Ptr] /\ next \in [Node -> Ptr]
  BY <1>2 DEF Cell, Ptr
<1>5. IsList(st, z)
  OBVIOUS
<1> HIDE DEF z
<1>6. list \in [Lists -> Structure \cup {NoList}] /\ list[l] = st /\ list[k] = m.list[k]
  <2>1. st \in Structure \cup {NoList}
    BY <1>3, <1>5, IsListIn
  <2> QED BY <1>1, <1>2, <2>1
<1>7. m.live \ Nodes(c) = Nodes(z) \cup Nodes(d) /\ m.live \ Nodes(c) \in SUBSET Node
  BY <1>1, <1>2, <1>3
<1>8. o.live = m.live \ Nodes(c) /\ o.data = data /\ o.prev = prev /\ o.next = next /\ o.list = list
  BY MadeIs
<1>9. o \in Memory
  <2>1. Made(o, m.live \ Nodes(c), data, prev, next, list)
    OBVIOUS
  <2> HIDE DEF list
  <2> QED BY <1>4, <1>6, <1>7, <2>1, MadeMemory
<1>10. \A x \in Nodes(d) : o.next[x] = m.next[x] /\ o.prev[x] = m.prev[x] /\ o.data[x] = m.data[x]
  BY <1>1, <1>2, <1>8
<1>11. Seg(o, d, NULL, NULL)
  BY <1>1, <1>10, SegFrame
<1>12. \A x \in o.live : o.data[x] \in Value
  BY <1>1, <1>3, <1>7, <1>8, <1>10
<1>13. Nodes(z) \cap Nodes(d) = {} /\ o.live = Nodes(z) \cup Nodes(d)
  BY <1>3, <1>7, <1>8
<1>14. IsList(o.list[l], z) /\ IsList(o.list[k], d)
  BY <1>1, <1>5, <1>6, <1>8
<1> HIDE DEF list
<1>15. Seg(o, z, NULL, NULL)
  BY <1>3
<1>16. Rep(o, l, z, k, d)
  BY <1>1, <1>3, <1>9, <1>11, <1>12, <1>13, <1>14, <1>15, RepIntro
<1>17. SameData(m, o)
  BY <1>3, <1>7, <1>8, <1>10 DEF SameData
<1> QED BY <1>8, <1>16, <1>17 DEF z, list

(* The fields after clear.                                                 *)
LEMMA ReleasedNodes ==
  ASSUME NEW m \in Memory, NEW S
  PROVE  Made(Released(m, S), m.live \ S, [n \in Node |-> IF n \in S THEN NULL ELSE m.data[n]],
              [n \in Node |-> IF n \in S THEN NULL ELSE m.prev[n]],
              [n \in Node |-> IF n \in S THEN NULL ELSE m.next[n]], m.list)
BY MemoryMade, ReleasedIs

(* A structure replaced.                                                   *)
LEMMA Restructured ==
  ASSUME NEW m, NEW l, NEW st, NEW o, o = [m EXCEPT !.list[l] = st], NEW live, NEW data, NEW prev, NEW next,
         NEW list, Made(m, live, data, prev, next, list)
  PROVE  Made(o, live, data, prev, next, [list EXCEPT ![l] = st])
BY DEF Made

(* clear empties the list and frees its nodes.                             *)
LEMMA ClearIs ==
  ASSUME NEW m, NEW l, NEW c, NEW k, NEW d, Rep(m, l, c, k, d), Has(m, l)
  PROVE  Rep(clear(m, l), l, <<>>, k, d) /\ Keeps(m, clear(m, l), l, k)
<1> DEFINE o == clear(m, l)
           r == Released(m, Nodes(c))
           st == EmptyList(m.list[l].copy)
           data == [n \in Node |-> IF n \in Nodes(c) THEN NULL ELSE m.data[n]]
           prev == [n \in Node |-> IF n \in Nodes(c) THEN NULL ELSE m.prev[n]]
           next == [n \in Node |-> IF n \in Nodes(c) THEN NULL ELSE m.next[n]]
<1>1. c \in Seq(Node) /\ Holds(m, l, c) /\ m.list[l].exists /\ m \in Memory /\ l \in Lists /\ k \in Lists /\ l # k
  BY DEF Rep, Has
<1>2. ToSet(Chain(m, l)) = Nodes(c)
  BY <1>1, ChainIs, ToSetIs
<1>3. m.list[l].copy \in BOOLEAN
  BY <1>1, LivesIs
<1>4. IsList(st, <<>>) /\ st.exists /\ st.copy = m.list[l].copy
  BY <1>3, EmptyListIs
<1>5. o = [r EXCEPT !.list[l] = st]
  BY <1>2 DEF clear
<1>6. Made(r, m.live \ Nodes(c), data, prev, next, m.list)
  BY <1>1, ReleasedNodes
<1> HIDE DEF o, r, data, prev, next, st
<1>7. Made(o, m.live \ Nodes(c), data, prev, next, [m.list EXCEPT ![l] = st])
  BY <1>5, <1>6, Restructured
<1>8. Rep(o, l, <<>>, k, d) /\ SameData(m, o) /\ o.list = [m.list EXCEPT ![l] = st]
  BY <1>4, <1>7, Cleared DEF data, prev, next
<1>9. Keeps(m, o, l, k)
  <2>1. m.list \in [Lists -> Structure \cup {NoList}]
    BY <1>1, MemoryIs
  <2>2. o.list[k] = m.list[k] /\ o.list[l] = st
    BY <1>1, <1>8, <2>1
  <2> QED BY <1>4, <1>8, <2>2 DEF Keeps, Has, SameData
<1> QED BY <1>8, <1>9 DEF o

(* destroy frees the structure as well.                                    *)
LEMMA DestroyIs ==
  ASSUME NEW m, NEW l, NEW c, NEW k, NEW d, Rep(m, l, c, k, d), Has(m, l)
  PROVE  /\ Rep(destroy(m, l), l, <<>>, k, d) /\ SameData(m, destroy(m, l))
         /\ destroy(m, l).list[k] = m.list[k] /\ ~Has(destroy(m, l), l)
<1> DEFINE o == destroy(m, l)
           w == clear(m, l)
           r == Released(m, Nodes(c))
           st == EmptyList(m.list[l].copy)
           data == [n \in Node |-> IF n \in Nodes(c) THEN NULL ELSE m.data[n]]
           prev == [n \in Node |-> IF n \in Nodes(c) THEN NULL ELSE m.prev[n]]
           next == [n \in Node |-> IF n \in Nodes(c) THEN NULL ELSE m.next[n]]
<1>1. c \in Seq(Node) /\ Holds(m, l, c) /\ m.list[l].exists /\ m \in Memory /\ l \in Lists /\ k \in Lists /\ l # k
  BY DEF Rep, Has
<1>2. ToSet(Chain(m, l)) = Nodes(c)
  BY <1>1, ChainIs, ToSetIs
<1>3. w = [r EXCEPT !.list[l] = st] /\ o = [w EXCEPT !.list[l] = NoList]
  BY <1>2 DEF clear, destroy
<1>4. Made(r, m.live \ Nodes(c), data, prev, next, m.list)
  BY <1>1, ReleasedNodes
<1>5. IsList(NoList, <<>>) /\ ~NoList.exists
  BY NoListIs
<1>6. m.list \in [Lists -> Structure \cup {NoList}]
  BY <1>1, MemoryIs
<1> HIDE DEF o, w, r, data, prev, next, st
<1>7. Made(w, m.live \ Nodes(c), data, prev, next, [m.list EXCEPT ![l] = st])
  BY <1>3, <1>4, Restructured
<1>8. Made(o, m.live \ Nodes(c), data, prev, next, [[m.list EXCEPT ![l] = st] EXCEPT ![l] = NoList])
  <2> DEFINE list == [m.list EXCEPT ![l] = st]
  <2>1. Made(w, m.live \ Nodes(c), data, prev, next, list)
    BY <1>7
  <2>2. o = [w EXCEPT !.list[l] = NoList]
    BY <1>3
  <2> HIDE DEF list
  <2>3. Made(o, m.live \ Nodes(c), data, prev, next, [list EXCEPT ![l] = NoList])
    BY <2>1, <2>2, Restructured
  <2> QED BY <2>3 DEF list
<1>9. [[m.list EXCEPT ![l] = st] EXCEPT ![l] = NoList] = [m.list EXCEPT ![l] = NoList]
  BY <1>1, <1>6
<1>10. Rep(o, l, <<>>, k, d) /\ SameData(m, o) /\ o.list = [m.list EXCEPT ![l] = NoList]
  BY <1>5, <1>8, <1>9, Cleared DEF data, prev, next
<1>11. o.list[k] = m.list[k] /\ o.list[l] = NoList
  BY <1>1, <1>6, <1>10
<1> QED BY <1>5, <1>10, <1>11 DEF o, Has

HasPolicy(m, l, copies) == m.list[l].copy = copies

(* A list that is made, empty.                                             *)
LEMMA Opened ==
  ASSUME NEW m, NEW l, NEW c, NEW k, NEW d, Rep(m, l, c, k, d), ~Has(m, l), NEW copies \in BOOLEAN,
         NEW o, o = [m EXCEPT !.list[l] = EmptyList(copies)]
  PROVE  /\ c = <<>> /\ Rep(o, l, <<>>, k, d) /\ SameData(m, o) /\ o.list[k] = m.list[k] /\ o.live = m.live
         /\ Has(o, l) /\ HasPolicy(o, l, copies)
<1> DEFINE st == EmptyList(copies)
           list == [m.list EXCEPT ![l] = st]
<1>1. /\ m \in Memory /\ l \in Lists /\ k \in Lists /\ l # k /\ Holds(m, l, c) /\ IsList(m.list[k], d)
  BY RepElim DEF Rep
<1>2. c = <<>>
  BY <1>1, AbsentIs DEF Has
<1>3. m.list \in [Lists -> Structure \cup {NoList}]
  BY <1>1, MemoryIs
<1>4. IsList(st, c) /\ st.exists /\ st.copy = copies
  BY <1>2, EmptyListIs
<1>5. Made(m, m.live, m.data, m.prev, m.next, m.list)
  BY <1>1, MemoryMade
<1> HIDE DEF st
<1>6. Made(o, m.live, m.data, m.prev, m.next, list)
  <2>1. o = [m EXCEPT !.list[l] = st]
    BY DEF st
  <2> QED BY <1>5, <2>1, Restructured
<1>7. DOMAIN list = Lists /\ list = [i \in Lists |-> list[i]] /\ list[l] = st /\ list[k] = m.list[k]
  BY <1>1, <1>3
<1> HIDE DEF list
<1>8. o.live = m.live /\ o.data = m.data /\ o.list = list
  BY <1>6, MadeIs
<1>9. IsList(list[l], c) /\ IsList(list[k], d)
  BY <1>1, <1>4, <1>7
<1>10. Rep(o, l, c, k, d)
  BY <1>6, <1>7, <1>9, RepRelist
<1>11. Rep(o, l, <<>>, k, d)
  BY <1>2, <1>10
<1>12. SameData(m, o) /\ o.list[k] = m.list[k] /\ Has(o, l) /\ HasPolicy(o, l, copies)
  BY <1>4, <1>7, <1>8 DEF SameData, Has, HasPolicy
<1> QED BY <1>2, <1>8, <1>11, <1>12

(* dlist_split_after with no position hands the whole list over.           *)
LEMMA SplitAllIs ==
  ASSUME NEW m, NEW l, NEW c, NEW k, NEW d, Rep(m, l, c, k, d), Has(m, l), ~Has(m, k)
  PROVE  LET o == split_after(m, l, NULL, k)
         IN  /\ Rep(o, l, <<>>, k, c) /\ SameData(m, o) /\ o.live = m.live
             /\ Has(o, l) /\ Has(o, k) /\ o.list[l].copy = m.list[l].copy /\ o.list[k].copy = m.list[l].copy
<1> DEFINE o == split_after(m, l, NULL, k)
           st == EmptyList(m.list[l].copy)
           ot == m.list[l]
           w == Emptied(m, l)
           list == [[m.list EXCEPT ![l] = st] EXCEPT ![k] = ot]
<1>1. /\ m \in Memory /\ l \in Lists /\ k \in Lists /\ l # k /\ c \in Seq(Node)
      /\ Holds(m, l, c) /\ Holds(m, k, d) /\ IsList(m.list[l], c)
  BY RepElim DEF Rep
<1>2. d = <<>>
  BY <1>1, AbsentIs DEF Has
<1>3. m.list \in [Lists -> Structure \cup {NoList}]
  BY <1>1, MemoryIs
<1>4. IsList(st, d) /\ st.exists /\ st.copy = m.list[l].copy
  <2>1. m.list[l].copy \in BOOLEAN
    BY <1>1, LivesIs DEF Has
  <2> QED BY <1>2, <2>1, EmptyListIs
<1>5. Made(m, m.live, m.data, m.prev, m.next, m.list)
  BY <1>1, MemoryMade
<1>6. w = [m EXCEPT !.list[l] = st] /\ o = [w EXCEPT !.list[k] = ot]
  BY DEF Emptied, split_after
<1>6a. ot.exists /\ ot.copy = m.list[l].copy /\ IsList(ot, c)
  BY <1>1 DEF Has
<1> HIDE DEF st, ot, o, w
<1>7. Made(o, m.live, m.data, m.prev, m.next, list)
  <2> DEFINE list1 == [m.list EXCEPT ![l] = st]
  <2>1. Made(w, m.live, m.data, m.prev, m.next, list1)
    BY <1>5, <1>6, Restructured
  <2>2. o = [w EXCEPT !.list[k] = ot]
    BY <1>6
  <2> HIDE DEF list1
  <2>3. Made(o, m.live, m.data, m.prev, m.next, [list1 EXCEPT ![k] = ot])
    BY <2>1, <2>2, Restructured
  <2> QED BY <2>3 DEF list1
<1>8. DOMAIN list = Lists /\ list = [i \in Lists |-> list[i]] /\ list[l] = st /\ list[k] = ot
  BY <1>1, <1>3
<1> HIDE DEF list
<1>9. o.live = m.live /\ o.data = m.data /\ o.list = list
  BY <1>7, MadeIs
<1>10. IsList(list[l], d) /\ IsList(list[k], c)
  BY <1>4, <1>6a, <1>8
<1>11. Rep(o, l, d, k, c)
  BY <1>7, <1>8, <1>10, RepRelist
<1>12. Rep(o, l, <<>>, k, c)
  BY <1>2, <1>11
<1>13. SameData(m, o) /\ Has(o, l) /\ Has(o, k) /\ o.list[l].copy = m.list[l].copy /\ o.list[k].copy = m.list[l].copy
  BY <1>4, <1>6a, <1>8, <1>9 DEF SameData, Has
<1> QED BY <1>9, <1>12, <1>13 DEF o

(* A position at the end of the list, or in no list, leaves the list whole. *)
LEMMA SplitIs ==
  ASSUME NEW m, NEW l, NEW c, NEW k, NEW d, Rep(m, l, c, k, d), Has(m, l), ~Has(m, k),
         NEW x, x # NULL
  PROVE  LET o == split_after(m, l, x, k)
         IN  \/ o = m
             \/ Rep(o, k, <<>>, l, c) /\ SameData(m, o) /\ o.list[l] = m.list[l] /\ o.live = m.live
                /\ Has(o, k) /\ o.list[k].copy = m.list[l].copy
<1> DEFINE o == split_after(m, l, x, k)
           copies == m.list[l].copy
           u == [m EXCEPT !.list[k] = EmptyList(copies)]
<1>1. o = m \/ o = u
  BY DEF split_after
<1>2. copies \in BOOLEAN
  BY LivesIs DEF Rep, Has
<1>3. Rep(m, k, d, l, c)
  BY RepSwap
<1> HIDE DEF copies, o
<1>4. /\ Rep(u, k, <<>>, l, c) /\ SameData(m, u) /\ u.list[l] = m.list[l] /\ u.live = m.live
      /\ Has(u, k) /\ u.list[k].copy = copies
  <2>1. u = [m EXCEPT !.list[k] = EmptyList(copies)]
    OBVIOUS
  <2> HIDE DEF u
  <2>2. Rep(u, k, <<>>, l, c)
    BY <1>2, <1>3, <2>1, Opened
  <2>3. SameData(m, u) /\ Has(u, k)
    BY <1>2, <1>3, <2>1, Opened
  <2>4. u.list[l] = m.list[l]
    BY <1>2, <1>3, <2>1, Opened
  <2>5. u.live = m.live
    BY <1>2, <1>3, <2>1, Opened
  <2>6. HasPolicy(u, k, copies)
    BY <1>2, <1>3, <2>1, Opened
  <2> QED BY <2>2, <2>3, <2>4, <2>5, <2>6 DEF HasPolicy
<1> HIDE DEF u
<1> QED BY <1>1, <1>4 DEF o, copies

(* reverse makes the same list backwards.                                  *)
LEMMA ReverseOpIs ==
  ASSUME NEW m, NEW l, NEW c, NEW k, NEW d, Rep(m, l, c, k, d), Has(m, l)
  PROVE  Rep(reverse(m, l), l, Reverse(c), k, d) /\ Keeps(m, reverse(m, l), l, k)
<1> DEFINE o == reverse(m, l)
           e == Reverse(c)
           st == m.list[l]
           st1 == [st EXCEPT !.head = st.tail, !.tail = st.head]
           prev == [n \in Node |-> IF n \in Nodes(c) THEN m.next[n] ELSE m.prev[n]]
           next == [n \in Node |-> IF n \in Nodes(c) THEN m.prev[n] ELSE m.next[n]]
<1>1. /\ m \in Memory /\ l \in Lists /\ k \in Lists /\ l # k /\ c \in Seq(Node) /\ d \in Seq(Node)
      /\ Seg(m, c, NULL, NULL) /\ Distinct(c)
      /\ Nodes(c) \cap Nodes(d) = {} /\ m.live = Nodes(c) \cup Nodes(d)
      /\ \A x \in m.live : m.data[x] \in Value
  BY RepElim
<1>2. /\ m.live \subseteq Node /\ m.data \in [Node -> Cell] /\ m.prev \in [Node -> Ptr]
      /\ m.next \in [Node -> Ptr] /\ m.list \in [Lists -> Structure \cup {NoList}]
  BY <1>1, MemoryIs
<1>3. Holds(m, l, c) /\ m.list[l].exists
  BY DEF Rep, Has
<1>4. ToSet(Chain(m, l)) = Nodes(c)
  BY <1>1, <1>3, ChainIs, ToSetIs
<1>5. /\ e \in Seq(Node) /\ Len(e) = Len(c) /\ Nodes(e) = Nodes(c) /\ Distinct(e)
      /\ FirstOf(e, NULL) = LastOf(c, NULL) /\ LastOf(e, NULL) = FirstOf(c, NULL)
  BY <1>1, ReverseIs
<1>6. st = ListOf(c, st.copy) /\ st.copy \in BOOLEAN
  BY <1>1, <1>3, LivesIs
<1>7. st1 = ListOf(e, st.copy)
  <2>1. Fields(st, FirstOf(c, NULL), LastOf(c, NULL), Len(c), st.copy)
    BY <1>6, ListOfFields
  <2>2. st1 = [st EXCEPT !.head = LastOf(c, NULL), !.tail = FirstOf(c, NULL)]
    BY <2>1 DEF Fields
  <2> HIDE DEF st, st1, e
  <2>3. Fields(st1, LastOf(c, NULL), FirstOf(c, NULL), Len(c), st.copy)
    BY <2>1, <2>2 DEF Fields
  <2>4. Fields(st1, FirstOf(e, NULL), LastOf(e, NULL), Len(e), st.copy)
    BY <1>5, <2>3
  <2> QED BY <2>4, ListOfFields
<1>8. o = [m EXCEPT !.next = next, !.prev = prev, !.list = [m.list EXCEPT ![l] = st1]]
  <2>1. o = [m EXCEPT !.next = next, !.prev = prev, !.list[l].head = st.tail, !.list[l].tail = st.head]
    BY <1>4 DEF reverse
  <2>2. [m.list EXCEPT ![l].head = st.tail, ![l].tail = st.head] = [m.list EXCEPT ![l] = st1]
    BY <1>1, <1>2
  <2> HIDE DEF st1, prev, next, o
  <2> QED BY <2>1, <2>2
<1>9. prev \in [Node -> Ptr] /\ next \in [Node -> Ptr]
  BY <1>2
<1>10. Made(o, m.live, m.data, prev, next, [m.list EXCEPT ![l] = st1])
  <2>1. Made(m, m.live, m.data, m.prev, m.next, m.list)
    BY <1>1, MemoryMade
  <2> HIDE DEF st1, prev, next, o
  <2> QED BY <1>8, <2>1 DEF Made
<1>11. o.prev = prev /\ o.next = next
  <2> HIDE DEF st1, prev, next, o
  <2> QED BY <1>10, MadeIs
<1>12. Seg(o, e, NULL, NULL)
  <2>1. \A n \in Nodes(c) : o.next[n] = m.prev[n] /\ o.prev[n] = m.next[n]
    BY <1>1, <1>2, <1>11
  <2> QED BY <1>1, <2>1, SegReverse
<1>13. \A x \in Nodes(d) : m.data[x] = m.data[x] /\ prev[x] = m.prev[x] /\ next[x] = m.next[x]
  BY <1>1, <1>2
<1> HIDE DEF o, e, st1, prev, next
<1>14. Made(o, Nodes(e) \cup Nodes(d), m.data, prev, next, Relist(m, l, e))
  BY <1>1, <1>5, <1>7, <1>10 DEF Relist, Relisted
<1>15. Tells(m, l)
  BY <1>6 DEF Tells
<1>16. \A x \in Nodes(e) : m.data[x] \in Value
  BY <1>1, <1>5
<1>17. Nodes(e) \cap Nodes(d) = {} /\ e \in Seq(Node) /\ Distinct(e)
  BY <1>1, <1>5
<1> DEFINE data == m.data
<1>18. /\ data \in [Node -> Cell] /\ \A x \in Nodes(e) : data[x] \in Value
       /\ \A x \in Nodes(d) : data[x] = m.data[x] /\ prev[x] = m.prev[x] /\ next[x] = m.next[x]
       /\ \A x \in Nodes(e) \cap m.live : data[x] = m.data[x]
       /\ Made(o, Nodes(e) \cup Nodes(d), data, prev, next, Relist(m, l, e))
  BY <1>2, <1>13, <1>14, <1>16
<1> HIDE DEF data
<1>19. Rep(o, l, e, k, d) /\ Keeps(m, o, l, k)
  BY <1>9, <1>12, <1>15, <1>17, <1>18, Rebuilt
<1> QED BY <1>19 DEF o, e

(* What the ends of a linked sequence point to.                            *)
LEMMA SegEnds ==
  ASSUME NEW S, NEW c \in Seq(S), c # <<>>, NEW m, NEW a, NEW b, Seg(m, c, a, b), NEW x
  PROVE  m.prev[FirstOf(c, x)] = a /\ m.next[LastOf(c, x)] = b
<1>1. Len(c) \in Nat /\ Len(c) # 0
  BY NodesIn
<1>2. 1 \in 1..Len(c) /\ Len(c) \in 1..Len(c)
  BY <1>1
<1> QED BY <1>1, <1>2 DEF Seg, FirstOf, LastOf

(* The pointers when the nodes of d are linked between s and t.            *)
Joins(m, prev, next, s, d, t) ==
    /\ prev \in [Node -> Ptr] /\ next \in [Node -> Ptr]
    /\ \A z \in Node :
           /\ prev[z] = IF z = FirstOf(t, NULL) THEN LastOf(d, NULL)
                        ELSE IF z = FirstOf(d, NULL) THEN LastOf(s, NULL) ELSE m.prev[z]
           /\ next[z] = IF z = LastOf(d, NULL) THEN FirstOf(t, NULL)
                        ELSE IF z = LastOf(s, NULL) THEN FirstOf(d, NULL) ELSE m.next[z]

MovedTo(m, l, k, st) == [[m.list EXCEPT ![k] = EmptyList(m.list[k].copy)] EXCEPT ![l] = st]
LongerBy(m, l, s, d, t, st) ==
    Fields(st, FirstOf(s, FirstOf(d, NULL)), LastOf(t, LastOf(d, NULL)),
           (Len(s) + Len(t)) + Len(d), m.list[l].copy)
SameLists(m, o, l, k) ==
    /\ SameData(m, o) /\ o.live = m.live
    /\ Has(o, l) /\ Has(o, k) /\ o.list[l].copy = m.list[l].copy /\ o.list[k].copy = m.list[k].copy

(* After the links of a move the memory is that of the longer list and an  *)
(* empty one.                                                              *)
LEMMA Moved ==
  ASSUME NEW m, NEW l, NEW s \in Seq(Node), NEW t \in Seq(Node), NEW k, NEW d,
         Rep(m, l, s \o t, k, d), Has(m, l), Has(m, k), d # <<>>,
         NEW o, NEW prev, NEW next, NEW st, LongerBy(m, l, s, d, t, st),
         Made(o, m.live, m.data, prev, next, MovedTo(m, l, k, st)), Joins(m, prev, next, s, d, t)
  PROVE  Rep(o, l, (s \o d) \o t, k, <<>>) /\ SameLists(m, o, l, k)
<1> DEFINE e == (s \o d) \o t
           z == <<>>
           list == MovedTo(m, l, k, st)
           p == LastOf(s, NULL)
           q == FirstOf(t, NULL)
           f == FirstOf(d, NULL)
           b == LastOf(d, NULL)
<1>1. /\ m \in Memory /\ l \in Lists /\ k \in Lists /\ l # k /\ s \o t \in Seq(Node) /\ d \in Seq(Node)
      /\ Seg(m, s \o t, NULL, NULL) /\ Seg(m, d, NULL, NULL) /\ Distinct(s \o t) /\ Distinct(d)
      /\ Nodes(s \o t) \cap Nodes(d) = {} /\ m.live = Nodes(s \o t) \cup Nodes(d)
      /\ \A x \in m.live : m.data[x] \in Value
  BY RepElim
<1>2. /\ m.live \in SUBSET Node /\ m.data \in [Node -> Cell] /\ m.list \in [Lists -> Structure \cup {NoList}]
  BY <1>1, MemoryIs
<1>3. /\ Nodes(s \o t) = Nodes(s) \cup Nodes(t)
      /\ Distinct(s) /\ Distinct(t) /\ Nodes(s) \cap Nodes(t) = {}
      /\ Seg(m, s, NULL, q) /\ Seg(m, t, p, NULL)
  BY <1>1, NodesConcat, DistinctConcat, SegConcat
<1>4. /\ p \in Nodes(s) \cup {NULL} /\ q \in Nodes(t) \cup {NULL} /\ f \in Nodes(d) /\ b \in Nodes(d)
      /\ Nodes(s) \subseteq Node /\ Nodes(t) \subseteq Node /\ Nodes(d) \subseteq Node /\ NULL \notin Node
  <2>1. s # <<>> => p \in Nodes(s)
    BY EndsAreNodes
  <2>2. t # <<>> => q \in Nodes(t)
    BY EndsAreNodes
  <2>3. f \in Nodes(d) /\ b \in Nodes(d)
    BY <1>1, EndsAreNodes
  <2>4. s = <<>> => p = NULL
    BY EmptyIs
  <2>5. t = <<>> => q = NULL
    BY EmptyIs
  <2> HIDE DEF p, q, f, b
  <2> QED BY <1>1, <2>1, <2>2, <2>3, <2>4, <2>5, NodesIn, NullIsNoNode
<1>5. /\ \A x \in Node : prev[x] = IF x = q THEN b ELSE IF x = f THEN p ELSE m.prev[x]
      /\ \A x \in Node : next[x] = IF x = b THEN q ELSE IF x = p THEN f ELSE m.next[x]
      /\ prev \in [Node -> Ptr] /\ next \in [Node -> Ptr]
  BY DEF Joins
<1>6. s \o d \in Seq(Node) /\ e \in Seq(Node)
  BY <1>1
<1>7. Nodes(s \o d) = Nodes(s) \cup Nodes(d) /\ Nodes(e) = (Nodes(s) \cup Nodes(d)) \cup Nodes(t)
  <2>1. Nodes(s \o d) = Nodes(s) \cup Nodes(d)
    BY <1>1, NodesConcat
  <2>2. Nodes(e) = Nodes(s \o d) \cup Nodes(t)
    BY <1>6, NodesConcat
  <2> QED BY <2>1, <2>2
<1>8. Distinct(e)
  <2>1. Distinct(s \o d)
    BY <1>1, <1>3, DistinctConcat
  <2>2. Nodes(s \o d) \cap Nodes(t) = {}
    BY <1>1, <1>3, <1>7
  <2> QED BY <1>3, <1>6, <2>1, <2>2, DistinctConcat
<1>9. /\ FirstOf(e, NULL) = FirstOf(s, f) /\ LastOf(e, NULL) = LastOf(t, b)
      /\ Len(e) = (Len(s) + Len(t)) + Len(d)
  <2>1. FirstOf(s \o d, q) = FirstOf(s, FirstOf(d, q)) /\ LastOf(s \o d, NULL) = LastOf(d, LastOf(s, NULL))
    BY <1>1, EndsConcat
  <2>2. FirstOf(e, NULL) = FirstOf(s \o d, FirstOf(t, NULL)) /\ LastOf(e, NULL) = LastOf(t, LastOf(s \o d, NULL))
    <3> DEFINE g == s \o d
    <3>1. g \in Seq(Node) /\ e = g \o t
      BY <1>6
    <3> HIDE DEF g, e
    <3>2. FirstOf(g \o t, NULL) = FirstOf(g, FirstOf(t, NULL))
      BY <3>1, EndsConcat
    <3>3. LastOf(g \o t, NULL) = LastOf(t, LastOf(g, NULL))
      BY <3>1, EndsConcat
    <3> QED BY <3>1, <3>2, <3>3 DEF g
  <2>3. FirstOf(d, q) = f /\ LastOf(d, p) = b
    BY <1>1, EndsSame
  <2>4. Len(s \o d) = Len(s) + Len(d) /\ Len(e) = Len(s \o d) + Len(t) /\ Len(s) \in Nat /\ Len(t) \in Nat /\ Len(d) \in Nat
    BY <1>1, <1>6, ConcatIs, NodesIn
  <2>5. Len(e) = (Len(s) + Len(t)) + Len(d)
    <3> DEFINE g == s \o d
    <3>1. Len(g) = Len(s) + Len(d) /\ Len(e) = Len(g) + Len(t)
      BY <2>4
    <3> HIDE DEF g, e
    <3> QED BY <2>4, <3>1
  <2> QED BY <2>1, <2>2, <2>3, <2>5
<1>10. o.live = m.live /\ o.data = m.data /\ o.prev = prev /\ o.next = next /\ o.list = list
  BY MadeIs
<1>11. list[l] = st /\ list[k] = EmptyList(m.list[k].copy)
  BY <1>1, <1>2 DEF MovedTo
<1>12. m.list[l].copy \in BOOLEAN /\ m.list[k].copy \in BOOLEAN
  BY LivesIs DEF Rep, Has
<1>13. st = ListOf(e, m.list[l].copy)
  <2> HIDE DEF e, z, list, p, q, f, b
  <2>1. Fields(st, FirstOf(e, NULL), LastOf(e, NULL), Len(e), m.list[l].copy)
    BY <1>9 DEF LongerBy, f, b
  <2> QED BY <2>1, ListOfFields
<1>14. z \in Seq(Node) /\ Nodes(z) = {} /\ Distinct(z) /\ \A u : Seg(u, z, NULL, NULL)
  BY EmptyIs
<1>15. IsList(list[l], e) /\ IsList(list[k], z) /\ list[l].copy = m.list[l].copy /\ list[k].copy = m.list[k].copy
       /\ list[l].exists /\ list[k].exists
  <2>1. IsList(list[k], z) /\ list[k].exists /\ list[k].copy = m.list[k].copy
    BY <1>11, <1>12, EmptyListIs
  <2>2. IsList(st, e) /\ st.copy = m.list[l].copy /\ st.exists
    <3> HIDE DEF e
    <3> QED BY <1>12, <1>13 DEF IsList, ListOf
  <2> HIDE DEF e, z, list
  <2> QED BY <1>11, <2>1, <2>2
<1> HIDE DEF e, z, p, q, f, b
<1>16. list \in [Lists -> Structure \cup {NoList}]
  <2>1. list[l] \in Structure \cup {NoList} /\ list[k] \in Structure \cup {NoList}
    BY <1>6, <1>14, <1>15, IsListIn
  <2>2. list = [i \in Lists |-> list[i]]
    BY <1>2 DEF MovedTo
  <2>3. Lists = {l, k}
    BY <1>1 DEF Lists
  <2> HIDE DEF list
  <2> QED BY <2>1, <2>2, <2>3
<1> HIDE DEF list
<1>17. o \in Memory
  <2>1. Made(o, m.live, m.data, prev, next, list)
    BY DEF list
  <2> QED BY <1>2, <1>5, <1>16, <2>1, MadeMemory
<1>18. Seg(o, s, NULL, f)
  <2>1. \A x \in Nodes(s) : /\ o.next[x] = IF x = LastOf(s, NULL) THEN f ELSE m.next[x]
                            /\ o.prev[x] = IF x = FirstOf(s, q) THEN NULL ELSE m.prev[x]
    <3> SUFFICES ASSUME NEW x \in Nodes(s)
                 PROVE  /\ o.next[x] = IF x = LastOf(s, NULL) THEN f ELSE m.next[x]
                        /\ o.prev[x] = IF x = FirstOf(s, q) THEN NULL ELSE m.prev[x]
      OBVIOUS
    <3>1. x \in Node /\ x # q /\ x # f /\ x # b
      BY <1>1, <1>3, <1>4
    <3>2. o.next[x] = IF x = p THEN f ELSE m.next[x]
      BY <1>5, <1>10, <3>1
    <3>3. o.prev[x] = m.prev[x]
      BY <1>5, <1>10, <3>1
    <3>4. x = FirstOf(s, q) => m.prev[x] = NULL
      <4>1. s # <<>>
        BY EmptyIs
      <4> QED BY <1>3, <4>1, SegEnds
    <3> QED BY <3>2, <3>3, <3>4 DEF p
  <2> QED BY <1>3, <2>1, SegRelink
<1>19. Seg(o, d, p, q)
  <2>1. \A x \in Nodes(d) : /\ o.next[x] = IF x = LastOf(d, NULL) THEN q ELSE m.next[x]
                            /\ o.prev[x] = IF x = FirstOf(d, NULL) THEN p ELSE m.prev[x]
    <3> SUFFICES ASSUME NEW x \in Nodes(d)
                 PROVE  /\ o.next[x] = IF x = LastOf(d, NULL) THEN q ELSE m.next[x]
                        /\ o.prev[x] = IF x = FirstOf(d, NULL) THEN p ELSE m.prev[x]
      OBVIOUS
    <3>1. x \in Node /\ x # q /\ x # p
      BY <1>1, <1>3, <1>4
    <3>2. o.next[x] = IF x = b THEN q ELSE m.next[x]
      BY <1>5, <1>10, <3>1
    <3>3. o.prev[x] = IF x = f THEN p ELSE m.prev[x]
      BY <1>5, <1>10, <3>1
    <3> QED BY <3>2, <3>3 DEF f, b
  <2> QED BY <1>1, <2>1, SegRelink
<1>20. Seg(o, t, b, NULL)
  <2>1. \A x \in Nodes(t) : /\ o.next[x] = IF x = LastOf(t, p) THEN NULL ELSE m.next[x]
                            /\ o.prev[x] = IF x = FirstOf(t, NULL) THEN b ELSE m.prev[x]
    <3> SUFFICES ASSUME NEW x \in Nodes(t)
                 PROVE  /\ o.next[x] = IF x = LastOf(t, p) THEN NULL ELSE m.next[x]
                        /\ o.prev[x] = IF x = FirstOf(t, NULL) THEN b ELSE m.prev[x]
      OBVIOUS
    <3>1. x \in Node /\ x # p /\ x # f /\ x # b
      BY <1>1, <1>3, <1>4
    <3>2. o.next[x] = m.next[x]
      BY <1>5, <1>10, <3>1
    <3>3. o.prev[x] = IF x = q THEN b ELSE m.prev[x]
      BY <1>5, <1>10, <3>1
    <3>4. x = LastOf(t, p) => m.next[x] = NULL
      <4>1. t # <<>>
        BY EmptyIs
      <4> QED BY <1>3, <4>1, SegEnds
    <3> QED BY <3>2, <3>3, <3>4 DEF q
  <2> QED BY <1>3, <2>1, SegRelink
<1>21. Seg(o, e, NULL, NULL)
  <2> DEFINE g == s \o d
  <2>1. FirstOf(d, q) = f /\ LastOf(d, p) = b
    BY <1>1, EndsSame DEF f, b
  <2>2. Seg(o, g, NULL, q) <=> Seg(o, s, NULL, FirstOf(d, q)) /\ Seg(o, d, LastOf(s, NULL), q)
    BY <1>1, SegConcat
  <2>3. LastOf(g, NULL) = b
    <3>1. LastOf(g, NULL) = LastOf(d, LastOf(s, NULL))
      BY <1>1, EndsConcat
    <3> QED BY <2>1, <3>1 DEF p
  <2>4. g \in Seq(Node) /\ e = g \o t
    BY <1>6 DEF e
  <2> HIDE DEF g
  <2>5. Seg(o, g, NULL, q)
    BY <1>18, <1>19, <2>1, <2>2 DEF p
  <2>6. Seg(o, g \o t, NULL, NULL) <=> Seg(o, g, NULL, FirstOf(t, NULL)) /\ Seg(o, t, LastOf(g, NULL), NULL)
    BY <2>4, SegConcat
  <2> QED BY <1>20, <2>3, <2>4, <2>5, <2>6 DEF q
<1>22. Nodes(e) \cap Nodes(z) = {} /\ o.live = Nodes(e) \cup Nodes(z)
  BY <1>1, <1>3, <1>7, <1>10, <1>14
<1>23. \A x \in o.live : o.data[x] \in Value
  BY <1>1, <1>10
<1>24. IsList(o.list[l], e) /\ IsList(o.list[k], z) /\ Seg(o, z, NULL, NULL)
  BY <1>10, <1>14, <1>15
<1>25. Rep(o, l, e, k, z)
  BY <1>1, <1>6, <1>8, <1>14, <1>17, <1>21, <1>22, <1>23, <1>24, RepIntro
<1>26. SameLists(m, o, l, k)
  BY <1>10, <1>15 DEF SameLists, SameData, Has
<1> QED BY <1>25, <1>26 DEF e, z

(* size counts the nodes.                                                  *)
LEMMA SizeIs ==
  ASSUME NEW m, NEW l, NEW c, NEW k, NEW d, Rep(m, l, c, k, d), Has(m, l)
  PROVE  m.list[l].size = Len(c) /\ (m.list[l].size = 0 <=> c = <<>>)
<1>1. Holds(m, l, c) /\ m.list[l].exists /\ c \in Seq(Node)
  BY DEF Rep, Has
<1> QED BY <1>1, LivesIs, NodesIn

(* The structures after concat or splice.                                  *)
LEMMA MovedMade ==
  ASSUME NEW m \in Memory, NEW l \in Lists, NEW k \in Lists, l # k, NEW w, w = Emptied(m, k), NEW st
  PROVE  /\ Made(w, m.live, m.data, m.prev, m.next, [m.list EXCEPT ![k] = EmptyList(m.list[k].copy)])
         /\ [m.list EXCEPT ![k] = EmptyList(m.list[k].copy)] \in [Lists -> Structure \cup {NoList, EmptyList(m.list[k].copy)}]
         /\ [m.list EXCEPT ![k] = EmptyList(m.list[k].copy)][l] = m.list[l]
<1> DEFINE st1 == EmptyList(m.list[k].copy)
<1>1. w = [m EXCEPT !.list[k] = st1]
  BY DEF Emptied
<1>2. Made(m, m.live, m.data, m.prev, m.next, m.list)
  BY MemoryMade
<1>3. m.list \in [Lists -> Structure \cup {NoList}]
  BY MemoryIs
<1> HIDE DEF st1
<1>4. Made(w, m.live, m.data, m.prev, m.next, [m.list EXCEPT ![k] = st1])
  BY <1>1, <1>2, Restructured
<1>5. [m.list EXCEPT ![k] = st1] \in [Lists -> Structure \cup {NoList, st1}] /\ [m.list EXCEPT ![k] = st1][l] = m.list[l]
  BY <1>3
<1> QED BY <1>4, <1>5 DEF st1

(* concat moves the nodes to the end.                                      *)
LEMMA ConcatOpIs ==
  ASSUME NEW m, NEW l, NEW c, NEW k, NEW d, Rep(m, l, c, k, d), Has(m, l), Has(m, k),
         SamePolicy(m, l, k)
  PROVE  Rep(concat(m, l, k), l, c \o d, k, <<>>) /\ SameLists(m, concat(m, l, k), l, k)
<1> DEFINE o == concat(m, l, k)
           st == m.list[l]
           sk == m.list[k]
           copies == st.copy
           z == <<>>
           w == Emptied(m, k)
           list == [m.list EXCEPT ![k] = EmptyList(m.list[k].copy)]
<1>1. /\ m \in Memory /\ l \in Lists /\ k \in Lists /\ l # k /\ c \in Seq(Node) /\ d \in Seq(Node)
      /\ Seg(m, c, NULL, NULL) /\ Seg(m, d, NULL, NULL) /\ Nodes(c) \cap Nodes(d) = {}
  BY RepElim
<1>2. /\ m.live \in SUBSET Node /\ m.data \in [Node -> Cell] /\ m.list \in [Lists -> Structure \cup {NoList}]
      /\ m.prev \in [Node -> Ptr] /\ m.next \in [Node -> Ptr]
  BY <1>1, MemoryIs
<1>3. /\ Fields(st, FirstOf(c, NULL), LastOf(c, NULL), Len(c), copies)
      /\ Fields(sk, FirstOf(d, NULL), LastOf(d, NULL), Len(d), sk.copy)
      /\ st.head = FirstOf(c, NULL) /\ st.tail = LastOf(c, NULL) /\ st.size = Len(c)
      /\ sk.head = FirstOf(d, NULL) /\ sk.tail = LastOf(d, NULL) /\ sk.size = Len(d)
      /\ Len(c) \in Nat /\ Len(d) \in Nat
  <2>1. Holds(m, l, c) /\ Holds(m, k, d) /\ st.exists /\ sk.exists
    BY DEF Rep, Has
  <2>2. st = ListOf(c, copies) /\ sk = ListOf(d, sk.copy)
    BY <2>1, LivesIs
  <2>3. Len(c) \in Nat /\ Len(d) \in Nat
    BY <1>1, NodesIn
  <2> HIDE DEF st, sk, copies
  <2>4. Fields(st, FirstOf(c, NULL), LastOf(c, NULL), Len(c), copies) /\ Fields(sk, FirstOf(d, NULL), LastOf(d, NULL), Len(d), sk.copy)
    BY <2>2, ListOfFields
  <2> QED BY <2>3, <2>4 DEF Fields
<1>4. /\ z \in Seq(Node) /\ c \o z = c /\ (c \o d) \o z = c \o d
      /\ \A x : FirstOf(z, x) = x /\ LastOf(z, x) = x
  BY <1>1, EmptyIs
<1>5. Len(z) = 0
  OBVIOUS
<1>6. (c = <<>> <=> Len(c) = 0) /\ (d = <<>> <=> Len(d) = 0)
  BY <1>1, NodesIn
<1>7. /\ Made(w, m.live, m.data, m.prev, m.next, list)
      /\ list \in [Lists -> Structure \cup {NoList, EmptyList(m.list[k].copy)}] /\ list[l] = st
  BY <1>1, MovedMade
<1>8. CASE d = <<>>
  <2>1. o = m
    BY <1>3, <1>6, <1>8 DEF concat
  <2>2. c \o d = c
    BY <1>1, <1>8
  <2>3. SameLists(m, m, l, k)
    BY DEF SameLists, SameData
  <2> QED BY <1>8, <2>1, <2>2, <2>3
<1>9. CASE d # <<>>
  <2> DEFINE f == FirstOf(d, NULL)
             b == LastOf(d, NULL)
             p == LastOf(c, NULL)
  <2>1. f \in Nodes(d) /\ b \in Nodes(d) /\ f \in Node /\ b \in Node /\ NULL \notin Node
    BY <1>1, <1>9, EndsAreNodes, NodesIn, NullIsNoNode
  <2>2. /\ \A x : FirstOf(d, x) = f
        /\ m.prev[f] = NULL /\ m.next[b] = NULL
    BY <1>1, <1>9, EndsSame, SegEnds
  <2>3. \E prev, next, st1 :
            /\ LongerBy(m, l, c, d, z, st1) /\ Joins(m, prev, next, c, d, z)
            /\ Made(o, m.live, m.data, prev, next, MovedTo(m, l, k, st1))
    <3>1. CASE c = <<>>
      <4> DEFINE st1 == [st EXCEPT !.head = f, !.tail = b, !.size = Len(c) + Len(d)]
      <4>1. o = [w EXCEPT !.list[l].head = f, !.list[l].tail = b, !.list[l].size = Len(c) + Len(d)]
        <5>1. o = [w EXCEPT !.list[l].head = sk.head, !.list[l].tail = sk.tail, !.list[l].size = @ + sk.size]
          BY <1>3, <1>6, <1>9, <3>1 DEF concat
        <5>2. w.list[l].size = Len(c)
          <6>1. w.list = list
            BY <1>7, MadeIs
          <6>2. w.list[l] = st
            <7> HIDE DEF w, list, st
            <7> QED BY <6>1, <1>7
          <6> QED BY <6>2, <1>3
        <5> HIDE DEF w, o
        <5> QED BY <1>3, <5>1, <5>2
      <4>2. Made(o, m.live, m.data, m.prev, m.next, [list EXCEPT ![l] = st1])
        <5>1. [list EXCEPT ![l].head = f, ![l].tail = b, ![l].size = Len(c) + Len(d)] = [list EXCEPT ![l] = st1]
          <6> HIDE DEF list, f, b, st
          <6> QED BY <1>1, <1>7
        <5>2. w.list = list
          BY <1>7, MadeIs
        <5>3. o = [w EXCEPT !.list = [list EXCEPT ![l] = st1]]
          <6> HIDE DEF o, w, st1, f, b, list
          <6> QED BY <4>1, <5>1, <5>2
        <5> HIDE DEF o, w, st1, f, b, list
        <5> QED BY <1>7, <5>3 DEF Made
      <4>3. LongerBy(m, l, c, d, z, st1)
        <5>1. st1 = [st EXCEPT !.head = f, !.tail = b, !.size = Len(c) + Len(d)]
          OBVIOUS
        <5>2. /\ FirstOf(c, f) = f /\ LastOf(z, b) = b
              /\ (Len(c) + Len(z)) + Len(d) = Len(c) + Len(d)
          BY <1>3, <1>4, <3>1
        <5> HIDE DEF st, st1, f, b, copies, z
        <5>3. Fields(st1, f, b, Len(c) + Len(d), copies)
          BY <1>3, <5>1 DEF Fields
        <5> QED BY <5>2, <5>3 DEF LongerBy, f, b, copies, st
      <4>4. Joins(m, m.prev, m.next, c, d, z)
        <5>1. p = NULL /\ FirstOf(z, NULL) = NULL
          BY <1>4, <3>1
        <5> HIDE DEF p, z
        <5> QED BY <1>2, <2>1, <2>2, <5>1 DEF Joins, f, b, p
      <4>5. [list EXCEPT ![l] = st1] = MovedTo(m, l, k, st1)
        BY DEF MovedTo
      <4> HIDE DEF st1, o, list, z
      <4>6. Made(o, m.live, m.data, m.prev, m.next, MovedTo(m, l, k, st1))
        BY <4>2, <4>5
      <4> QED BY <4>3, <4>4, <4>6
    <3>2. CASE c # <<>>
      <4> DEFINE st1 == [st EXCEPT !.tail = b, !.size = Len(c) + Len(d)]
                 prev == [m.prev EXCEPT ![f] = p]
                 next == [m.next EXCEPT ![p] = f]
      <4>0. p \in Nodes(c) /\ p \in Node /\ p # b /\ p # f
        BY <1>1, <2>1, <3>2, EndsAreNodes, NodesIn
      <4>1. o = [w EXCEPT !.next[p] = f, !.prev[f] = p, !.list[l].tail = b, !.list[l].size = Len(c) + Len(d)]
        <5>1. o = [w EXCEPT !.next[st.tail] = sk.head, !.prev[sk.head] = st.tail,
                            !.list[l].tail = sk.tail, !.list[l].size = @ + sk.size]
          BY <1>3, <1>6, <1>9, <3>2 DEF concat
        <5>2. w.list[l].size = Len(c)
          <6>1. w.list = list
            BY <1>7, MadeIs
          <6>2. w.list[l] = st
            <7> HIDE DEF w, list, st
            <7> QED BY <6>1, <1>7
          <6> QED BY <6>2, <1>3
        <5> HIDE DEF w, o
        <5> QED BY <1>3, <5>1, <5>2
      <4>2. Made(o, m.live, m.data, prev, next, [list EXCEPT ![l] = st1])
        <5>1. [list EXCEPT ![l].tail = b, ![l].size = Len(c) + Len(d)] = [list EXCEPT ![l] = st1]
          <6> HIDE DEF list, f, b, st
          <6> QED BY <1>1, <1>7
        <5>2. w.list = list /\ w.prev = m.prev /\ w.next = m.next
          BY <1>7, MadeIs
        <5>3. o = [w EXCEPT !.next = next, !.prev = prev, !.list = [list EXCEPT ![l] = st1]]
          <6>1. o = [w EXCEPT !.next = [w.next EXCEPT ![p] = f], !.prev = [w.prev EXCEPT ![f] = p],
                              !.list = [w.list EXCEPT ![l].tail = b, ![l].size = Len(c) + Len(d)]]
            <7> HIDE DEF o, w, st1, f, b, list, p
            <7> QED BY <4>1
          <6> HIDE DEF o, w, st1, f, b, list, p
          <6> QED BY <5>1, <5>2, <6>1
        <5> HIDE DEF o, w, st1, f, b, list, prev, next
        <5> QED BY <1>7, <5>3 DEF Made
      <4>3. LongerBy(m, l, c, d, z, st1)
        <5>1. st1 = [st EXCEPT !.tail = b, !.size = Len(c) + Len(d)]
          OBVIOUS
        <5>2. /\ LastOf(z, b) = b /\ (Len(c) + Len(z)) + Len(d) = Len(c) + Len(d)
          BY <1>3, <1>4
        <5>2a. FirstOf(c, f) = FirstOf(c, NULL)
          BY <1>1, <3>2, EndsSame
        <5> HIDE DEF st, st1, f, b, copies, z
        <5>3. Fields(st1, FirstOf(c, NULL), b, Len(c) + Len(d), copies)
          BY <1>3, <5>1 DEF Fields
        <5> QED BY <5>2, <5>2a, <5>3 DEF LongerBy, f, b, copies, st
      <4>4. Joins(m, prev, next, c, d, z)
        <5>1. FirstOf(z, NULL) = NULL
          BY <1>4
        <5>2. prev \in [Node -> Ptr] /\ next \in [Node -> Ptr]
          BY <1>2, <2>1, <4>0 DEF Ptr
        <5>3. \A x \in Node : prev[x] = IF x = f THEN p ELSE m.prev[x]
          BY <1>2
        <5>4. \A x \in Node : next[x] = IF x = p THEN f ELSE m.next[x]
          BY <1>2
        <5> HIDE DEF p, z, f, b, prev, next
        <5> QED BY <2>1, <2>2, <4>0, <5>1, <5>2, <5>3, <5>4 DEF Joins, f, b, p
      <4>5. [list EXCEPT ![l] = st1] = MovedTo(m, l, k, st1)
        BY DEF MovedTo
      <4> HIDE DEF st1, o, list, z, prev, next
      <4>6. Made(o, m.live, m.data, prev, next, MovedTo(m, l, k, st1))
        BY <4>2, <4>5
      <4> QED BY <4>3, <4>4, <4>6
    <3> QED BY <3>1, <3>2
  <2>4. Rep(m, l, c \o z, k, d)
    BY <1>4
  <2> HIDE DEF o, z
  <2>5. Rep(o, l, (c \o d) \o z, k, <<>>) /\ SameLists(m, o, l, k)
    BY <1>1, <1>4, <1>9, <2>3, <2>4, Moved
  <2>6. (c \o d) \o z = c \o d
    BY <1>4
  <2>7. Rep(o, l, c \o d, k, <<>>)
    BY <2>5, <2>6
  <2>8. SameLists(m, o, l, k)
    BY <2>5
  <2> QED BY <2>7, <2>8 DEF o
<1> QED BY <1>8, <1>9

(* splice_before at a node x of the list, with nodes to move.              *)
LEMMA SpliceMade ==
  ASSUME NEW m, NEW l, NEW s \in Seq(Node), NEW x \in Node, NEW t \in Seq(Node), NEW k, NEW d,
         Rep(m, l, Glue(s, x, t), k, d), Has(m, l), Has(m, k), SamePolicy(m, l, k), d # <<>>
  PROVE  /\ Rep(splice_before(m, l, x, k), l, (s \o d) \o (<<x>> \o t), k, <<>>)
         /\ SameLists(m, splice_before(m, l, x, k), l, k)
<1> DEFINE o == splice_before(m, l, x, k)
           c == Glue(s, x, t)
           st == m.list[l]
           sk == m.list[k]
           copies == st.copy
           b == <<x>> \o t
           w == Emptied(m, k)
           list == [m.list EXCEPT ![k] = EmptyList(m.list[k].copy)]
           y == m.prev[x]
           f == FirstOf(d, NULL)
           e == LastOf(d, NULL)
           st1 == [st EXCEPT !.head = IF y = NULL THEN f ELSE @, !.size = @ + Len(d)]
           prev == Set(Set(m.prev, f, y), x, e)
           next == Set(Set(m.next, y, f), e, x)
<1>0. c = s \o b /\ b \in Seq(Node) /\ c \in Seq(Node)
  <2>1. Glue(s, x, t) = s \o b
    BY DEF Glue
  <2>2. b \in Seq(Node)
    BY GlueAround
  <2>3. Glue(s, x, t) \in Seq(Node)
    BY GlueNodes
  <2> QED BY <2>1, <2>2, <2>3
<1>1. /\ m \in Memory /\ l \in Lists /\ k \in Lists /\ l # k /\ d \in Seq(Node)
      /\ Seg(m, d, NULL, NULL) /\ Nodes(c) \cap Nodes(d) = {} /\ Holds(m, k, d) /\ sk.exists
  BY RepElim DEF Rep, Has
<1>2. /\ m.live \in SUBSET Node /\ m.data \in [Node -> Cell] /\ m.list \in [Lists -> Structure \cup {NoList}]
      /\ m.prev \in [Node -> Ptr] /\ m.next \in [Node -> Ptr]
  BY <1>1, MemoryIs
<1>3. /\ y = LastOf(s, NULL)
      /\ Fields(st, FirstOf(s, x), LastOf(t, x), (Len(s) + Len(t)) + 1, copies)
      /\ s = <<>> <=> y = NULL
      /\ y \in Nodes(s) \cup {NULL} /\ x \notin Nodes(s)
  <2>1. Around(m, l, s, x, t)
    BY PosFacts
  <2> QED BY <2>1 DEF Around
<1>4. sk.head = f /\ sk.tail = e /\ sk.size = Len(d) /\ Len(d) # 0 /\ Len(d) \in Nat
  <2>1. sk.head = f /\ sk.tail = e /\ sk.size = Len(d)
    BY <1>1, LivesIs
  <2>2. Len(d) # 0 /\ Len(d) \in Nat
    BY <1>1, NodesIn
  <2> QED BY <2>1, <2>2
<1>5. /\ f \in Nodes(d) /\ e \in Nodes(d) /\ f \in Node /\ e \in Node /\ NULL \notin Node
      /\ x \in Nodes(c) /\ Nodes(s) \subseteq Nodes(c)
  <2>1. f \in Nodes(d) /\ e \in Nodes(d)
    <3>1. d # <<>>
      OBVIOUS
    <3> QED BY <1>1, <3>1, EndsAreNodes
  <2>2. Nodes(d) \subseteq Node
    BY <1>1, NodesIn
  <2>3. Nodes(Glue(s, x, t)) = Nodes(s) \cup {x} \cup Nodes(t)
    BY GlueNodes
  <2> HIDE DEF f, e
  <2> QED BY <2>1, <2>2, <2>3, NullIsNoNode
<1>6. x # NULL /\ x # f /\ x # e /\ y # f /\ y # e /\ y # x /\ y \in Ptr
  <2> HIDE DEF c, f, e, y
  <2> QED BY <1>1, <1>3, <1>5, NodesIn DEF Ptr
<1>7. IsIn(m, l, x)
  BY <1>5, IsInIs
<1>8. /\ Made(w, m.live, m.data, m.prev, m.next, list)
      /\ list \in [Lists -> Structure \cup {NoList, EmptyList(m.list[k].copy)}] /\ list[l] = st
  <2>1. m \in Memory /\ l \in Lists /\ k \in Lists /\ l # k
    BY <1>1
  <2> QED BY <2>1, MovedMade
<1>9. o = [w EXCEPT !.next = Set(Set(@, y, f), e, x), !.prev = Set(Set(@, f, y), x, e),
                    !.list[l].head = IF y = NULL THEN f ELSE @, !.list[l].size = @ + Len(d)]
  <2>1. ~(~SamePolicy(m, l, k) \/ sk.size = 0 \/ ~IsIn(m, l, x))
    BY <1>4, <1>7
  <2>2. o = [w EXCEPT !.next = Set(Set(@, y, sk.head), sk.tail, x),
                      !.prev = Set(Set(@, sk.head, y), x, sk.tail),
                      !.list[l].head = IF y = NULL THEN sk.head ELSE @, !.list[l].size = @ + sk.size]
    BY <1>6, <2>1 DEF splice_before
  <2> HIDE DEF o, w, sk, f, e
  <2> QED BY <1>4, <2>2
<1>10. Made(o, m.live, m.data, prev, next, [list EXCEPT ![l] = st1])
  <2>1. w.list = list /\ w.prev = m.prev /\ w.next = m.next
    BY <1>8, MadeIs
  <2>2. [list EXCEPT ![l].head = IF y = NULL THEN f ELSE @, ![l].size = @ + Len(d)] = [list EXCEPT ![l] = st1]
    <3> HIDE DEF list, f, y, st
    <3> QED BY <1>1, <1>8
  <2>3. o = [w EXCEPT !.next = Set(Set(w.next, y, f), e, x), !.prev = Set(Set(w.prev, f, y), x, e),
                      !.list = [w.list EXCEPT ![l].head = IF y = NULL THEN f ELSE @, ![l].size = @ + Len(d)]]
    <3> HIDE DEF o, w, f, e, y, list
    <3> QED BY <1>9
  <2>4. o = [w EXCEPT !.next = next, !.prev = prev, !.list = [list EXCEPT ![l] = st1]]
    <3> HIDE DEF o, w, f, e, y, list, st1
    <3> QED BY <2>1, <2>2, <2>3
  <2> HIDE DEF o, w, f, e, y, list, st1, prev, next
  <2> QED BY <1>8, <2>4 DEF Made
<1>11. FirstOf(b, NULL) = x /\ \A z : LastOf(b, z) = LastOf(t, x)
  <2> DEFINE u == <<x>>
  <2>1. u \in Seq(Node) /\ Len(u) = 1 /\ \A z : FirstOf(u, z) = x /\ LastOf(u, z) = x
    BY OneIs
  <2> HIDE DEF u
  <2>2. \A z : FirstOf(u \o t, z) = FirstOf(u, FirstOf(t, z)) /\ LastOf(u \o t, z) = LastOf(t, LastOf(u, z))
    BY <2>1, EndsConcat
  <2> QED BY <2>1, <2>2 DEF u
<1>12. Len(b) = Len(t) + 1 /\ Len(s) \in Nat /\ Len(t) \in Nat
  <2>1. Len(s) \in Nat /\ Len(t) \in Nat
    BY NodesIn
  <2>2. Len(<<x>> \o t) = Len(<<x>>) + Len(t) /\ Len(<<x>>) = 1
    BY ConcatIs, OneIs
  <2> QED BY <2>1, <2>2
<1>13. LongerBy(m, l, s, d, b, st1)
  <2>1. FirstOf(s, f) = IF y = NULL THEN f ELSE FirstOf(s, x)
    <3>1. s = <<>> => FirstOf(s, f) = f
      BY EmptyIs
    <3>2. s # <<>> => FirstOf(s, f) = FirstOf(s, x)
      BY EndsSame
    <3> HIDE DEF f, y
    <3> QED BY <1>3, <3>1, <3>2
  <2>2. LastOf(b, e) = LastOf(t, x)
    BY <1>11
  <2>3. (Len(s) + Len(b)) + Len(d) = ((Len(s) + Len(t)) + 1) + Len(d)
    BY <1>4, <1>12
  <2>4. st1 = [st EXCEPT !.head = IF y = NULL THEN f ELSE @, !.size = @ + Len(d)]
    OBVIOUS
  <2> HIDE DEF st, st1, f, e, y, copies, b
  <2>5. Fields(st1, IF y = NULL THEN f ELSE FirstOf(s, x), LastOf(t, x), ((Len(s) + Len(t)) + 1) + Len(d), copies)
    BY <1>3, <2>4 DEF Fields
  <2> QED BY <2>1, <2>2, <2>3, <2>5 DEF LongerBy, f, e, copies, st
<1>14. Joins(m, prev, next, s, d, b)
  <2>1. prev \in [Node -> Ptr] /\ next \in [Node -> Ptr]
    <3> HIDE DEF f, e, y
    <3> QED BY <1>2, <1>5, <1>6 DEF Ptr, Set
  <2>2. \A z \in Node : prev[z] = IF z = x THEN e ELSE IF z = f THEN y ELSE m.prev[z]
    <3> HIDE DEF f, e, y
    <3> QED BY DEF Set
  <2>3. \A z \in Node : next[z] = IF z = e THEN x ELSE IF z = y THEN f ELSE m.next[z]
    <3> HIDE DEF f, e, y
    <3> QED BY DEF Set
  <2>4. y = LastOf(s, NULL) /\ FirstOf(b, NULL) = x
    BY <1>3, <1>11
  <2> HIDE DEF y, prev, next, b
  <2> QED BY <2>1, <2>2, <2>3, <2>4 DEF Joins
<1>15. [list EXCEPT ![l] = st1] = MovedTo(m, l, k, st1)
  BY DEF MovedTo
<1>16. Rep(m, l, s \o b, k, d)
  BY <1>0
<1> HIDE DEF st1, o, list, prev, next, b, c
<1>17. Made(o, m.live, m.data, prev, next, MovedTo(m, l, k, st1))
  BY <1>10, <1>15
<1>18. Rep(o, l, (s \o d) \o b, k, <<>>) /\ SameLists(m, o, l, k)
  BY <1>0, <1>13, <1>14, <1>16, <1>17, Moved
<1> QED BY <1>18 DEF o, b

(* splice_before moves the nodes, or leaves the memory as it is.           *)
LEMMA SpliceIs ==
  ASSUME NEW m, NEW l, NEW c, NEW k, NEW d, Rep(m, l, c, k, d), Has(m, l), Has(m, k), NEW x
  PROVE  \/ splice_before(m, l, x, k) = m
         \/ \E e, f \in Seq(Node) : Rep(splice_before(m, l, x, k), l, e, k, f)
<1>1. c \in Seq(Node) /\ d \in Seq(Node) /\ Holds(m, k, d) /\ m.list[k].exists
  BY RepElim DEF Rep, Has
<1>2. m.list[k].size = Len(d)
  BY <1>1, LivesIs
<1>3. CASE x = NULL
  <2>1. splice_before(m, l, x, k) = concat(m, l, k)
    BY <1>3 DEF splice_before
  <2>2. ~SamePolicy(m, l, k) => concat(m, l, k) = m
    BY DEF concat
  <2>3. ASSUME SamePolicy(m, l, k) PROVE \E e, f \in Seq(Node) : Rep(concat(m, l, k), l, e, k, f)
    <3>1. Rep(concat(m, l, k), l, c \o d, k, <<>>)
      BY <2>3, ConcatOpIs
    <3>2. c \o d \in Seq(Node)
      BY <1>1
    <3>3. <<>> \in Seq(Node)
      OBVIOUS
    <3> QED BY <3>1, <3>2, <3>3
  <2> QED BY <2>1, <2>2, <2>3
<1>4. CASE x # NULL /\ (~SamePolicy(m, l, k) \/ d = <<>> \/ ~IsIn(m, l, x))
  <2>1. d = <<>> => m.list[k].size = 0
    BY <1>1, <1>2, NodesIn
  <2> QED BY <1>4, <2>1 DEF splice_before
<1>5. CASE x # NULL /\ SamePolicy(m, l, k) /\ d # <<>> /\ IsIn(m, l, x)
  <2>1. x \in Nodes(c)
    BY <1>5, IsInIs
  <2>2. PICK s \in Seq(Node), t \in Seq(Node) : c = Glue(s, x, t) /\ x \in Node
    BY <1>1, <2>1, CutAtNode
  <2>3. Rep(splice_before(m, l, x, k), l, (s \o d) \o (<<x>> \o t), k, <<>>)
    BY <1>5, <2>2, SpliceMade
  <2>4. (s \o d) \o (<<x>> \o t) \in Seq(Node)
    BY <1>1, <2>2
  <2>5. <<>> \in Seq(Node)
    OBVIOUS
  <2> QED BY <2>3, <2>4, <2>5
<1> QED BY <1>3, <1>4, <1>5

(* A node of the list is taken out of it; any other call changes nothing.  *)
LEMMA EraseIs ==
  ASSUME NEW m, NEW l, NEW c, NEW k, NEW d, Rep(m, l, c, k, d), Has(m, l), NEW x
  PROVE  Has(erase(m, l, x), l) /\ \E e \in Seq(Node) : Rep(erase(m, l, x), l, e, k, d)
<1>1. c \in Seq(Node)
  BY RepElim
<1>2. CASE x \in Nodes(c)
  <2>1. PICK s \in Seq(Node), t \in Seq(Node) : c = Glue(s, x, t) /\ x \in Node
    BY <1>1, <1>2, CutAtNode
  <2>2. Rep(m, l, Glue(s, x, t), k, d) /\ x \in Node
    BY <2>1
  <2>3. Removes(m, erase(m, l, x), l, s, x, t)
    BY <2>2, EraseMade
  <2>4. Rep(erase(m, l, x), l, s \o t, k, d)
    BY <2>2, <2>3, Unlinked
  <2>5. Keeps(m, erase(m, l, x), l, k)
    BY <2>2, <2>3, Unlinked
  <2>6. s \o t \in Seq(Node)
    OBVIOUS
  <2>7. Has(erase(m, l, x), l)
    BY <2>5 DEF Keeps
  <2> QED BY <2>4, <2>6, <2>7
<1>3. CASE x \notin Nodes(c)
  <2>1. ~IsIn(m, l, x)
    BY <1>3, IsInIs
  <2>2. erase(m, l, x) = m
    BY <2>1 DEF erase
  <2> QED BY <1>1, <2>2
<1> QED BY <1>2, <1>3

(* The recursive function of remove_if.                                    *)
Sweeps(f, m, l, c, v, n) ==
    f = [i \in 0..n |-> IF i = 0 THEN m ELSE IF Key[f[i - 1].data[c[i]]] = v THEN erase(f[i - 1], l, c[i]) ELSE f[i - 1]]

(* It exists.                                                              *)
LEMMA SweepExists ==
  ASSUME NEW m, NEW l, NEW c, NEW v
  PROVE  \A n \in Nat : \E f : Sweeps(f, m, l, c, v, n)
<1> DEFINE P == {n \in Nat : \E f : Sweeps(f, m, l, c, v, n)}
           By(was, i) == IF i = 0 THEN m ELSE IF Key[was.data[c[i]]] = v THEN erase(was, l, c[i]) ELSE was
<1>0. \A x, y : By(x, 0) = By(y, 0)
  OBVIOUS
<1>1. 0 \in P
  <2> DEFINE f == [i \in 0..0 |-> By(<<>>, 0)]
  <2>1. \A i \in 0..0 : i = 0 /\ f[i] = By(f[i - 1], i)
    <3> HIDE DEF By
    <3> QED BY <1>0
  <2>2. f = [i \in 0..0 |-> By(f[i - 1], i)]
    <3> HIDE DEF By
    <3> QED BY <2>1
  <2>3. Sweeps(f, m, l, c, v, 0)
    BY <2>2, Zenon DEF Sweeps
  <2> HIDE DEF f
  <2> QED BY <2>3
<1>2. \A n \in Nat : n \in P => n + 1 \in P
  <2> SUFFICES ASSUME NEW n \in Nat, n \in P PROVE n + 1 \in P
    OBVIOUS
  <2>1. PICK g : Sweeps(g, m, l, c, v, n)
    OBVIOUS
  <2> DEFINE f == [i \in 0..(n + 1) |-> IF i <= n THEN g[i] ELSE By(g[n], n + 1)]
  <2>2. \A i \in 0..n : g[i] = By(g[i - 1], i)
    <3>1. g = [i \in 0..n |-> By(g[i - 1], i)]
      BY <2>1, Zenon DEF Sweeps
    <3> HIDE DEF By
    <3> QED BY <3>1
  <2> HIDE DEF P, By
  <2>3. \A i \in 0..(n + 1) : f[i] = By(f[i - 1], i)
    <3> SUFFICES ASSUME NEW i \in 0..(n + 1) PROVE f[i] = By(f[i - 1], i)
      OBVIOUS
    <3>1. CASE i = 0 /\ i <= n
      <4>1. i \in 0..n
        BY <3>1
      <4>2. f[i] = g[i]
        BY <3>1
      <4> HIDE DEF f
      <4> QED BY <1>0, <2>2, <3>1, <4>1, <4>2
    <3>2. CASE i # 0 /\ i <= n
      <4>1. i \in 0..n /\ i - 1 \in 0..(n + 1) /\ i - 1 <= n
        BY <3>2
      <4> QED BY <2>2, <3>2, <4>1
    <3>3. CASE i = n + 1 /\ n \in 0..(n + 1)
      <4>1. i - 1 = n /\ n <= n /\ ~(n + 1 <= n)
        BY <3>3
      <4> QED BY <3>3, <4>1
    <3>4. CASE i = n + 1 /\ n + 1 = 0
      <4>1. ~(n + 1 <= n)
        OBVIOUS
      <4>2. f[i] = By(g[n], 0) /\ i = 0
        BY <3>4, <4>1
      <4> HIDE DEF f
      <4> QED BY <1>0, <4>2
    <3> QED BY <3>1, <3>2, <3>3, <3>4
  <2>4. f = [i \in 0..(n + 1) |-> By(f[i - 1], i)]
    BY <2>3
  <2>5. Sweeps(f, m, l, c, v, n + 1)
    BY <2>4, Zenon DEF Sweeps, By
  <2> HIDE DEF f
  <2> QED BY <2>5 DEF P
<1> HIDE DEF P
<1>3. \A n \in Nat : n \in P
  BY <1>1, <1>2, NatInd
<1> QED BY <1>3 DEF P

(* remove_if leaves a list.                                                *)
LEMMA RemoveIfIs ==
  ASSUME NEW m, NEW l, NEW c, NEW k, NEW d, Rep(m, l, c, k, d), Has(m, l), NEW v
  PROVE  Has(remove_if(m, l, v), l) /\ \E e \in Seq(Node) : Rep(remove_if(m, l, v), l, e, k, d)
<1>1. c \in Seq(Node) /\ Holds(m, l, c) /\ m.list[l].exists
  BY RepElim DEF Rep, Has
<1>2. Chain(m, l) = c /\ Len(c) \in Nat
  BY <1>1, ChainIs
<1>3. PICK f : Sweeps(f, m, l, c, v, Len(c)) /\ remove_if(m, l, v) = f[Len(c)]
  <2> DEFINE g == CHOOSE f : Sweeps(f, m, l, Chain(m, l), v, Len(Chain(m, l)))
  <2>1. Sweeps(g, m, l, Chain(m, l), v, Len(Chain(m, l)))
    BY <1>2, SweepExists
  <2>2. remove_if(m, l, v) = g[Len(Chain(m, l))]
    BY Zenon DEF remove_if, Sweeps
  <2> HIDE DEF g
  <2> QED BY <1>2, <2>1, <2>2
<1>4. \A i \in 0..Len(c) : f[i] = IF i = 0 THEN m
                                 ELSE IF Key[f[i - 1].data[c[i]]] = v THEN erase(f[i - 1], l, c[i]) ELSE f[i - 1]
  BY <1>3 DEF Sweeps
<1> DEFINE Good(o) == Has(o, l) /\ \E e \in Seq(Node) : Rep(o, l, e, k, d)
           P == {i \in Nat : i <= Len(c) => Good(f[i])}
<1>5. Good(m)
  BY <1>1
<1>6. \A o, x : Good(o) => Good(erase(o, l, x))
  BY EraseIs
<1> HIDE DEF Good
<1>7. 0 \in P
  <2>1. f[0] = m
    BY <1>2, <1>4
  <2> QED BY <1>5, <2>1
<1>8. \A i \in Nat : i \in P => i + 1 \in P
  <2> SUFFICES ASSUME NEW i \in Nat, i \in P, i + 1 <= Len(c) PROVE Good(f[i + 1])
    OBVIOUS
  <2>1. i + 1 \in 0..Len(c) /\ i + 1 # 0 /\ (i + 1) - 1 = i /\ i <= Len(c)
    BY <1>2
  <2>2. Good(f[i])
    BY <2>1
  <2>3. f[i + 1] = f[i] \/ f[i + 1] = erase(f[i], l, c[i + 1])
    BY <1>4, <2>1
  <2> QED BY <1>6, <2>2, <2>3
<1> HIDE DEF P
<1>9. \A i \in Nat : i \in P
  BY <1>7, <1>8, NatInd
<1>10. Good(f[Len(c)])
  BY <1>2, <1>9 DEF P
<1> QED BY <1>3, <1>10 DEF Good

(* The recursive function of unique.                                       *)
Scans(f, m, l, c, n) ==
    f = [i \in 1..n |-> IF i = 1 THEN [m |-> m, cur |-> c[1]] ELSE IF Key[f[i - 1].m.data[f[i - 1].cur]] = Key[f[i - 1].m.data[c[i]]] THEN [f[i - 1] EXCEPT !.m = erase(@, l, c[i])] ELSE [f[i - 1] EXCEPT !.cur = c[i]]]

(* It exists.                                                              *)
LEMMA ScanExists ==
  ASSUME NEW m, NEW l, NEW c
  PROVE  \A n \in Nat : \E f : Scans(f, m, l, c, n)
<1> DEFINE P == {n \in Nat : \E f : Scans(f, m, l, c, n)}
           By(was, i) == IF i = 1 THEN [m |-> m, cur |-> c[1]] ELSE IF Key[was.m.data[was.cur]] = Key[was.m.data[c[i]]] THEN [was EXCEPT !.m = erase(@, l, c[i])] ELSE [was EXCEPT !.cur = c[i]]
<1>0. \A x, y : By(x, 1) = By(y, 1)
  OBVIOUS
<1>1. 0 \in P
  <2> DEFINE f == [i \in 1..0 |-> By(<<>>, 1)]
  <2>1. \A i \in 1..0 : i = 1 /\ f[i] = By(f[i - 1], i)
    <3> HIDE DEF By
    <3> QED BY <1>0
  <2>2. f = [i \in 1..0 |-> By(f[i - 1], i)]
    <3> HIDE DEF By
    <3> QED BY <2>1
  <2>3. Scans(f, m, l, c, 0)
    BY <2>2, Zenon DEF Scans
  <2> HIDE DEF f
  <2> QED BY <2>3
<1>2. \A n \in Nat : n \in P => n + 1 \in P
  <2> SUFFICES ASSUME NEW n \in Nat, n \in P PROVE n + 1 \in P
    OBVIOUS
  <2>1. PICK g : Scans(g, m, l, c, n)
    OBVIOUS
  <2> DEFINE f == [i \in 1..(n + 1) |-> IF i <= n THEN g[i] ELSE By(g[n], n + 1)]
  <2>2. \A i \in 1..n : g[i] = By(g[i - 1], i)
    <3>1. g = [i \in 1..n |-> By(g[i - 1], i)]
      BY <2>1, Zenon DEF Scans
    <3> HIDE DEF By
    <3> QED BY <3>1
  <2> HIDE DEF P, By
  <2>3. \A i \in 1..(n + 1) : f[i] = By(f[i - 1], i)
    <3> SUFFICES ASSUME NEW i \in 1..(n + 1) PROVE f[i] = By(f[i - 1], i)
      OBVIOUS
    <3>1. CASE i = 1 /\ i <= n
      <4>1. i \in 1..n
        BY <3>1
      <4>2. f[i] = g[i]
        BY <3>1
      <4> HIDE DEF f
      <4> QED BY <1>0, <2>2, <3>1, <4>1, <4>2
    <3>2. CASE i # 1 /\ i <= n
      <4>1. i \in 1..n /\ i - 1 \in 1..(n + 1) /\ i - 1 <= n
        BY <3>2
      <4> QED BY <2>2, <3>2, <4>1
    <3>3. CASE i = n + 1 /\ n \in 1..(n + 1)
      <4>1. i - 1 = n /\ n <= n /\ ~(n + 1 <= n)
        BY <3>3
      <4> QED BY <3>3, <4>1
    <3>4. CASE i = n + 1 /\ n + 1 = 1
      <4>1. ~(n + 1 <= n)
        OBVIOUS
      <4>2. f[i] = By(g[n], 1) /\ i = 1
        BY <3>4, <4>1
      <4> HIDE DEF f
      <4> QED BY <1>0, <4>2
    <3> QED BY <3>1, <3>2, <3>3, <3>4
  <2>4. f = [i \in 1..(n + 1) |-> By(f[i - 1], i)]
    BY <2>3
  <2>5. Scans(f, m, l, c, n + 1)
    BY <2>4, Zenon DEF Scans, By
  <2> HIDE DEF f
  <2> QED BY <2>5 DEF P
<1> HIDE DEF P
<1>3. \A n \in Nat : n \in P
  BY <1>1, <1>2, NatInd
<1> QED BY <1>3 DEF P

(* unique leaves a list.                                                   *)
LEMMA UniqueIs ==
  ASSUME NEW m, NEW l, NEW c, NEW k, NEW d, Rep(m, l, c, k, d), Has(m, l)
  PROVE  Has(unique(m, l), l) /\ \E e \in Seq(Node) : Rep(unique(m, l), l, e, k, d)
<1>1. c \in Seq(Node) /\ Holds(m, l, c) /\ m.list[l].exists
  BY RepElim DEF Rep, Has
<1>2. Chain(m, l) = c /\ Len(c) \in Nat
  BY <1>1, ChainIs
<1> DEFINE Good(o) == Has(o, l) /\ \E e \in Seq(Node) : Rep(o, l, e, k, d)
<1>3. Good(m)
  BY <1>1
<1>4. \A o, x : Good(o) => Good(erase(o, l, x))
  BY EraseIs
<1>5. CASE c = <<>>
  <2>1. Chain(m, l) = <<>>
    BY <1>2, <1>5
  <2>2. unique(m, l) = m
    BY <2>1, Zenon DEF unique
  <2> QED BY <1>3, <2>2
<1>6. CASE c # <<>>
  <2>1. Len(c) # 0
    BY <1>1, <1>6, NodesIn
  <2>2. PICK f : Scans(f, m, l, c, Len(c)) /\ unique(m, l) = f[Len(c)].m
    <3> DEFINE g == CHOOSE f : Scans(f, m, l, Chain(m, l), Len(Chain(m, l)))
    <3>1. Scans(g, m, l, Chain(m, l), Len(Chain(m, l)))
      BY <1>2, ScanExists
    <3>2. Chain(m, l) # <<>>
      BY <1>2, <1>6
    <3>3. unique(m, l) = g[Len(Chain(m, l))].m
      BY <3>2, Zenon DEF unique, Scans
    <3> HIDE DEF g
    <3> QED BY <1>2, <3>1, <3>3
  <2> DEFINE Pair(u) == u = [m |-> u.m, cur |-> u.cur]
  <2>3. \A i \in 1..Len(c) : f[i] = IF i = 1 THEN [m |-> m, cur |-> c[1]]
              ELSE IF Key[f[i - 1].m.data[f[i - 1].cur]] = Key[f[i - 1].m.data[c[i]]]
                   THEN [f[i - 1] EXCEPT !.m = erase(@, l, c[i])] ELSE [f[i - 1] EXCEPT !.cur = c[i]]
    BY <2>2 DEF Scans
  <2>5. \A x : Pair([m |-> m, cur |-> x]) /\ [m |-> m, cur |-> x].m = m
    OBVIOUS
  <2> HIDE DEF Good, Pair
  <2> DEFINE P == {i \in Nat : i + 1 <= Len(c) => Good(f[i + 1].m) /\ Pair(f[i + 1])}
  <2>6. 0 \in P
    <3>1. 1 \in 1..Len(c) /\ 0 + 1 = 1
      BY <1>2, <2>1
    <3>2. f[1] = [m |-> m, cur |-> c[1]]
      BY <2>3, <3>1
    <3>3. Good(f[1].m) /\ Pair(f[1])
      BY <1>3, <2>5, <3>2
    <3> QED BY <3>1, <3>3
  <2>7. \A i \in Nat : i \in P => i + 1 \in P
    <3> SUFFICES ASSUME NEW i \in Nat, i \in P, (i + 1) + 1 <= Len(c)
                 PROVE  Good(f[(i + 1) + 1].m) /\ Pair(f[(i + 1) + 1])
      OBVIOUS
    <3> DEFINE j == (i + 1) + 1
    <3>1. j \in 1..Len(c) /\ j # 1 /\ j - 1 = i + 1 /\ i + 1 <= Len(c)
      BY <1>2
    <3>2. Good(f[i + 1].m) /\ Pair(f[i + 1])
      BY <3>1
    <3> HIDE DEF j
    <3>3. \/ f[j] = [f[i + 1] EXCEPT !.m = erase(@, l, c[j])]
          \/ f[j] = [f[i + 1] EXCEPT !.cur = c[j]]
      BY <2>3, <3>1
    <3> DEFINE u == f[i + 1]
    <3> HIDE DEF u
    <3>4. Pair(u) /\ (f[j] = [u EXCEPT !.m = erase(@, l, c[j])] \/ f[j] = [u EXCEPT !.cur = c[j]])
      BY <3>2, <3>3 DEF u
    <3>5. Pair(f[j]) /\ (f[j].m = erase(u.m, l, c[j]) \/ f[j].m = u.m)
      <4> DEFINE x == c[j]
      <4>1. Pair(u) /\ (f[j] = [u EXCEPT !.m = erase(@, l, x)] \/ f[j] = [u EXCEPT !.cur = x])
        BY <3>4
      <4> HIDE DEF x
      <4>2. Pair([u EXCEPT !.m = erase(@, l, x)]) /\ [u EXCEPT !.m = erase(@, l, x)].m = erase(u.m, l, x)
        BY <3>4 DEF Pair
      <4>3. Pair([u EXCEPT !.cur = x]) /\ [u EXCEPT !.cur = x].m = u.m
        BY <3>4 DEF Pair
      <4>4. ASSUME NEW w, w = f[j], w = [u EXCEPT !.m = erase(@, l, x)] PROVE Pair(w) /\ w.m = erase(u.m, l, x)
        BY <4>2, <4>4
      <4>5. ASSUME NEW w, w = f[j], w = [u EXCEPT !.cur = x] PROVE Pair(w) /\ w.m = u.m
        BY <4>3, <4>5
      <4> QED BY <4>1, <4>4, <4>5 DEF x
    <3>6. Good(u.m)
      BY <3>2 DEF u
    <3> QED BY <1>4, <3>5, <3>6 DEF j
  <2> HIDE DEF P
  <2>8. \A i \in Nat : i \in P
    BY <2>6, <2>7, NatInd
  <2>9. Good(f[Len(c)].m)
    <3>1. Len(c) - 1 \in Nat /\ (Len(c) - 1) + 1 = Len(c)
      BY <1>2, <2>1
    <3> DEFINE j == Len(c) - 1
    <3>2. j \in Nat /\ j + 1 = Len(c)
      BY <3>1
    <3>3. Len(c) <= Len(c)
      BY <1>2
    <3> HIDE DEF j
    <3>4. j + 1 <= Len(c) => Good(f[j + 1].m)
      BY <2>8, <3>2 DEF P
    <3> QED BY <3>2, <3>3, <3>4
  <2> QED BY <2>2, <2>9 DEF Good
<1> QED BY <1>5, <1>6

(* The free nodes are counted.                                             *)
LEMMA FreeIs ==
  ASSUME NEW m
  PROVE  IsFiniteSet(Free(m)) /\ Cardinality(Free(m)) \in Nat /\ (Cardinality(Free(m)) = 0 <=> Free(m) = {})
<1>1. IsFiniteSet(Node)
  BY DListAssumption, FS_Interval DEF Node
<1>2. Free(m) \in SUBSET Node
  BY DEF Free
<1>3. IsFiniteSet(Free(m))
  BY <1>1, <1>2, FS_Subset
<1> QED BY <1>3, FS_EmptySet, FS_CardinalityType

(* One more node at the end.                                               *)
LEMMA PushBackIs ==
  ASSUME NEW m, NEW l, NEW c, NEW k, NEW d, Rep(m, l, c, k, d), Has(m, l), Free(m) # {}, NEW v \in Value
  PROVE  LET n == New(m)
             o == push_back(m, l, v)
         IN  /\ n \in Node /\ n \notin m.live /\ o.live = m.live \cup {n}
             /\ Rep(o, l, Append(c, n), k, d) /\ Keeps(m, o, l, k) /\ Gives(o, n, v)
             /\ Cardinality(Free(o)) = Cardinality(Free(m)) - 1
<1> DEFINE n == New(m)
           o == push_back(m, l, v)
           z == <<>>
<1>1. c \in Seq(Node) /\ n \in Node /\ n \notin m.live
  BY RepElim, NewIs
<1>2. z \in Seq(Node) /\ c \o z = c /\ Glue(c, n, z) = Append(c, n)
  BY <1>1 DEF Glue
<1>3. Inserts(m, o, l, c, n, z, v)
  BY PushBackMade
<1>4. o.live = m.live \cup {n}
  <2> HIDE DEF n, o, z
  <2>1. \A live, data, prev, next, list : Made(o, live, data, prev, next, list) => o.live = live
    BY MadeIs
  <2> QED BY <1>3, <2>1 DEF Inserts
<1>5. Fresh(m, n)
  BY <1>1 DEF Fresh
<1> HIDE DEF n, o, z
<1>6. Rep(m, l, c \o z, k, d)
  BY <1>2
<1>7. Rep(o, l, Glue(c, n, z), k, d) /\ Keeps(m, o, l, k) /\ Gives(o, n, v)
  BY <1>1, <1>2, <1>3, <1>5, <1>6, Inserted
<1>8. Free(o) = Free(m) \ {n} /\ n \in Free(m)
  BY <1>1, <1>4 DEF Free
<1>9. Cardinality(Free(o)) = Cardinality(Free(m)) - 1
  BY <1>8, FreeIs, FS_RemoveElement
<1>10. Rep(o, l, Append(c, n), k, d)
  BY <1>2, <1>7
<1> QED BY <1>1, <1>4, <1>7, <1>9, <1>10 DEF n, o

(* The recursive function of from_array.                                   *)
Fills(f, m, out, s, copies, n) ==
    f = [i \in 0..n |-> IF i = 0 THEN [m EXCEPT !.list[out] = EmptyList(copies)] ELSE push_back(f[i - 1], out, s[i])]

(* It exists.                                                              *)
LEMMA FillExists ==
  ASSUME NEW m, NEW out, NEW s, NEW copies
  PROVE  \A n \in Nat : \E f : Fills(f, m, out, s, copies, n)
<1> DEFINE P == {n \in Nat : \E f : Fills(f, m, out, s, copies, n)}
           By(was, i) == IF i = 0 THEN [m EXCEPT !.list[out] = EmptyList(copies)] ELSE push_back(was, out, s[i])
<1>0. \A x, y : By(x, 0) = By(y, 0)
  OBVIOUS
<1>1. 0 \in P
  <2> DEFINE f == [i \in 0..0 |-> By(<<>>, 0)]
  <2>1. \A i \in 0..0 : i = 0 /\ f[i] = By(f[i - 1], i)
    <3> HIDE DEF By
    <3> QED BY <1>0
  <2>2. f = [i \in 0..0 |-> By(f[i - 1], i)]
    <3> HIDE DEF By
    <3> QED BY <2>1
  <2>3. Fills(f, m, out, s, copies, 0)
    BY <2>2, Zenon DEF Fills
  <2> HIDE DEF f
  <2> QED BY <2>3
<1>2. \A n \in Nat : n \in P => n + 1 \in P
  <2> SUFFICES ASSUME NEW n \in Nat, n \in P PROVE n + 1 \in P
    OBVIOUS
  <2>1. PICK g : Fills(g, m, out, s, copies, n)
    OBVIOUS
  <2> DEFINE f == [i \in 0..(n + 1) |-> IF i <= n THEN g[i] ELSE By(g[n], n + 1)]
  <2>2. \A i \in 0..n : g[i] = By(g[i - 1], i)
    <3>1. g = [i \in 0..n |-> By(g[i - 1], i)]
      BY <2>1, Zenon DEF Fills
    <3> HIDE DEF By
    <3> QED BY <3>1
  <2> HIDE DEF P, By
  <2>3. \A i \in 0..(n + 1) : f[i] = By(f[i - 1], i)
    <3> SUFFICES ASSUME NEW i \in 0..(n + 1) PROVE f[i] = By(f[i - 1], i)
      OBVIOUS
    <3>1. CASE i = 0 /\ i <= n
      <4>1. i \in 0..n
        BY <3>1
      <4>2. f[i] = g[i]
        BY <3>1
      <4> HIDE DEF f
      <4> QED BY <1>0, <2>2, <3>1, <4>1, <4>2
    <3>2. CASE i # 0 /\ i <= n
      <4>1. i \in 0..n /\ i - 1 \in 0..(n + 1) /\ i - 1 <= n
        BY <3>2
      <4> QED BY <2>2, <3>2, <4>1
    <3>3. CASE i = n + 1 /\ n \in 0..(n + 1)
      <4>1. i - 1 = n /\ n <= n /\ ~(n + 1 <= n)
        BY <3>3
      <4> QED BY <3>3, <4>1
    <3>4. CASE i = n + 1 /\ n + 1 = 0
      <4>1. ~(n + 1 <= n)
        OBVIOUS
      <4>2. f[i] = By(g[n], 0) /\ i = 0
        BY <3>4, <4>1
      <4> HIDE DEF f
      <4> QED BY <1>0, <4>2
    <3> QED BY <3>1, <3>2, <3>3, <3>4
  <2>4. f = [i \in 0..(n + 1) |-> By(f[i - 1], i)]
    BY <2>3
  <2>5. Fills(f, m, out, s, copies, n + 1)
    BY <2>4, Zenon DEF Fills, By
  <2> HIDE DEF f
  <2> QED BY <2>5 DEF P
<1> HIDE DEF P
<1>3. \A n \in Nat : n \in P
  BY <1>1, <1>2, NatInd
<1> QED BY <1>3 DEF P

(* The nodes of e hold the first values of s.                              *)
Filled(m, o, l, e, k, d, s, i) ==
    /\ Rep(o, l, e, k, d) /\ Has(o, l) /\ Cardinality(Free(o)) + i = Cardinality(Free(m))
    /\ Len(e) = i /\ \A j \in 1..i : o.data[e[j]] = s[j]
    /\ o.list[k] = m.list[k] /\ \A x \in Nodes(d) : o.data[x] = m.data[x]

(* from_array makes a list of one node for each value, that holds it.      *)
LEMMA FromArrayIs ==
  ASSUME NEW m, NEW l, NEW c, NEW k, NEW d, Rep(m, l, c, k, d), ~Has(m, l), NEW copies \in BOOLEAN,
         NEW s \in Seq(Value), Len(s) <= Cardinality(Free(m))
  PROVE  \E e \in Seq(Node) : Filled(m, from_array(m, l, s, copies), l, e, k, d, s, Len(s))
<1>1. d \in Seq(Node) /\ m.live = Nodes(c) \cup Nodes(d) /\ Len(s) \in Nat /\ Cardinality(Free(m)) \in Nat
  BY RepElim, FreeIs
<1>2. PICK f : Fills(f, m, l, s, copies, Len(s)) /\ from_array(m, l, s, copies) = f[Len(s)]
  <2> DEFINE g == CHOOSE f : Fills(f, m, l, s, copies, Len(s))
  <2>1. Fills(g, m, l, s, copies, Len(s))
    BY <1>1, FillExists
  <2>2. ~(Len(s) > Cardinality(Free(m)))
    BY <1>1
  <2>3. from_array(m, l, s, copies) = g[Len(s)]
    BY <2>2, Zenon DEF from_array, Fills
  <2> HIDE DEF g
  <2> QED BY <2>1, <2>3
<1>3. \A i \in 0..Len(s) : f[i] = IF i = 0 THEN [m EXCEPT !.list[l] = EmptyList(copies)]
                                 ELSE push_back(f[i - 1], l, s[i])
  BY <1>2 DEF Fills
<1> DEFINE P == {i \in Nat : i <= Len(s) => \E e \in Seq(Node) : Filled(m, f[i], l, e, k, d, s, i)}
<1>4. 0 \in P
  <2> DEFINE o == f[0]
             z == <<>>
  <2>1. o = [m EXCEPT !.list[l] = EmptyList(copies)]
    BY <1>1, <1>3
  <2> HIDE DEF o
  <2>2. Rep(o, l, <<>>, k, d) /\ SameData(m, o) /\ o.list[k] = m.list[k] /\ o.live = m.live /\ Has(o, l)
    <3>1. Rep(o, l, <<>>, k, d)
      BY <2>1, Opened
    <3>2. SameData(m, o) /\ Has(o, l)
      BY <2>1, Opened
    <3>3. o.list[k] = m.list[k]
      <4> DEFINE st == EmptyList(copies)
                 list == [m.list EXCEPT ![l] = st]
      <4>1. m \in Memory /\ l \in Lists /\ k \in Lists /\ l # k
        BY RepElim
      <4>2. Made(m, m.live, m.data, m.prev, m.next, m.list) /\ m.list \in [Lists -> Structure \cup {NoList}]
        BY <4>1, MemoryMade, MemoryIs
      <4>3. o = [m EXCEPT !.list[l] = st]
        BY <2>1
      <4> HIDE DEF st
      <4>4. Made(o, m.live, m.data, m.prev, m.next, list)
        BY <4>2, <4>3, Restructured
      <4>5. list[k] = m.list[k]
        BY <4>1, <4>2
      <4> HIDE DEF list
      <4> QED BY <4>4, <4>5, MadeIs
    <3>4. o.live = m.live
      BY <2>1, Opened
    <3> QED BY <3>1, <3>2, <3>3, <3>4
  <2>3. z \in Seq(Node) /\ Len(z) = 0
    OBVIOUS
  <2>4. Rep(o, l, z, k, d)
    BY <2>2
  <2>5. \A x \in Nodes(d) : o.data[x] = m.data[x]
    BY <1>1, <2>2 DEF SameData
  <2>6. Cardinality(Free(o)) + 0 = Cardinality(Free(m))
    <3>1. Free(o) = Free(m)
      BY <2>2 DEF Free
    <3> QED BY <1>1, <3>1
  <2> HIDE DEF z
  <2>7. Filled(m, o, l, z, k, d, s, 0)
    BY <2>2, <2>3, <2>4, <2>5, <2>6 DEF Filled
  <2> QED BY <2>3, <2>7 DEF o
<1>5. \A i \in Nat : i \in P => i + 1 \in P
  <2> SUFFICES ASSUME NEW i \in Nat, i \in P, i + 1 <= Len(s)
               PROVE  \E e \in Seq(Node) : Filled(m, f[i + 1], l, e, k, d, s, i + 1)
    OBVIOUS
  <2> DEFINE u == f[i]
             o == f[i + 1]
             n == New(u)
             v == s[i + 1]
  <2>1. i <= Len(s) /\ i + 1 \in 0..Len(s) /\ i + 1 # 0 /\ (i + 1) - 1 = i /\ i + 1 \in 1..Len(s)
    BY <1>1
  <2>2. PICK e \in Seq(Node) : Filled(m, u, l, e, k, d, s, i)
    BY <2>1
  <2>3. o = push_back(u, l, v) /\ v \in Value
    BY <1>3, <2>1
  <2> HIDE DEF u, o, v, P
  <2>4. /\ Rep(u, l, e, k, d) /\ Has(u, l) /\ Cardinality(Free(u)) + i = Cardinality(Free(m))
        /\ Len(e) = i /\ \A j \in 1..i : u.data[e[j]] = s[j]
        /\ u.list[k] = m.list[k] /\ \A x \in Nodes(d) : u.data[x] = m.data[x]
    BY <2>2 DEF Filled
  <2>5. Free(u) # {}
    <3>1. Cardinality(Free(u)) \in Nat /\ (Cardinality(Free(u)) = 0 <=> Free(u) = {})
      BY FreeIs
    <3> QED BY <1>1, <2>1, <2>4, <3>1
  <2>6. /\ n \in Node /\ n \notin u.live /\ o.live = u.live \cup {n}
        /\ Rep(o, l, Append(e, n), k, d) /\ Keeps(u, o, l, k) /\ Gives(o, n, v)
        /\ Cardinality(Free(o)) = Cardinality(Free(u)) - 1
    BY <2>3, <2>4, <2>5, PushBackIs
  <2>7. u.live = Nodes(e) \cup Nodes(d)
    BY <2>4, RepElim
  <2>8. \A x \in Nodes(e) \cup Nodes(d) : o.data[x] = u.data[x]
    BY <2>6, <2>7 DEF Keeps
  <2> HIDE DEF n
  <2> DEFINE e1 == Append(e, n)
  <2>9. e1 \in Seq(Node) /\ Len(e1) = i + 1 /\ e1[i + 1] = n /\ \A j \in 1..i : e1[j] = e[j]
    BY <2>4, <2>6
  <2>10. \A j \in 1..(i + 1) : o.data[e1[j]] = s[j]
    <3> SUFFICES ASSUME NEW j \in 1..(i + 1) PROVE o.data[e1[j]] = s[j]
      OBVIOUS
    <3> HIDE DEF e1
    <3>1. CASE j = i + 1
      BY <2>6, <2>9, <3>1 DEF Gives, v
    <3>2. CASE j # i + 1
      <4>1. j \in 1..i
        BY <3>2
      <4>2. e[j] \in Nodes(e)
        BY <2>4, <4>1 DEF Nodes
      <4> QED BY <2>4, <2>8, <2>9, <4>1, <4>2
    <3> QED BY <3>1, <3>2
  <2>11. Has(o, l) /\ o.list[k] = m.list[k] /\ \A x \in Nodes(d) : o.data[x] = m.data[x]
    BY <2>4, <2>6, <2>8 DEF Keeps
  <2>12. Cardinality(Free(o)) + (i + 1) = Cardinality(Free(m))
    BY <1>1, <2>4, <2>6, FreeIs
  <2>13. Rep(o, l, e1, k, d)
    BY <2>6
  <2> HIDE DEF e1
  <2>14. Filled(m, o, l, e1, k, d, s, i + 1)
    BY <2>9, <2>10, <2>11, <2>12, <2>13 DEF Filled
  <2> QED BY <2>9, <2>14 DEF o
<1> HIDE DEF P
<1>6. \A i \in Nat : i \in P
  BY <1>4, <1>5, NatInd
<1>7. Len(s) <= Len(s)
  BY <1>1
<1> QED BY <1>1, <1>2, <1>6, <1>7 DEF P

(* A new list, or nothing.                                                 *)
LEMMA FromArraySound ==
  ASSUME NEW m, NEW l, NEW c, NEW k, NEW d, Rep(m, l, c, k, d), ~Has(m, l), NEW copies \in BOOLEAN,
         NEW s \in Seq(Value)
  PROVE  \E e \in Seq(Node) : Rep(from_array(m, l, s, copies), l, e, k, d)
<1>1. CASE Len(s) > Cardinality(Free(m))
  <2>1. from_array(m, l, s, copies) = m /\ c \in Seq(Node)
    BY <1>1, RepElim DEF from_array
  <2> QED BY <2>1
<1>2. CASE ~(Len(s) > Cardinality(Free(m)))
  <2>1. Len(s) <= Cardinality(Free(m))
    BY <1>2, FreeIs
  <2> QED BY <2>1, FromArrayIs DEF Filled
<1> QED BY <1>1, <1>2

(* The recursive function of FlattenSeq (SequencesExt), up to place m.     *)
Flattens(f, s, m) ==
    f = [i \in 1..m |-> IF i = 1 THEN s[i] ELSE f[i-1] \o s[i]]

(* It exists: there is no least place up to which it does not.             *)
LEMMA FlattensExists ==
  ASSUME NEW s, NEW n \in Nat \ {0}
  PROVE  \E f : Flattens(f, s, n)
<1> DEFINE Bad == {m \in 1..n : ~ \E f : Flattens(f, s, m)}
<1>1. SUFFICES ASSUME Bad # {} PROVE FALSE
  <2>1. n \in 1..n
    OBVIOUS
  <2> QED BY <1>1, <2>1, Zenon
<1>2. PICK m \in Bad : \A t \in Bad : m <= t
  <2>1. Bad \in SUBSET Nat
    OBVIOUS
  <2> HIDE DEF Bad
  <2> QED BY <1>1, <2>1, Least
<1>3. m \in Nat /\ 1 <= m /\ m <= n
  OBVIOUS
<1>4. CASE m = 1
  <2> DEFINE f == [i \in 1..1 |-> s[i]]
  <2>1. Flattens(f, s, 1)
    BY DEF Flattens
  <2> QED BY <1>2, <1>4, <2>1, Zenon
<1>5. CASE m # 1
  <2>1. m - 1 \in 1..n /\ ~(m <= m - 1)
    BY <1>3, <1>5
  <2>2. PICK g : Flattens(g, s, m - 1)
    BY <1>2, <2>1, Zenon
  <2> DEFINE f == [i \in 1..m |-> IF i < m THEN g[i] ELSE g[m-1] \o s[m]]
  <2>3. \A i \in 1..(m - 1) : g[i] = IF i = 1 THEN s[i] ELSE g[i-1] \o s[i]
    BY <2>2 DEF Flattens
  <2>4. \A i \in 1..m : f[i] = IF i = 1 THEN s[i] ELSE f[i-1] \o s[i]
    <3> SUFFICES ASSUME NEW i \in 1..m
                 PROVE  f[i] = IF i = 1 THEN s[i] ELSE f[i-1] \o s[i]
      OBVIOUS
    <3>1. CASE i < m
      <4>1. i \in 1..(m - 1) /\ (i # 1 => i - 1 \in 1..m /\ i - 1 < m)
        BY <1>3, <3>1
      <4> QED BY <1>3, <2>3, <3>1, <4>1
    <3>2. CASE i = m
      <4>1. m - 1 \in 1..m /\ m - 1 < m /\ m \in 1..m /\ ~(m < m)
        BY <1>3, <1>5
      <4> QED BY <1>5, <3>2, <4>1
    <3> QED BY <1>3, <3>1, <3>2
  <2>5. Flattens(f, s, m)
    <3>1. f = [i \in 1..m |-> IF i = 1 THEN s[i] ELSE f[i-1] \o s[i]]
      BY <2>4
    <3> QED BY <3>1 DEF Flattens
  <2> QED BY <1>2, <2>5, Zenon
<1> QED BY <1>4, <1>5

(* What is flattened stays in the type of the parts: there is no least     *)
(* place at which it leaves it.                                            *)
LEMMA FlattenIs ==
  ASSUME NEW T, NEW s \in Seq(Seq(T))
  PROVE  FlattenSeq(s) \in Seq(T)
<1>0. Len(s) \in Nat /\ \A i \in 1..Len(s) : s[i] \in Seq(T)
  OBVIOUS
<1>1. CASE Len(s) = 0
  <2>1. FlattenSeq(s) = s /\ s = <<>>
    BY <1>1 DEF FlattenSeq
  <2> QED BY <2>1
<1>2. CASE Len(s) # 0
  <2> DEFINE n == Len(s)
  <2>1. FlattenSeq(s) = (CHOOSE f : Flattens(f, s, n))[n]
    BY <1>2, Zenon DEF FlattenSeq, Flattens
  <2>2. \E f : Flattens(f, s, n)
    BY <1>0, <1>2, FlattensExists
  <2>3. PICK f : Flattens(f, s, n) /\ FlattenSeq(s) = f[n]
    BY <2>1, <2>2, Zenon
  <2>4. \A i \in 1..n : f[i] = IF i = 1 THEN s[i] ELSE f[i-1] \o s[i]
    BY <2>3 DEF Flattens
  <2>5. \A i \in 1..n : f[i] \in Seq(T)
    <3> DEFINE Bad == {i \in 1..n : f[i] \notin Seq(T)}
    <3>1. SUFFICES ASSUME Bad # {} PROVE FALSE
      BY Zenon
    <3>2. PICK m \in Bad : \A t \in Bad : m <= t
      <4>1. Bad \in SUBSET Nat
        BY <1>0
      <4> HIDE DEF Bad
      <4> QED BY <3>1, <4>1, Least
    <3>3. m \in Nat /\ 1 <= m /\ m <= n /\ f[m] \notin Seq(T)
      BY <1>0
    <3>4. CASE m = 1
      BY <1>0, <2>4, <3>3, <3>4
    <3>5. CASE m # 1
      <4>1. m - 1 \in 1..n /\ ~(m <= m - 1)
        BY <1>0, <3>3, <3>5
      <4>2. f[m-1] \in Seq(T)
        BY <3>2, <4>1
      <4>3. s[m] \in Seq(T) /\ f[m] = f[m-1] \o s[m]
        BY <1>0, <2>4, <3>3, <3>5
      <4>4. f[m-1] \o s[m] \in Seq(T)
        BY <4>2, <4>3
      <4> QED BY <3>3, <4>3, <4>4
    <3> QED BY <3>4, <3>5
  <2>6. n \in 1..n
    BY <1>0, <1>2
  <2> QED BY <2>3, <2>5, <2>6
<1> QED BY <1>1, <1>2

(* The values of a list, in order.                                         *)
LEMMA ValuesIs ==
  ASSUME NEW m, NEW l, NEW c, NEW k, NEW d, Rep(m, l, c, k, d), Has(m, l)
  PROVE  /\ Values(m, l) = [i \in 1..Len(c) |-> m.data[c[i]]] /\ Values(m, l) \in Seq(Value)
         /\ Len(Values(m, l)) = Len(c) /\ Chain(m, l) = c /\ c \in Seq(Node) /\ Len(c) \in Nat
         /\ m.list[l].copy \in BOOLEAN
<1>1. c \in Seq(Node) /\ Holds(m, l, c) /\ m.list[l].exists /\ m.live = Nodes(c) \cup Nodes(d)
      /\ \A x \in m.live : m.data[x] \in Value
  BY RepElim DEF Rep, Has
<1>2. Chain(m, l) = c /\ Len(c) \in Nat /\ DOMAIN c = 1..Len(c)
  BY <1>1, ChainIs
<1>3. Values(m, l) = [i \in 1..Len(c) |-> m.data[c[i]]]
  <2>1. Values(m, l) = [i \in DOMAIN Chain(m, l) |-> m.data[Chain(m, l)[i]]]
    BY DEF Values
  <2> QED BY <1>2, <2>1
<1>4. \A i \in 1..Len(c) : m.data[c[i]] \in Value
  BY <1>1 DEF Nodes
<1>5. m.list[l].copy \in BOOLEAN
  BY <1>1, LivesIs
<1> DEFINE v == Values(m, l)
<1> HIDE DEF v
<1>6. v \in Seq(Value) /\ Len(v) = Len(c)
  <2>1. v = [i \in 1..Len(c) |-> m.data[c[i]]]
    BY <1>3 DEF v
  <2> QED BY <1>2, <1>4, <2>1
<1> QED BY <1>1, <1>2, <1>3, <1>5, <1>6 DEF v

(* map makes a list.                                                       *)
LEMMA MapIs ==
  ASSUME NEW m, NEW l, NEW c, NEW k, NEW d, Rep(m, l, c, k, d), Has(m, l), ~Has(m, k)
  PROVE  \E e \in Seq(Node) : Rep(map(m, l, k), k, e, l, c)
<1> DEFINE s == [i \in DOMAIN Values(m, l) |-> Mapped[Values(m, l)[i]]]
<1>1. Values(m, l) \in Seq(Value)
  BY ValuesIs
<1>2. s \in Seq(Value)
  <2> DEFINE v == Values(m, l)
  <2>1. v \in Seq(Value) /\ Mapped \in [Value -> Value]
    BY <1>1, DListAssumption
  <2> HIDE DEF v
  <2>2. [i \in DOMAIN v |-> Mapped[v[i]]] \in Seq(Value)
    BY <2>1
  <2> QED BY <2>2 DEF v
<1>3. map(m, l, k) = from_array(m, k, s, FALSE)
  BY DEF map
<1>4. Rep(m, k, d, l, c)
  BY RepSwap
<1>5. FALSE \in BOOLEAN
  OBVIOUS
<1> HIDE DEF s
<1> QED BY <1>2, <1>3, <1>4, <1>5, FromArraySound

(* clone makes a list.                                                     *)
LEMMA CloneIs ==
  ASSUME NEW m, NEW l, NEW c, NEW k, NEW d, Rep(m, l, c, k, d), Has(m, l), ~Has(m, k)
  PROVE  \E e \in Seq(Node) : Rep(clone(m, l, k), k, e, l, c)
<1>1. Values(m, l) \in Seq(Value) /\ m.list[l].copy \in BOOLEAN
  BY ValuesIs
<1>2. clone(m, l, k) = from_array(m, k, Values(m, l), m.list[l].copy)
  BY DEF clone
<1>3. Rep(m, k, d, l, c)
  BY RepSwap
<1> QED BY <1>1, <1>2, <1>3, FromArraySound

(* The values that pred accepts are values.                                *)
LEMMA MatchingIs ==
  ASSUME NEW s \in Seq(Value), NEW x
  PROVE  Matching(s, x) \in Seq(Value)
<1> DEFINE g == [i \in DOMAIN s |-> IF Key[s[i]] = x THEN <<s[i]>> ELSE <<>>]
<1>1. \A i \in 1..Len(s) : <<s[i]>> \in Seq(Value) /\ <<>> \in Seq(Value)
  OBVIOUS
<1>2. g \in Seq(Seq(Value))
  <2>1. DOMAIN s = 1..Len(s) /\ Len(s) \in Nat
    OBVIOUS
  <2>2. \A i \in 1..Len(s) : (IF Key[s[i]] = x THEN <<s[i]>> ELSE <<>>) \in Seq(Value)
    BY <1>1
  <2> QED BY <2>1, <2>2
<1>3. Matching(s, x) = FlattenSeq(g)
  BY DEF Matching
<1> HIDE DEF g
<1> QED BY <1>2, <1>3, FlattenIs

(* filter makes a list.                                                    *)
LEMMA FilterIs ==
  ASSUME NEW m, NEW l, NEW c, NEW k, NEW d, Rep(m, l, c, k, d), Has(m, l), ~Has(m, k), NEW x
  PROVE  \E e \in Seq(Node) : Rep(filter(m, l, k, x), k, e, l, c)
<1>1. Values(m, l) \in Seq(Value) /\ m.list[l].copy \in BOOLEAN
  BY ValuesIs
<1>2. filter(m, l, k, x) = from_array(m, k, Matching(Values(m, l), x), m.list[l].copy)
  BY DEF filter
<1>3. Matching(Values(m, l), x) \in Seq(Value)
  BY <1>1, MatchingIs
<1>4. Rep(m, k, d, l, c)
  BY RepSwap
<1> QED BY <1>1, <1>2, <1>3, <1>4, FromArraySound

(* One more node at the end.                                               *)
LEMMA AppendNodes ==
  ASSUME NEW S, NEW e \in Seq(S), NEW x \in S
  PROVE  /\ Append(e, x) \in Seq(S) /\ Len(Append(e, x)) = Len(e) + 1
         /\ Nodes(Append(e, x)) = Nodes(e) \cup {x}
         /\ (Distinct(e) /\ x \notin Nodes(e) => Distinct(Append(e, x)))
<1> DEFINE u == <<x>>
<1>1. u \in Seq(S) /\ Nodes(u) = {x} /\ Distinct(u)
  BY OneIs
<1>2. Append(e, x) = e \o u
  OBVIOUS
<1>3. Append(e, x) \in Seq(S) /\ Len(Append(e, x)) = Len(e) + 1
  OBVIOUS
<1> HIDE DEF u
<1>4. Nodes(e \o u) = Nodes(e) \cup Nodes(u)
  BY <1>1, NodesConcat
<1>5. Distinct(e \o u) <=> Distinct(e) /\ Distinct(u) /\ Nodes(e) \cap Nodes(u) = {}
  BY <1>1, DistinctConcat
<1>6. x \notin Nodes(e) => Nodes(e) \cap {x} = {}
  OBVIOUS
<1> QED BY <1>1, <1>2, <1>3, <1>4, <1>5, <1>6

(* One more node of the merge of s and t, taken from either. *)
FromLeft(s, u) == [i |-> u.i + 1, out |-> Append(u.out, s[u.i + 1])]
FromRight(t, u, k) == [u EXCEPT !.out = Append(@, t[k - u.i])]

(* The first k nodes of the merge: i of s and k - i of t.                  *)
First(s, i) == {s[a] : a \in 1..i}
Mixed(u, s, t, k) ==
    /\ u = [i |-> u.i, out |-> u.out]
    /\ u.i \in 0..Len(s) /\ k - u.i \in 0..Len(t)
    /\ u.out \in Seq(Node) /\ Len(u.out) = k /\ Distinct(u.out)
    /\ Nodes(u.out) = First(s, u.i) \cup First(t, k - u.i)

(* The first nodes of a sequence, and one more.                            *)
LEMMA FirstIs ==
  ASSUME NEW s \in Seq(Node), Distinct(s), NEW i \in Nat
  PROVE  /\ First(s, 0) = {} /\ First(s, Len(s)) = Nodes(s)
         /\ (i + 1 <= Len(s) => /\ s[i + 1] \in Nodes(s) /\ s[i + 1] \notin First(s, i)
                                /\ First(s, i + 1) = First(s, i) \cup {s[i + 1]})
         /\ (i <= Len(s) => First(s, i) \subseteq Nodes(s))
<1>1. Len(s) \in Nat /\ \A a \in 1..Len(s), b \in 1..Len(s) : s[a] = s[b] => a = b
  BY DEF Distinct
<1>2. First(s, 0) = {} /\ First(s, Len(s)) = Nodes(s)
  BY DEF First, Nodes
<1>3. ASSUME i + 1 <= Len(s)
      PROVE  /\ s[i + 1] \in Nodes(s) /\ s[i + 1] \notin First(s, i)
             /\ First(s, i + 1) = First(s, i) \cup {s[i + 1]}
  <2>1. i + 1 \in 1..Len(s) /\ \A a \in 1..i : a \in 1..Len(s) /\ a # i + 1
    BY <1>1, <1>3
  <2>2. 1..(i + 1) = (1..i) \cup {i + 1}
    OBVIOUS
  <2>3. s[i + 1] \in Nodes(s) /\ s[i + 1] \notin First(s, i)
    BY <1>1, <2>1 DEF Nodes, First
  <2>4. First(s, i + 1) = First(s, i) \cup {s[i + 1]}
    BY <2>2 DEF First
  <2> QED BY <2>3, <2>4
<1>4. ASSUME i <= Len(s) PROVE First(s, i) \subseteq Nodes(s)
  <2>1. \A a \in 1..i : a \in 1..Len(s)
    BY <1>1, <1>4
  <2> QED BY <2>1 DEF First, Nodes
<1> QED BY <1>2, <1>3, <1>4

(* One more node of the merge.                                             *)
LEMMA PickStep ==
  ASSUME NEW s \in Seq(Node), NEW t \in Seq(Node), Distinct(s), Distinct(t), Nodes(s) \cap Nodes(t) = {},
         NEW k \in Nat, k + 1 <= Len(s) + Len(t), NEW u, Mixed(u, s, t, k)
  PROVE  /\ (u.i + 1 <= Len(s) => Mixed(FromLeft(s, u), s, t, k + 1))
         /\ ((k + 1) - u.i <= Len(t) => Mixed(FromRight(t, u, k + 1), s, t, k + 1))
<1> DEFINE i == u.i
           out == u.out
<1>1. /\ i \in 0..Len(s) /\ k - i \in 0..Len(t) /\ u = [i |-> i, out |-> out]
      /\ out \in Seq(Node) /\ Len(out) = k /\ Distinct(out)
      /\ Nodes(out) = First(s, i) \cup First(t, k - i)
  BY DEF Mixed
<1>2. Len(s) \in Nat /\ Len(t) \in Nat /\ i \in Nat /\ k - i \in Nat /\ i <= Len(s) /\ k - i <= Len(t)
      /\ Nodes(s) \subseteq Node /\ Nodes(t) \subseteq Node
  BY <1>1, NodesIn
<1>3. First(s, i) \subseteq Nodes(s) /\ First(t, k - i) \subseteq Nodes(t)
  BY <1>2, FirstIs
<1>4. ASSUME i + 1 <= Len(s) PROVE Mixed(FromLeft(s, u), s, t, k + 1)
  <2> DEFINE w == FromLeft(s, u)
             x == s[i + 1]
  <2>1. w = [i |-> w.i, out |-> w.out] /\ w.i = i + 1 /\ w.out = Append(out, x)
    BY DEF FromLeft
  <2>2. x \in Nodes(s) /\ x \notin First(s, i) /\ First(s, i + 1) = First(s, i) \cup {x}
    BY <1>2, <1>4, FirstIs
  <2>3. i + 1 \in 0..Len(s) /\ (k + 1) - (i + 1) = k - i
    BY <1>2, <1>4
  <2>4. x \in Node /\ x \notin Nodes(out)
    BY <1>1, <1>2, <1>3, <2>2
  <2> HIDE DEF w, x, i, out
  <2>5. /\ Append(out, x) \in Seq(Node) /\ Len(Append(out, x)) = k + 1
        /\ Nodes(Append(out, x)) = Nodes(out) \cup {x} /\ Distinct(Append(out, x))
    BY <1>1, <2>4, AppendNodes
  <2>6. Nodes(w.out) = First(s, w.i) \cup First(t, (k + 1) - w.i)
    BY <1>1, <2>1, <2>2, <2>3, <2>5
  <2>7. w.i \in 0..Len(s) /\ (k + 1) - w.i \in 0..Len(t)
    BY <1>1, <2>1, <2>3
  <2>8. w.out \in Seq(Node) /\ Len(w.out) = k + 1 /\ Distinct(w.out)
    BY <2>1, <2>5
  <2>9. w = [i |-> w.i, out |-> w.out]
    BY <2>1
  <2> QED BY <2>6, <2>7, <2>8, <2>9 DEF Mixed, w
<1>5. ASSUME (k + 1) - i <= Len(t) PROVE Mixed(FromRight(t, u, k + 1), s, t, k + 1)
  <2> DEFINE w == FromRight(t, u, k + 1)
             j == k - i
             x == t[j + 1]
  <2>1. (k + 1) - i = j + 1 /\ j + 1 <= Len(t) /\ j \in Nat
    BY <1>2, <1>5
  <2>2. w = [i |-> w.i, out |-> w.out] /\ w.i = i /\ w.out = Append(out, x)
    <3>1. w = [u EXCEPT !.out = Append(out, t[(k + 1) - i])]
      BY DEF FromRight
    <3>2. t[(k + 1) - i] = x
      BY <2>1
    <3> HIDE DEF w, x, i, out
    <3> QED BY <1>1, <3>1, <3>2
  <2> HIDE DEF j
  <2>3. x \in Nodes(t) /\ x \notin First(t, j) /\ First(t, j + 1) = First(t, j) \cup {x}
    BY <2>1, FirstIs
  <2>4. x \in Node /\ x \notin Nodes(out)
    BY <1>1, <1>2, <1>3, <2>3 DEF j
  <2> HIDE DEF w, x, i, out
  <2>5. /\ Append(out, x) \in Seq(Node) /\ Len(Append(out, x)) = k + 1
        /\ Nodes(Append(out, x)) = Nodes(out) \cup {x} /\ Distinct(Append(out, x))
    BY <1>1, <2>4, AppendNodes
  <2>6. Nodes(w.out) = First(s, w.i) \cup First(t, (k + 1) - w.i)
    <3>1. Nodes(out) = First(s, i) \cup First(t, j)
      BY <1>1 DEF j
    <3> QED BY <2>1, <2>2, <2>3, <2>5, <3>1
  <2>7. w.i \in 0..Len(s) /\ (k + 1) - w.i \in 0..Len(t)
    BY <1>1, <1>2, <2>1, <2>2
  <2>8. w.out \in Seq(Node) /\ Len(w.out) = k + 1 /\ Distinct(w.out)
    BY <2>2, <2>5
  <2>9. w = [i |-> w.i, out |-> w.out]
    BY <2>2
  <2> QED BY <2>6, <2>7, <2>8, <2>9 DEF Mixed, w
<1> QED BY <1>4, <1>5

(* The nodes of e are in the order R.                                      *)
Ascends(R, e) == \A a, b \in 1..Len(e) : a < b => <<e[a], e[b]>> \in R

(* One more node at the end.                                               *)
LEMMA AppendAscends ==
  ASSUME NEW S, NEW R, NEW e \in Seq(S), NEW x \in S, Ascends(R, e), \A y \in Nodes(e) : <<y, x>> \in R
  PROVE  Ascends(R, Append(e, x))
<1> DEFINE w == Append(e, x)
           n == Len(e)
<1>1. n \in Nat /\ Len(w) = n + 1 /\ w[n + 1] = x /\ \A a \in 1..n : w[a] = e[a]
  OBVIOUS
<1>2. \A a \in 1..n : <<e[a], x>> \in R
  BY DEF Nodes
<1> HIDE DEF w, n
<1> SUFFICES ASSUME NEW a \in 1..(n + 1), NEW b \in 1..(n + 1), a < b PROVE <<w[a], w[b]>> \in R
  BY <1>1 DEF Ascends, w
<1>3. CASE b = n + 1
  <2>1. a \in 1..n
    BY <1>1, <1>3
  <2> QED BY <1>1, <1>2, <1>3, <2>1
<1>4. CASE b # n + 1
  <2>1. a \in 1..n /\ b \in 1..n
    BY <1>1, <1>4
  <2>2. <<e[a], e[b]>> \in R
    BY <2>1 DEF Ascends, n
  <2> QED BY <1>1, <2>1, <2>2
<1> QED BY <1>3, <1>4

(* The nodes already merged are in order, and before those to come.        *)
InOrder(R, u, s, t, k) ==
    /\ Ascends(R, u.out)
    /\ \A x \in Nodes(u.out) : /\ \A a \in (u.i + 1)..Len(s) : <<x, s[a]>> \in R
                               /\ \A b \in ((k - u.i) + 1)..Len(t) : <<x, t[b]>> \in R

(* One more node, before those to come.                                    *)
LEMMA OrderStep ==
  ASSUME NEW s \in Seq(Node), NEW t \in Seq(Node), NEW R, Ascends(R, s), Ascends(R, t),
         NEW k \in Nat, NEW u, Mixed(u, s, t, k), InOrder(R, u, s, t, k)
  PROVE  /\ (/\ u.i + 1 <= Len(s)
             /\ \A b \in ((k - u.i) + 1)..Len(t) : <<s[u.i + 1], t[b]>> \in R)
              => InOrder(R, FromLeft(s, u), s, t, k + 1)
         /\ (/\ (k + 1) - u.i <= Len(t)
             /\ \A a \in (u.i + 1)..Len(s) : <<t[(k + 1) - u.i], s[a]>> \in R)
              => InOrder(R, FromRight(t, u, k + 1), s, t, k + 1)
<1> DEFINE i == u.i
           j == k - i
           out == u.out
<1>1. i \in 0..Len(s) /\ j \in 0..Len(t) /\ u = [i |-> i, out |-> out] /\ out \in Seq(Node)
  BY DEF Mixed
<1>2. Len(s) \in Nat /\ Len(t) \in Nat /\ i \in Nat /\ j \in Nat /\ (k + 1) - i = j + 1 /\ (k + 1) - (i + 1) = j
  BY <1>1
<1>3. /\ Ascends(R, out)
      /\ \A x \in Nodes(out) : /\ \A a \in (i + 1)..Len(s) : <<x, s[a]>> \in R
                               /\ \A b \in (j + 1)..Len(t) : <<x, t[b]>> \in R
  BY DEF InOrder
<1>4. ASSUME i + 1 <= Len(s), \A b \in (j + 1)..Len(t) : <<s[i + 1], t[b]>> \in R
      PROVE  InOrder(R, FromLeft(s, u), s, t, k + 1)
  <2> DEFINE w == FromLeft(s, u)
             x == s[i + 1]
  <2>1. w.i = i + 1 /\ w.out = Append(out, x)
    BY DEF FromLeft
  <2>2. x \in Node /\ i + 1 \in 1..Len(s) /\ i + 1 \in (i + 1)..Len(s)
    BY <1>2, <1>4
  <2> HIDE DEF out, i, j
  <2>3. \A y \in Nodes(out) : <<y, x>> \in R
    BY <1>3, <2>2
  <2>4. \A a \in ((i + 1) + 1)..Len(s) : a \in (i + 1)..Len(s) /\ a \in 1..Len(s) /\ i + 1 < a
    BY <1>2
  <2>5. \A a \in ((i + 1) + 1)..Len(s) : <<x, s[a]>> \in R
    BY <2>2, <2>4 DEF Ascends
  <2>x. \A b \in (j + 1)..Len(t) : <<x, t[b]>> \in R
    BY <1>4
  <2> HIDE DEF w, x
  <2>6. Ascends(R, Append(out, x)) /\ Nodes(Append(out, x)) = Nodes(out) \cup {x}
    BY <1>1, <1>3, <2>2, <2>3, AppendAscends, AppendNodes
  <2>7. \A y \in Nodes(w.out) : /\ \A a \in (w.i + 1)..Len(s) : <<y, s[a]>> \in R
                                /\ \A b \in (((k + 1) - w.i) + 1)..Len(t) : <<y, t[b]>> \in R
    <3>1. (k + 1) - w.i = j
      BY <1>2, <2>1
    <3> SUFFICES ASSUME NEW y \in Nodes(out) \cup {x}
                 PROVE  /\ \A a \in ((i + 1) + 1)..Len(s) : <<y, s[a]>> \in R
                        /\ \A b \in (j + 1)..Len(t) : <<y, t[b]>> \in R
      BY <2>1, <2>6, <3>1
    <3>2. CASE y = x
      BY <2>5, <2>x, <3>2
    <3>3. CASE y \in Nodes(out)
      BY <1>3, <2>4, <3>3
    <3> QED BY <3>2, <3>3
  <2>8. InOrder(R, w, s, t, k + 1)
    BY <2>1, <2>6, <2>7 DEF InOrder
  <2> QED BY <2>8 DEF w
<1>5. ASSUME j + 1 <= Len(t), \A a \in (i + 1)..Len(s) : <<t[j + 1], s[a]>> \in R
      PROVE  InOrder(R, FromRight(t, u, k + 1), s, t, k + 1)
  <2> DEFINE w == FromRight(t, u, k + 1)
             x == t[j + 1]
  <2>1. w.i = i /\ w.out = Append(out, x)
    <3>1. w = [u EXCEPT !.out = Append(out, t[(k + 1) - i])]
      BY DEF FromRight
    <3>2. t[(k + 1) - i] = x
      BY <1>2
    <3> HIDE DEF w, x, i, out
    <3> QED BY <1>1, <3>1, <3>2
  <2>2. x \in Node /\ j + 1 \in 1..Len(t) /\ j + 1 \in (j + 1)..Len(t)
    BY <1>2, <1>5
  <2> HIDE DEF out, i, j
  <2>3. \A y \in Nodes(out) : <<y, x>> \in R
    BY <1>3, <2>2
  <2>4. \A b \in ((j + 1) + 1)..Len(t) : b \in (j + 1)..Len(t) /\ b \in 1..Len(t) /\ j + 1 < b
    BY <1>2
  <2>5. \A b \in ((j + 1) + 1)..Len(t) : <<x, t[b]>> \in R
    BY <2>2, <2>4 DEF Ascends
  <2>x. \A a \in (i + 1)..Len(s) : <<x, s[a]>> \in R
    BY <1>5
  <2> HIDE DEF w, x
  <2>6. Ascends(R, Append(out, x)) /\ Nodes(Append(out, x)) = Nodes(out) \cup {x}
    BY <1>1, <1>3, <2>2, <2>3, AppendAscends, AppendNodes
  <2>7. \A y \in Nodes(w.out) : /\ \A a \in (w.i + 1)..Len(s) : <<y, s[a]>> \in R
                                /\ \A b \in (((k + 1) - w.i) + 1)..Len(t) : <<y, t[b]>> \in R
    <3>1. (k + 1) - w.i = j + 1
      BY <1>2, <2>1
    <3> SUFFICES ASSUME NEW y \in Nodes(out) \cup {x}
                 PROVE  /\ \A a \in (i + 1)..Len(s) : <<y, s[a]>> \in R
                        /\ \A b \in ((j + 1) + 1)..Len(t) : <<y, t[b]>> \in R
      BY <2>1, <2>6, <3>1
    <3>2. CASE y = x
      BY <2>5, <2>x, <3>2
    <3>3. CASE y \in Nodes(out)
      BY <1>3, <2>4, <3>3
    <3> QED BY <3>2, <3>3
  <2>8. InOrder(R, w, s, t, k + 1)
    BY <2>1, <2>6, <2>7 DEF InOrder
  <2> QED BY <2>8 DEF w
<1> QED BY <1>2, <1>4, <1>5

(* The order that a merge of s and t is to keep: what TakesLeft decides.   *)
Decides(R, m, x, y) == IF TakesLeft(m, x, y) THEN <<x, y>> \in R ELSE <<y, x>> \in R
Transitive(R) == \A x, y, z : <<x, y>> \in R /\ <<y, z>> \in R => <<x, z>> \in R

(* Which of the two first nodes is before all the others.                  *)
LEMMA LeftIsFirst ==
  ASSUME NEW m, NEW s \in Seq(Node), NEW t \in Seq(Node), NEW R, Transitive(R), Ascends(R, s), Ascends(R, t),
         \A x \in Nodes(s), y \in Nodes(t) : Decides(R, m, x, y),
         NEW i \in 0..Len(s), NEW j \in 0..Len(t)
  PROVE  /\ i + 1 <= Len(s) /\ (j + 1 > Len(t) \/ TakesLeft(m, s[i + 1], t[j + 1]))
              => \A b \in (j + 1)..Len(t) : <<s[i + 1], t[b]>> \in R
         /\ j + 1 <= Len(t) /\ (~(i + 1 <= Len(s)) \/ ~TakesLeft(m, s[i + 1], t[j + 1]))
              => \A a \in (i + 1)..Len(s) : <<t[j + 1], s[a]>> \in R
<1>1. Len(s) \in Nat /\ Len(t) \in Nat /\ i \in Nat /\ j \in Nat
  OBVIOUS
<1>2. ASSUME i + 1 <= Len(s), j + 1 <= Len(t)
      PROVE  Decides(R, m, s[i + 1], t[j + 1]) /\ i + 1 \in 1..Len(s) /\ j + 1 \in 1..Len(t)
  <2>1. i + 1 \in 1..Len(s) /\ j + 1 \in 1..Len(t)
    BY <1>1, <1>2
  <2> QED BY <2>1 DEF Nodes
<1>3. ASSUME i + 1 <= Len(s), j + 1 > Len(t) \/ TakesLeft(m, s[i + 1], t[j + 1]), NEW b \in (j + 1)..Len(t)
      PROVE  <<s[i + 1], t[b]>> \in R
  <2>1. j + 1 <= Len(t) /\ ~(j + 1 > Len(t)) /\ b \in 1..Len(t) /\ (b = j + 1 \/ j + 1 < b)
    BY <1>1, <1>3
  <2>2. <<s[i + 1], t[j + 1]>> \in R /\ j + 1 \in 1..Len(t)
    BY <1>2, <1>3, <2>1 DEF Decides
  <2>3. CASE b = j + 1
    BY <2>2, <2>3
  <2>4. CASE j + 1 < b
    <3>1. <<t[j + 1], t[b]>> \in R
      BY <2>1, <2>2, <2>4 DEF Ascends
    <3> QED BY <2>2, <3>1 DEF Transitive
  <2> QED BY <2>1, <2>3, <2>4
<1>4. ASSUME j + 1 <= Len(t), ~(i + 1 <= Len(s)) \/ ~TakesLeft(m, s[i + 1], t[j + 1]), NEW a \in (i + 1)..Len(s)
      PROVE  <<t[j + 1], s[a]>> \in R
  <2>1. i + 1 <= Len(s) /\ a \in 1..Len(s) /\ (a = i + 1 \/ i + 1 < a)
    BY <1>1, <1>4
  <2>2. <<t[j + 1], s[i + 1]>> \in R /\ i + 1 \in 1..Len(s)
    BY <1>2, <1>4, <2>1 DEF Decides
  <2>3. CASE a = i + 1
    BY <2>2, <2>3
  <2>4. CASE i + 1 < a
    <3>1. <<s[i + 1], s[a]>> \in R
      BY <2>1, <2>2, <2>4 DEF Ascends
    <3> QED BY <2>2, <3>1 DEF Transitive
  <2> QED BY <2>1, <2>3, <2>4
<1> QED BY <1>3, <1>4

(* The place of a node in a sequence.                                      *)
At(s, n) == SelectInSeq(s, LAMBDA x : x = n)

(* In a sequence without repetitions a node is at one place.               *)
LEMMA AtIs ==
  ASSUME NEW S, NEW s \in Seq(S), Distinct(s), NEW i \in 1..Len(s)
  PROVE  At(s, s[i]) = i
<1> DEFINE I == {j \in 1..Len(s) : s[j] = s[i]}
<1>1. At(s, s[i]) = IF I # {} THEN Min(I) ELSE 0
  BY Zenon DEF At, SelectInSeq
<1>2. I = {i}
  BY DEF Distinct
<1>3. Min({i}) = i
  BY DEF Min
<1> HIDE DEF I
<1>4. {i} # {}
  OBVIOUS
<1> QED BY <1>1, <1>2, <1>3, <1>4

(* The nodes outside of S keep their links from q to r.                    *)
Elsewhere(q, r, S) == \A x \in Node : x \notin S => r.next[x] = q.next[x] /\ r.prev[x] = q.prev[x]

(* A pointer that is set, unless it is that of NULL.                       *)
LEMMA SetIs ==
  ASSUME NEW f \in [Node -> Ptr], NEW x \in Ptr, NEW y \in Ptr
  PROVE  Set(f, x, y) \in [Node -> Ptr]
BY DEF Set

(* The links and the first node of a part of a list, and a change of them. *)
LEMMA LinksAre ==
  ASSUME NEW q \in Links
  PROVE  q.next \in [Node -> Ptr] /\ q.prev \in [Node -> Ptr] /\ q.head \in Ptr
BY DEF Links, Ptr

LEMMA Rewired ==
  ASSUME NEW q \in Links, NEW f \in [Node -> Ptr], NEW g \in [Node -> Ptr]
  PROVE  LET r == [q EXCEPT !.next = f, !.prev = g]
         IN  r \in Links /\ r.next = f /\ r.prev = g /\ r.head = q.head
BY DEF Links, Ptr

LEMMA Reheaded ==
  ASSUME NEW q \in Links, NEW h \in Ptr
  PROVE  LET r == [q EXCEPT !.head = h]
         IN  r \in Links /\ r.next = q.next /\ r.prev = q.prev /\ r.head = h
BY DEF Links, Ptr

(* A sequence is cut after one of its elements.                            *)
LEMMA CutAfter ==
  ASSUME NEW S, NEW c \in Seq(S), NEW i \in 0..Len(c)
  PROVE  /\ SubSeq(c, 1, i) \in Seq(S) /\ Len(SubSeq(c, 1, i)) = i
         /\ SubSeq(c, i + 1, Len(c)) \in Seq(S) /\ Len(SubSeq(c, i + 1, Len(c))) = Len(c) - i
         /\ \A j \in 1..i : SubSeq(c, 1, i)[j] = c[j]
         /\ \A j \in 1..(Len(c) - i) : SubSeq(c, i + 1, Len(c))[j] = c[i + j]
         /\ c = SubSeq(c, 1, i) \o SubSeq(c, i + 1, Len(c))
<1> DEFINE s == SubSeq(c, 1, i)
           t == SubSeq(c, i + 1, Len(c))
           g == s \o t
<1>1. /\ s \in Seq(S) /\ Len(s) = i /\ t \in Seq(S) /\ Len(t) = Len(c) - i
      /\ Len(c) \in Nat /\ i \in Nat /\ i <= Len(c)
  OBVIOUS
<1>2. \A j \in 1..i : s[j] = c[j]
  OBVIOUS
<1>3. \A j \in 1..(Len(c) - i) : t[j] = c[i + j]
  OBVIOUS
<1> HIDE DEF s, t
<1>4. g \in Seq(S) /\ Len(g) = Len(c)
  <2>1. g \in Seq(S) /\ Len(g) = Len(s) + Len(t)
    BY <1>1, ConcatIs
  <2> QED BY <1>1, <2>1
<1>5. \A j \in 1..Len(c) : g[j] = c[j]
  <2> SUFFICES ASSUME NEW j \in 1..Len(c) PROVE g[j] = c[j]
    OBVIOUS
  <2>1. CASE j <= i
    BY <1>1, <1>2, <2>1
  <2>2. CASE ~(j <= i)
    <3> DEFINE k == j - i
    <3>1. k \in 1..Len(t) /\ k \in 1..(Len(c) - i) /\ i + k = j
      BY <1>1, <2>2
    <3> HIDE DEF k
    <3>2. g[i + k] = t[k]
      BY <1>1, <3>1
    <3> QED BY <1>3, <3>1, <3>2
  <2> QED BY <2>1, <2>2
<1> HIDE DEF g
<1>6. c = g
  BY <1>4, <1>5, SeqEqual
<1> QED BY <1>1, <1>2, <1>3, <1>6 DEF s, t, g

(* One turn of the loop of split_middle, and its recursive function.       *)
SlowFast(q, was) ==
    IF was.fast = NULL \/ q.next[was.fast] = NULL THEN was
    ELSE [slow |-> q.next[was.slow], fast |-> q.next[q.next[was.fast]], prev |-> was.slow]
Runs(f, q, n) ==
    f = [i \in 0..n |-> IF i = 0 THEN [slow |-> q.head, fast |-> q.head, prev |-> NULL] ELSE SlowFast(q, f[i - 1])]

(* It exists.                                                              *)
LEMMA RunsExist ==
  ASSUME NEW q
  PROVE  \A n \in Nat : \E f : Runs(f, q, n)
<1> DEFINE P == {n \in Nat : \E f : Runs(f, q, n)}
           By(was, i) == IF i = 0 THEN [slow |-> q.head, fast |-> q.head, prev |-> NULL] ELSE SlowFast(q, was)
<1>0. \A x, y : By(x, 0) = By(y, 0)
  OBVIOUS
<1>1. 0 \in P
  <2> DEFINE f == [i \in 0..0 |-> By(<<>>, 0)]
  <2>1. \A i \in 0..0 : i = 0 /\ f[i] = By(f[i - 1], i)
    <3> HIDE DEF By
    <3> QED BY <1>0
  <2>2. f = [i \in 0..0 |-> By(f[i - 1], i)]
    <3> HIDE DEF By
    <3> QED BY <2>1
  <2>3. Runs(f, q, 0)
    BY <2>2, Zenon DEF Runs
  <2> HIDE DEF f
  <2> QED BY <2>3
<1>2. \A n \in Nat : n \in P => n + 1 \in P
  <2> SUFFICES ASSUME NEW n \in Nat, n \in P PROVE n + 1 \in P
    OBVIOUS
  <2>1. PICK g : Runs(g, q, n)
    OBVIOUS
  <2> DEFINE f == [i \in 0..(n + 1) |-> IF i <= n THEN g[i] ELSE By(g[n], n + 1)]
  <2>2. \A i \in 0..n : g[i] = By(g[i - 1], i)
    <3>1. g = [i \in 0..n |-> By(g[i - 1], i)]
      BY <2>1, Zenon DEF Runs
    <3> HIDE DEF By
    <3> QED BY <3>1
  <2> HIDE DEF P, By
  <2>3. \A i \in 0..(n + 1) : f[i] = By(f[i - 1], i)
    <3> SUFFICES ASSUME NEW i \in 0..(n + 1) PROVE f[i] = By(f[i - 1], i)
      OBVIOUS
    <3>1. CASE i = 0
      <4>1. 0 \in 0..n /\ f[0] = g[0]
        OBVIOUS
      <4> HIDE DEF f
      <4> QED BY <1>0, <2>2, <3>1, <4>1
    <3>2. CASE i # 0 /\ i <= n
      <4>1. i \in 0..n /\ i - 1 \in 0..(n + 1) /\ i - 1 <= n
        BY <3>2
      <4> QED BY <2>2, <3>2, <4>1
    <3>3. CASE i = n + 1
      <4>1. i - 1 = n /\ n \in 0..(n + 1) /\ n <= n /\ ~(n + 1 <= n)
        BY <3>3
      <4> QED BY <3>3, <4>1
    <3> QED BY <3>1, <3>2, <3>3
  <2>4. f = [i \in 0..(n + 1) |-> By(f[i - 1], i)]
    BY <2>3
  <2>5. Runs(f, q, n + 1)
    BY <2>4, Zenon DEF Runs, By
  <2> HIDE DEF f
  <2> QED BY <2>5 DEF P
<1> HIDE DEF P
<1>3. \A n \in Nat : n \in P
  BY <1>1, <1>2, NatInd
<1> QED BY <1>3 DEF P

(* slow and fast after h turns along s.                                    *)
Turned(s, h) ==
    [slow |-> s[h + 1], fast |-> IF 2 * h + 1 <= Len(s) THEN s[2 * h + 1] ELSE NULL,
     prev |-> IF h = 0 THEN NULL ELSE s[h]]

(* They stop when slow has gone through half of s.                         *)
LEMMA TurnedStep ==
  ASSUME NEW q, NEW s \in Seq(Node), \A i \in 1..Len(s) : q.next[s[i]] = IF i = Len(s) THEN NULL ELSE s[i + 1],
         NEW M \in Nat, 2 * M <= Len(s), Len(s) < 2 * M + 2, NEW h \in 0..M
  PROVE  SlowFast(q, Turned(s, h)) = Turned(s, IF h < M THEN h + 1 ELSE h)
<1> DEFINE n == Len(s)
           w == Turned(s, h)
<1>1. n \in Nat /\ h \in Nat /\ h <= M /\ \A i \in 1..n : s[i] \in Node /\ s[i] # NULL
  BY NullIsNoNode
<1>2. w.slow = s[h + 1] /\ w.fast = (IF 2 * h + 1 <= n THEN s[2 * h + 1] ELSE NULL) /\ w.prev = (IF h = 0 THEN NULL ELSE s[h])
  BY DEF Turned
<1>3. CASE h < M
  <2>1. /\ 2 * h + 1 \in 1..n /\ 2 * h + 1 # n /\ (2 * h + 1) + 1 = 2 * h + 2 /\ 2 * h + 2 \in 1..n
        /\ h + 1 \in 1..n /\ h + 1 # n /\ (h + 1) + 1 = h + 2 /\ 2 * (h + 1) + 1 = 2 * h + 3
        /\ (2 * h + 2 = n <=> ~(2 * h + 3 <= n)) /\ (2 * h + 2) + 1 = 2 * h + 3 /\ h + 1 # 0
    BY <1>1, <1>3
  <2>2. w.fast = s[2 * h + 1] /\ q.next[w.fast] = s[2 * h + 2] /\ w.fast # NULL /\ q.next[w.fast] # NULL
    BY <1>1, <1>2, <2>1
  <2>3. q.next[q.next[w.fast]] = IF 2 * h + 3 <= n THEN s[2 * h + 3] ELSE NULL
    BY <2>1, <2>2
  <2>4. q.next[w.slow] = s[h + 2]
    BY <1>2, <2>1
  <2> HIDE DEF w
  <2>5. SlowFast(q, w) = [slow |-> s[h + 2], fast |-> IF 2 * h + 3 <= n THEN s[2 * h + 3] ELSE NULL, prev |-> s[h + 1]]
    BY <1>2, <2>2, <2>3, <2>4 DEF SlowFast
  <2>6. Turned(s, h + 1) = [slow |-> s[h + 2], fast |-> IF 2 * h + 3 <= n THEN s[2 * h + 3] ELSE NULL, prev |-> s[h + 1]]
    BY <2>1 DEF Turned
  <2> QED BY <1>3, <2>5, <2>6 DEF w
<1>4. CASE ~(h < M)
  <2>1. h = M
    BY <1>1, <1>4
  <2>2. CASE 2 * h + 1 <= n
    <3>1. 2 * h + 1 = n /\ n \in 1..n
      BY <1>1, <2>1, <2>2
    <3>2. w.fast = s[n]
      <4>1. 2 * h + 1 <= n /\ s[2 * h + 1] = s[n]
        BY <2>2, <3>1
      <4> HIDE DEF w
      <4> QED BY <1>2, <4>1
    <3>3. q.next[s[n]] = NULL
      BY <3>1
    <3> HIDE DEF w
    <3> QED BY <1>4, <3>2, <3>3 DEF SlowFast, w
  <2>3. CASE ~(2 * h + 1 <= n)
    <3>1. w.fast = NULL
      BY <1>2, <2>3
    <3> HIDE DEF w
    <3> QED BY <1>4, <3>1 DEF SlowFast, w
  <2> QED BY <2>2, <2>3
<1> QED BY <1>3, <1>4

(* split_middle: slow begins the right half, and prev ends the left one.   *)
LEMMA MiddleIs ==
  ASSUME NEW q \in Links, NEW s \in Seq(Node), Len(s) >= 2, q.head = s[1],
         \A i \in 1..Len(s) : q.next[s[i]] = IF i = Len(s) THEN NULL ELSE s[i + 1], Len(s) <= N
  PROVE  \E M \in 1..(Len(s) - 1) :
            split_middle(q) = [cut |-> [q EXCEPT !.next = Set(@, s[M], NULL), !.prev = Set(@, s[M + 1], NULL)],
                               right |-> s[M + 1]]
<1> DEFINE n == Len(s)
           M == n \div 2
<1>1. n \in Nat /\ M \in 1..(n - 1) /\ 2 * M <= n /\ n < 2 * M + 2 /\ N \in Nat /\ M <= N /\ M \in Nat /\ M # 0
  BY NullIsNoNode
<1>2. PICK f : Runs(f, q, N) /\ split_middle(q) = [cut |-> [q EXCEPT !.next = Set(@, f[N].prev, NULL), !.prev = Set(@, f[N].slow, NULL)],
                                                  right |-> f[N].slow]
  <2> DEFINE g == CHOOSE f : Runs(f, q, N)
  <2>1. Runs(g, q, N)
    BY <1>1, RunsExist
  <2>2. split_middle(q) = [cut |-> [q EXCEPT !.next = Set(@, g[N].prev, NULL), !.prev = Set(@, g[N].slow, NULL)],
                           right |-> g[N].slow]
    BY Zenon DEF split_middle, Runs, SlowFast
  <2> HIDE DEF g
  <2> QED BY <2>1, <2>2
<1>3. \A k \in 0..N : f[k] = IF k = 0 THEN [slow |-> q.head, fast |-> q.head, prev |-> NULL] ELSE SlowFast(q, f[k - 1])
  <2> DEFINE By(k) == IF k = 0 THEN [slow |-> q.head, fast |-> q.head, prev |-> NULL] ELSE SlowFast(q, f[k - 1])
  <2>1. f = [k \in 0..N |-> By(k)]
    BY <1>2, Zenon DEF Runs
  <2> HIDE DEF By
  <2>2. \A k \in 0..N : f[k] = By(k)
    BY <2>1
  <2> QED BY <2>2 DEF By
<1> HIDE DEF M
<1> DEFINE Upto(k) == IF k <= M THEN k ELSE M
           P == {k \in Nat : k <= N => f[k] = Turned(s, Upto(k))}
<1>4. 0 \in P
  <2>1. 0 \in 0..N /\ Upto(0) = 0 /\ 0 \in Nat
    BY <1>1
  <2>2. Turned(s, 0) = [slow |-> s[1], fast |-> s[1], prev |-> NULL]
    <3>1. 2 * 0 + 1 = 1 /\ 0 + 1 = 1 /\ 1 <= n
      BY <1>1
    <3> QED BY <3>1 DEF Turned
  <2>3. f[0] = Turned(s, 0)
    BY <1>3, <2>1, <2>2
  <2> QED BY <2>1, <2>3
<1>5. \A k \in Nat : k \in P => k + 1 \in P
  <2> SUFFICES ASSUME NEW k \in Nat, k \in P, k + 1 <= N PROVE f[k + 1] = Turned(s, Upto(k + 1))
    OBVIOUS
  <2> DEFINE h == Upto(k)
  <2>1. k + 1 \in 0..N /\ k + 1 # 0 /\ (k + 1) - 1 = k /\ k <= N /\ h \in 0..M /\ Upto(k + 1) = IF h < M THEN h + 1 ELSE h
    BY <1>1
  <2>2. f[k] = Turned(s, h)
    BY <2>1
  <2> HIDE DEF h, Upto, P
  <2>3. f[k + 1] = SlowFast(q, Turned(s, h))
    BY <1>3, <2>1, <2>2
  <2>4. SlowFast(q, Turned(s, h)) = Turned(s, IF h < M THEN h + 1 ELSE h)
    BY <1>1, <2>1, TurnedStep
  <2> QED BY <2>1, <2>3, <2>4
<1> HIDE DEF P
<1>6. N \in P
  BY <1>1, <1>4, <1>5, NatInd
<1>7. f[N] = Turned(s, M)
  BY <1>1, <1>6 DEF P
<1>8. f[N].slow = s[M + 1] /\ f[N].prev = s[M]
  BY <1>1, <1>7 DEF Turned
<1> QED BY <1>1, <1>2, <1>8

(* The two halves are linked each on its own.                              *)
LEMMA HalvesAre ==
  ASSUME NEW q \in Links, NEW s \in Seq(Node), Distinct(s), Len(s) >= 2, q.head = s[1], Seg(q, s, NULL, NULL)
  PROVE  \E u, v \in Seq(Node) :
            /\ s = u \o v /\ u # <<>> /\ v # <<>>
            /\ split_middle(q).right = v[1]
            /\ LET r == split_middle(q).cut
               IN  /\ r \in Links /\ r.head = u[1] /\ Seg(r, u, NULL, NULL) /\ Seg(r, v, NULL, NULL)
                   /\ Elsewhere(q, r, Nodes(s))
<1> DEFINE n == Len(s)
<1>1. n \in Nat /\ n <= N /\ \A i \in 1..n : s[i] \in Node
  BY ShortEnough
<1>2. PICK M \in 1..(n - 1) :
         split_middle(q) = [cut |-> [q EXCEPT !.next = Set(@, s[M], NULL), !.prev = Set(@, s[M + 1], NULL)],
                            right |-> s[M + 1]]
  <2>1. \A i \in 1..n : q.next[s[i]] = IF i = n THEN NULL ELSE s[i + 1]
    BY DEF Seg
  <2> QED BY <1>1, <2>1, MiddleIs
<1> DEFINE u == SubSeq(s, 1, M)
           v == SubSeq(s, M + 1, n)
           f == Set(q.next, s[M], NULL)
           g == Set(q.prev, s[M + 1], NULL)
           r == [q EXCEPT !.next = f, !.prev = g]
<1>3. M \in 0..n /\ M \in 1..n /\ M + 1 \in 1..n /\ M \in Nat /\ M # 0 /\ n - M # 0 /\ n - M \in Nat /\ 1 \in 1..M /\ 1 \in 1..(n - M) /\ M \in 1..M
  BY <1>1
<1>30. s[M] \in Ptr /\ s[M + 1] \in Ptr /\ NULL \in Ptr
  BY <1>1, <1>3 DEF Ptr
<1>4. /\ u \in Seq(Node) /\ Len(u) = M /\ v \in Seq(Node) /\ Len(v) = n - M /\ s = u \o v
      /\ (\A j \in 1..M : u[j] = s[j]) /\ (\A j \in 1..(n - M) : v[j] = s[M + j])
  BY <1>3, CutAfter
<1>5. u # <<>> /\ v # <<>> /\ v[1] = s[M + 1] /\ u[1] = s[1] /\ u[M] = s[M]
  <2> HIDE DEF u, v
  <2> QED BY <1>3, <1>4
<1> HIDE DEF u, v
<1>6. q.next \in [Node -> Ptr] /\ q.prev \in [Node -> Ptr] /\ q.head \in Ptr
  BY LinksAre
<1>7. /\ f \in [Node -> Ptr] /\ g \in [Node -> Ptr]
      /\ \A x \in Node : f[x] = (IF x = s[M] THEN NULL ELSE q.next[x]) /\ g[x] = (IF x = s[M + 1] THEN NULL ELSE q.prev[x])
  <2>1. f \in [Node -> Ptr] /\ g \in [Node -> Ptr]
    BY <1>30, <1>6, SetIs
  <2>2. \A x \in Node : f[x] = (IF x = s[M] THEN NULL ELSE q.next[x]) /\ g[x] = (IF x = s[M + 1] THEN NULL ELSE q.prev[x])
    BY DEF Set
  <2> HIDE DEF f, g
  <2> QED BY <2>1, <2>2
<1> HIDE DEF f, g
<1>8. r \in Links /\ r.next = f /\ r.prev = g /\ r.head = q.head
  BY <1>6, <1>7 DEF Links, Ptr
<1> HIDE DEF r
<1>9. Seg(q, u, NULL, FirstOf(v, NULL)) /\ Seg(q, v, LastOf(u, NULL), NULL)
  BY <1>4, SegConcat
<1>10. Distinct(u) /\ Distinct(v) /\ Nodes(u) \cap Nodes(v) = {} /\ Nodes(s) = Nodes(u) \cup Nodes(v)
  BY <1>4, DistinctConcat, NodesConcat
<1>11. FirstOf(v, NULL) = v[1] /\ LastOf(v, u[M]) = LastOf(v, LastOf(u, NULL)) /\ LastOf(u, NULL) = u[M] /\ FirstOf(u, v[1]) = u[1]
  BY <1>3, <1>4 DEF FirstOf, LastOf
<1>12. v[1] \in Nodes(v) /\ u[M] \in Nodes(u) /\ u[1] \in Nodes(u) /\ v[n - M] \in Nodes(v)
  <2>1. 1 \in 1..Len(v) /\ M \in 1..Len(u) /\ 1 \in 1..Len(u) /\ n - M \in 1..Len(v)
    BY <1>3, <1>4
  <2> QED BY <2>1 DEF Nodes
<1>13. Nodes(u) \subseteq Node /\ Nodes(v) \subseteq Node
  BY <1>4, NodesIn
<1>14. Seg(r, u, NULL, NULL)
  <2>1. q.prev[u[1]] = NULL
    <3>1. 1 \in 1..n
      BY <1>1, <1>3
    <3> QED BY <1>5, <3>1 DEF Seg
  <2>2. \A x \in Nodes(u) : /\ r.next[x] = IF x = LastOf(u, NULL) THEN NULL ELSE q.next[x]
                            /\ r.prev[x] = IF x = FirstOf(u, v[1]) THEN NULL ELSE q.prev[x]
    <3> SUFFICES ASSUME NEW x \in Nodes(u)
                 PROVE  /\ r.next[x] = IF x = LastOf(u, NULL) THEN NULL ELSE q.next[x]
                        /\ r.prev[x] = IF x = FirstOf(u, v[1]) THEN NULL ELSE q.prev[x]
      OBVIOUS
    <3>1. x \in Node /\ x # v[1]
      BY <1>10, <1>12, <1>13
    <3> QED BY <1>5, <1>7, <1>8, <1>11, <2>1, <3>1
  <2>3. Seg(q, u, NULL, v[1])
    BY <1>9, <1>11
  <2> QED BY <1>4, <1>10, <2>2, <2>3, SegRelink
<1>15. Seg(r, v, NULL, NULL)
  <2>1. q.next[v[n - M]] = NULL
    <3>1. n \in 1..n /\ n - M \in 1..(n - M) /\ M + (n - M) = n
      BY <1>1, <1>3
    <3>2. v[n - M] = s[n]
      BY <1>4, <3>1
    <3>3. q.next[s[n]] = NULL
      BY <3>1 DEF Seg
    <3> QED BY <3>2, <3>3
  <2>2. LastOf(v, u[M]) = v[n - M] /\ FirstOf(v, NULL) = v[1]
    BY <1>3, <1>4, <1>11 DEF LastOf
  <2>3. \A x \in Nodes(v) : /\ r.next[x] = IF x = LastOf(v, u[M]) THEN NULL ELSE q.next[x]
                            /\ r.prev[x] = IF x = FirstOf(v, NULL) THEN NULL ELSE q.prev[x]
    <3> SUFFICES ASSUME NEW x \in Nodes(v)
                 PROVE  /\ r.next[x] = IF x = LastOf(v, u[M]) THEN NULL ELSE q.next[x]
                        /\ r.prev[x] = IF x = FirstOf(v, NULL) THEN NULL ELSE q.prev[x]
      OBVIOUS
    <3>1. x \in Node /\ x # u[M]
      BY <1>10, <1>12, <1>13
    <3> QED BY <1>5, <1>7, <1>8, <2>1, <2>2, <3>1
  <2>4. Seg(q, v, u[M], NULL)
    BY <1>9, <1>11
  <2> QED BY <1>4, <1>10, <2>3, <2>4, SegRelink
<1>16. Elsewhere(q, r, Nodes(s))
  <2>1. s[M] \in Nodes(s) /\ s[M + 1] \in Nodes(s)
    BY <1>3 DEF Nodes
  <2> QED BY <1>7, <1>8, <2>1 DEF Elsewhere
<1>17. split_middle(q).cut = r /\ split_middle(q).right = v[1]
  BY <1>2, <1>5 DEF r, f, g
<1> QED BY <1>4, <1>5, <1>8, <1>14, <1>15, <1>16, <1>17

(* pick at the end of the merge so far.                                    *)
Merger(w) == w = [q |-> w.q, a |-> w.a, b |-> w.b, tail |-> w.tail]
LEMMA PickedIs ==
  ASSUME NEW q \in Links, NEW w, Merger(w), NEW out \in Seq(Node), NEW x \in Node, Distinct(out), x \notin Nodes(out),
         w.q \in Links, Seg(w.q, out, NULL, NULL), Elsewhere(q, w.q, Nodes(out)), Len(out) > 0 => w.q.head = out[1],
         w.tail = LastOf(out, NULL)
  PROVE  /\ Merger(Picked(w, x)) /\ Picked(w, x).a = w.a /\ Picked(w, x).b = w.b /\ Picked(w, x).tail = x
         /\ Picked(w, x).q \in Links
         /\ Seg(Picked(w, x).q, Append(out, x), NULL, NULL) /\ Elsewhere(q, Picked(w, x).q, Nodes(Append(out, x)))
         /\ Picked(w, x).q.head = Append(out, x)[1]
<1> DEFINE L == Len(out)
           e == Append(out, x)
           tail == LastOf(out, NULL)
           r == w.q
           f == Set(Set(r.next, tail, x), x, NULL)
           g == Set(r.prev, x, tail)
           h == IF tail = NULL THEN x ELSE r.head
           p == [r EXCEPT !.next = f, !.prev = g, !.head = h]
<1>1. /\ L \in Nat /\ e \in Seq(Node) /\ Len(e) = L + 1 /\ e[L + 1] = x /\ \A i \in 1..L : e[i] = out[i] /\ out[i] \in Node
      /\ r.next \in [Node -> Ptr] /\ r.prev \in [Node -> Ptr] /\ r.head \in Ptr
  <2>1. r.next \in [Node -> Ptr] /\ r.prev \in [Node -> Ptr] /\ r.head \in Ptr
    BY LinksAre
  <2> QED BY <2>1
<1>2. x # NULL /\ x \in Ptr /\ NULL \in Ptr /\ \A i \in 1..L : out[i] # NULL
  BY <1>1, NullIsNoNode DEF Ptr
<1>3. tail = (IF L = 0 THEN NULL ELSE out[L]) /\ (L > 0 => L \in 1..L /\ tail \in Node /\ tail # x /\ tail # NULL)
  <2>1. L > 0 => L \in 1..L
    BY <1>1
  <2> QED BY <1>1, <1>2, <2>1 DEF LastOf, Nodes
<1>4. tail \in Ptr /\ h \in Ptr
  BY <1>1, <1>2, <1>3 DEF Ptr
<1> HIDE DEF e, tail
<1>5. f \in [Node -> Ptr] /\ g \in [Node -> Ptr]
  <2>1. Set(r.next, tail, x) \in [Node -> Ptr]
    BY <1>1, <1>2, <1>4, SetIs
  <2> QED BY <1>1, <1>2, <1>4, <2>1, SetIs
<1>6. \A y \in Node : f[y] = (IF y = x THEN NULL ELSE IF y = tail THEN x ELSE r.next[y])
                   /\ g[y] = (IF y = x THEN tail ELSE r.prev[y])
  BY DEF Set
<1>7. Merger(Picked(w, x)) /\ Picked(w, x).q = p /\ Picked(w, x).a = w.a /\ Picked(w, x).b = w.b /\ Picked(w, x).tail = x
  <2>1. w = [q |-> r, a |-> w.a, b |-> w.b, tail |-> tail] /\ w.tail = tail
    BY DEF Merger, tail
  <2>2. f = Set(Set(r.next, tail, x), x, NULL) /\ g = Set(r.prev, x, tail) /\ h = (IF tail = NULL THEN x ELSE r.head)
    OBVIOUS
  <2> HIDE DEF f, g, h
  <2>3. p = [r EXCEPT !.next = f, !.prev = g, !.head = h] /\ w.q = r
    OBVIOUS
  <2>4. r = [next |-> r.next, prev |-> r.prev, head |-> r.head]
    BY DEF Links
  <2> HIDE DEF p, r
  <2>5. Picked(w, x) = [w EXCEPT !.q = p, !.tail = x]
    BY <2>1, <2>2, <2>3, <2>4 DEF Picked
  <2>6. Picked(w, x) = [q |-> p, a |-> w.a, b |-> w.b, tail |-> x]
    BY <2>1, <2>5
  <2> QED BY <2>6 DEF Merger
<1> HIDE DEF f, g, h
<1>8. p \in Links /\ p.next = f /\ p.prev = g /\ p.head = h
  BY <1>4, <1>5 DEF Links, Ptr
<1>9. Seg(p, e, NULL, NULL)
  <2> SUFFICES ASSUME NEW i \in 1..Len(e)
               PROVE  /\ f[e[i]] = IF i = Len(e) THEN NULL ELSE e[i + 1]
                      /\ g[e[i]] = IF i = 1 THEN NULL ELSE e[i - 1]
    BY <1>8 DEF Seg
  <2>1. CASE i = L + 1
    <3>1. f[x] = NULL /\ g[x] = tail
      BY <1>6
    <3>2. L > 0 => i # 1 /\ i - 1 = L /\ e[L] = out[L]
      BY <1>1, <1>3, <2>1
    <3>3. L = 0 => i = 1
      BY <2>1
    <3> QED BY <1>1, <1>3, <2>1, <3>1, <3>2, <3>3
  <2>2. CASE i # L + 1
    <3>1. i \in 1..L /\ e[i] = out[i] /\ out[i] \in Node /\ i # Len(e)
      BY <1>1, <2>2
    <3>2. out[i] # x
      BY <3>1 DEF Nodes
    <3>3. out[i] = tail <=> i = L
      <4>1. L \in 1..L /\ tail = out[L]
        BY <1>1, <1>3, <3>1
      <4> QED BY <3>1, <4>1 DEF Distinct
    <3>4. r.next[out[i]] = (IF i = L THEN NULL ELSE out[i + 1]) /\ r.prev[out[i]] = (IF i = 1 THEN NULL ELSE out[i - 1])
      BY <3>1 DEF Seg
    <3>5. i # L => i + 1 \in 1..L /\ e[i + 1] = out[i + 1]
      BY <1>1, <3>1
    <3>6. i # 1 => i - 1 \in 1..L /\ e[i - 1] = out[i - 1]
      BY <1>1, <3>1
    <3>7. f[out[i]] = IF i = L THEN x ELSE out[i + 1]
      BY <1>6, <3>1, <3>2, <3>3, <3>4
    <3>8. g[out[i]] = IF i = 1 THEN NULL ELSE out[i - 1]
      BY <1>6, <3>1, <3>2, <3>4
    <3> QED BY <1>1, <3>1, <3>5, <3>6, <3>7, <3>8
  <2> QED BY <2>1, <2>2
<1>10. Elsewhere(q, p, Nodes(e))
  <2>1. Nodes(e) = Nodes(out) \cup {x}
    BY AppendNodes DEF e
  <2>2. L > 0 => tail \in Nodes(out)
    BY <1>3 DEF Nodes
  <2>3. L = 0 => tail = NULL
    BY <1>3
  <2> QED BY <1>1, <1>6, <1>8, <2>1, <2>2, <2>3, NullIsNoNode DEF Elsewhere
<1>11. p.head = e[1]
  <2>1. CASE L = 0
    BY <1>1, <1>3, <1>8, <2>1 DEF h
  <2>2. CASE L # 0
    <3>1. 1 \in 1..L /\ L > 0
      BY <1>1, <2>2
    <3>2. e[1] = out[1] /\ tail # NULL
      BY <1>1, <1>3, <3>1
    <3> QED BY <1>8, <3>1, <3>2 DEF h
  <2> QED BY <2>1, <2>2
<1> HIDE DEF p
<1> QED BY <1>7, <1>8, <1>9, <1>10, <1>11 DEF e

(* What is left of a list after its first i nodes.                         *)
LEMMA TailIs ==
  ASSUME NEW q, NEW s \in Seq(Node), Distinct(s), Seg(q, s, NULL, NULL), NEW i \in 0..Len(s)
  PROVE  \E v, z :
            /\ v \in Seq(Node)
            /\ Len(v) = Len(s) - i /\ (\A j \in 1..(Len(s) - i) : v[j] = s[i + j])
            /\ Distinct(v) /\ Seg(q, v, z, NULL)
            /\ Nodes(s) = First(s, i) \cup Nodes(v) /\ First(s, i) \cap Nodes(v) = {}
            /\ \A R : Ascends(R, s) => Ascends(R, v)
<1> DEFINE g == SubSeq(s, 1, i)
           v == SubSeq(s, i + 1, Len(s))
<1>1. /\ g \in Seq(Node) /\ Len(g) = i /\ v \in Seq(Node) /\ Len(v) = Len(s) - i /\ s = g \o v
      /\ (\A j \in 1..i : g[j] = s[j]) /\ (\A j \in 1..(Len(s) - i) : v[j] = s[i + j])
  BY CutAfter
<1> HIDE DEF g, v
<1>2. Seg(q, v, LastOf(g, NULL), NULL)
  BY <1>1, SegConcat
<1>3. Distinct(v) /\ Nodes(g) \cap Nodes(v) = {} /\ Nodes(s) = Nodes(g) \cup Nodes(v)
  BY <1>1, DistinctConcat, NodesConcat
<1>4. Nodes(g) = First(s, i)
  BY <1>1 DEF Nodes, First
<1>5. \A R : Ascends(R, s) => Ascends(R, v)
  <2> SUFFICES ASSUME NEW R, Ascends(R, s), NEW a \in 1..Len(v), NEW b \in 1..Len(v), a < b PROVE <<v[a], v[b]>> \in R
    BY Zenon DEF Ascends
  <2>1. v[a] = s[i + a] /\ v[b] = s[i + b] /\ i + a \in 1..Len(s) /\ i + b \in 1..Len(s) /\ i + a < i + b
    BY <1>1
  <2>2. <<s[i + a], s[i + b]>> \in R
    BY <2>1 DEF Ascends
  <2> QED BY <2>1, <2>2
<1> QED BY <1>1, <1>2, <1>3, <1>4, <1>5

(* The rest of one part is linked after the merge so far.                  *)
LEMMA RestLinked ==
  ASSUME NEW q \in Links, NEW r \in Links, NEW out \in Seq(Node), NEW v \in Seq(Node), out # <<>>, v # <<>>,
         Distinct(out), Distinct(v), Nodes(out) \cap Nodes(v) = {},
         Seg(r, out, NULL, NULL), Elsewhere(q, r, Nodes(out)), NEW z, Seg(q, v, z, NULL)
  PROVE  LET o == LinkedRest(r, LastOf(out, NULL), v[1])
         IN  /\ o \in Links /\ o.head = r.head /\ Seg(o, out \o v, NULL, NULL) /\ Distinct(out \o v)
             /\ Elsewhere(q, o, Nodes(out) \cup Nodes(v))
<1> DEFINE L == Len(out)
           x == out[L]
           y == v[1]
           f == Set(r.next, x, y)
           g == Set(r.prev, y, x)
           o == [r EXCEPT !.next = f, !.prev = g]
<1>1. L \in Nat /\ L # 0 /\ Len(v) \in Nat /\ Len(v) # 0 /\ Nodes(out) \subseteq Node /\ Nodes(v) \subseteq Node
  BY NodesIn
<1>2. L \in 1..L /\ 1 \in 1..L /\ 1 \in 1..Len(v) /\ Len(v) \in 1..Len(v)
  BY <1>1
<1>3. x \in Nodes(out) /\ y \in Nodes(v) /\ out[1] \in Nodes(out) /\ v[Len(v)] \in Nodes(v)
  BY <1>2 DEF Nodes
<1>4. x \in Ptr /\ y \in Ptr /\ x \notin Nodes(v) /\ y \notin Nodes(out)
  BY <1>1, <1>3 DEF Ptr
<1>5. r.next \in [Node -> Ptr] /\ r.prev \in [Node -> Ptr] /\ r.head \in Ptr
  BY LinksAre
<1>6. f \in [Node -> Ptr] /\ g \in [Node -> Ptr]
  BY <1>4, <1>5, SetIs
<1>7. \A n \in Node : f[n] = (IF n = x THEN y ELSE r.next[n]) /\ g[n] = (IF n = y THEN x ELSE r.prev[n])
  BY DEF Set
<1>8. LastOf(out, NULL) = x /\ LastOf(out, z) = x /\ FirstOf(out, y) = out[1] /\ FirstOf(out, NULL) = out[1]
      /\ FirstOf(v, NULL) = y /\ LastOf(v, x) = v[Len(v)] /\ LastOf(v, z) = v[Len(v)]
  BY <1>1 DEF LastOf, FirstOf
<1>9. LinkedRest(r, LastOf(out, NULL), v[1]) = o
  BY <1>8 DEF LinkedRest, Links
<1> HIDE DEF f, g, x, y
<1>10. o \in Links /\ o.next = f /\ o.prev = g /\ o.head = r.head
  BY <1>5, <1>6 DEF Links, Ptr
<1> HIDE DEF o
<1>11. Seg(o, out, NULL, y)
  <2>1. r.prev[out[1]] = NULL
    BY <1>2 DEF Seg
  <2>2. \A n \in Nodes(out) : /\ o.next[n] = IF n = LastOf(out, NULL) THEN y ELSE r.next[n]
                              /\ o.prev[n] = IF n = FirstOf(out, NULL) THEN NULL ELSE r.prev[n]
    BY <1>1, <1>3, <1>4, <1>7, <1>8, <1>10, <2>1
  <2> QED BY <2>2, SegRelink
<1>12. Seg(o, v, x, NULL)
  <2>1. q.next[v[Len(v)]] = NULL
    BY <1>2 DEF Seg
  <2>2. \A n \in Nodes(v) : r.next[n] = q.next[n] /\ r.prev[n] = q.prev[n]
    BY <1>1 DEF Elsewhere
  <2>3. \A n \in Nodes(v) : /\ o.next[n] = IF n = LastOf(v, z) THEN NULL ELSE q.next[n]
                            /\ o.prev[n] = IF n = FirstOf(v, NULL) THEN x ELSE q.prev[n]
    BY <1>1, <1>3, <1>4, <1>7, <1>8, <1>10, <2>1, <2>2
  <2> QED BY <2>3, SegRelink
<1>13. Seg(o, out \o v, NULL, NULL)
  BY <1>8, <1>11, <1>12, SegConcat
<1>14. Elsewhere(q, o, Nodes(out) \cup Nodes(v))
  <2> SUFFICES ASSUME NEW n \in Node, n \notin Nodes(out) \cup Nodes(v) PROVE o.next[n] = q.next[n] /\ o.prev[n] = q.prev[n]
    BY DEF Elsewhere
  <2>1. r.next[n] = q.next[n] /\ r.prev[n] = q.prev[n]
    BY DEF Elsewhere
  <2>2. n # x /\ n # y
    BY <1>3
  <2> QED BY <1>7, <1>10, <2>1, <2>2
<1>15. Distinct(out \o v)
  BY DistinctConcat
<1> QED BY <1>9, <1>10, <1>13, <1>14, <1>15

(* One turn of the loop of merge_sorted, and its recursive function.       *)
Takes(m, was) ==
    IF was.a = NULL \/ was.b = NULL THEN was
    ELSE IF TakesLeft(m, was.a, was.b) THEN [Picked(was, was.a) EXCEPT !.a = was.q.next[was.a]]
    ELSE [Picked(was, was.b) EXCEPT !.b = was.q.next[was.b]]
Turns(f, m, q, a, b, n) ==
    f = [k \in 0..n |-> IF k = 0 THEN [q |-> q, a |-> a, b |-> b, tail |-> NULL] ELSE Takes(m, f[k - 1])]

(* It exists.                                                              *)
LEMMA TurnsExist ==
  ASSUME NEW m, NEW q, NEW a, NEW b
  PROVE  \A n \in Nat : \E f : Turns(f, m, q, a, b, n)
<1> DEFINE P == {n \in Nat : \E f : Turns(f, m, q, a, b, n)}
           By(was, i) == IF i = 0 THEN [q |-> q, a |-> a, b |-> b, tail |-> NULL] ELSE Takes(m, was)
<1>0. \A x, y : By(x, 0) = By(y, 0)
  OBVIOUS
<1>1. 0 \in P
  <2> DEFINE f == [i \in 0..0 |-> By(<<>>, 0)]
  <2>1. \A i \in 0..0 : i = 0 /\ f[i] = By(f[i - 1], i)
    <3> HIDE DEF By
    <3> QED BY <1>0
  <2>2. f = [i \in 0..0 |-> By(f[i - 1], i)]
    <3> HIDE DEF By
    <3> QED BY <2>1
  <2>3. Turns(f, m, q, a, b, 0)
    BY <2>2, Zenon DEF Turns
  <2> HIDE DEF f
  <2> QED BY <2>3
<1>2. \A n \in Nat : n \in P => n + 1 \in P
  <2> SUFFICES ASSUME NEW n \in Nat, n \in P PROVE n + 1 \in P
    OBVIOUS
  <2>1. PICK g : Turns(g, m, q, a, b, n)
    OBVIOUS
  <2> DEFINE f == [i \in 0..(n + 1) |-> IF i <= n THEN g[i] ELSE By(g[n], n + 1)]
  <2>2. \A i \in 0..n : g[i] = By(g[i - 1], i)
    <3>1. g = [i \in 0..n |-> By(g[i - 1], i)]
      BY <2>1, Zenon DEF Turns
    <3> HIDE DEF By
    <3> QED BY <3>1
  <2> HIDE DEF P, By
  <2>3. \A i \in 0..(n + 1) : f[i] = By(f[i - 1], i)
    <3> SUFFICES ASSUME NEW i \in 0..(n + 1) PROVE f[i] = By(f[i - 1], i)
      OBVIOUS
    <3>1. CASE i = 0
      <4>1. 0 \in 0..n /\ f[0] = g[0]
        OBVIOUS
      <4> HIDE DEF f
      <4> QED BY <1>0, <2>2, <3>1, <4>1
    <3>2. CASE i # 0 /\ i <= n
      <4>1. i \in 0..n /\ i - 1 \in 0..(n + 1) /\ i - 1 <= n
        BY <3>2
      <4> QED BY <2>2, <3>2, <4>1
    <3>3. CASE i = n + 1
      <4>1. i - 1 = n /\ n \in 0..(n + 1) /\ n <= n /\ ~(n + 1 <= n)
        BY <3>3
      <4> QED BY <3>3, <4>1
    <3> QED BY <3>1, <3>2, <3>3
  <2>4. f = [i \in 0..(n + 1) |-> By(f[i - 1], i)]
    BY <2>3
  <2>5. Turns(f, m, q, a, b, n + 1)
    BY <2>4, Zenon DEF Turns, By
  <2> HIDE DEF f
  <2> QED BY <2>5 DEF P
<1> HIDE DEF P
<1>3. \A n \in Nat : n \in P
  BY <1>1, <1>2, NatInd
<1> QED BY <1>3 DEF P

(* Two parts of a list, each linked on its own, in their order.            *)
Parts(q, s, t) ==
    /\ q \in Links /\ s \in Seq(Node) /\ t \in Seq(Node)
    /\ Distinct(s) /\ Distinct(t) /\ Nodes(s) \cap Nodes(t) = {}
    /\ Seg(q, s, NULL, NULL) /\ Seg(q, t, NULL, NULL)
Ordered(R, m, s, t) ==
    /\ Transitive(R) /\ Ascends(R, s) /\ Ascends(R, t)
    /\ \A x \in Nodes(s), y \in Nodes(t) : Decides(R, m, x, y)

(* The merge so far, as u tells what it has taken of s and t.              *)
Merging(q, w, s, t, u, k) ==
    /\ Merger(w) /\ w.a = (IF u.i < Len(s) THEN s[u.i + 1] ELSE NULL)
    /\ w.b = (IF k - u.i < Len(t) THEN t[(k - u.i) + 1] ELSE NULL) /\ w.tail = LastOf(u.out, NULL)
    /\ w.q \in Links /\ Seg(w.q, u.out, NULL, NULL) /\ Elsewhere(q, w.q, Nodes(u.out))
    /\ (k > 0 => w.q.head = u.out[1])
    /\ Mixed(u, s, t, k) /\ k < Len(s) + Len(t)
Orders(m, s, t, u, k) == \A R : Ordered(R, m, s, t) => InOrder(R, u, s, t, k)

(* The node that comes is not yet in the merge.                            *)
LEMMA Untaken ==
  ASSUME NEW q, NEW s, NEW t, Parts(q, s, t), NEW k \in Nat, NEW u, Mixed(u, s, t, k)
  PROVE  /\ u.i \in Nat /\ k - u.i \in Nat /\ u.i <= Len(s) /\ k - u.i <= Len(t) /\ Len(s) \in Nat /\ Len(t) \in Nat
         /\ (u.i < Len(s) => u.i + 1 \in 1..Len(s) /\ s[u.i + 1] \in Node /\ s[u.i + 1] \notin Nodes(u.out))
         /\ (k - u.i < Len(t) => (k - u.i) + 1 \in 1..Len(t) /\ t[(k - u.i) + 1] \in Node
                                 /\ t[(k - u.i) + 1] \notin Nodes(u.out))
<1> DEFINE i == u.i
           j == k - u.i
<1>1. /\ s \in Seq(Node) /\ t \in Seq(Node) /\ Distinct(s) /\ Distinct(t) /\ Nodes(s) \cap Nodes(t) = {}
      /\ Len(s) \in Nat /\ Len(t) \in Nat
  BY DEF Parts
<1>2. i \in 0..Len(s) /\ j \in 0..Len(t) /\ Nodes(u.out) = First(s, i) \cup First(t, j)
  BY DEF Mixed
<1> HIDE DEF i, j
<1>3. i \in Nat /\ j \in Nat /\ i <= Len(s) /\ j <= Len(t)
  BY <1>1, <1>2
<1>4. First(s, i) \subseteq Nodes(s) /\ First(t, j) \subseteq Nodes(t)
  BY <1>1, <1>3, FirstIs
<1>5. i < Len(s) => i + 1 \in 1..Len(s) /\ s[i + 1] \in Node /\ s[i + 1] \notin Nodes(u.out)
  <2> SUFFICES ASSUME i < Len(s) PROVE i + 1 \in 1..Len(s) /\ s[i + 1] \in Node /\ s[i + 1] \notin Nodes(u.out)
    OBVIOUS
  <2>1. i + 1 \in 1..Len(s) /\ i + 1 <= Len(s)
    BY <1>1, <1>3
  <2>2. s[i + 1] \in Nodes(s) /\ s[i + 1] \notin First(s, i)
    BY <1>1, <1>3, <2>1, FirstIs
  <2> QED BY <1>1, <1>2, <1>4, <2>1, <2>2
<1>6. j < Len(t) => j + 1 \in 1..Len(t) /\ t[j + 1] \in Node /\ t[j + 1] \notin Nodes(u.out)
  <2> SUFFICES ASSUME j < Len(t) PROVE j + 1 \in 1..Len(t) /\ t[j + 1] \in Node /\ t[j + 1] \notin Nodes(u.out)
    OBVIOUS
  <2>1. j + 1 \in 1..Len(t) /\ j + 1 <= Len(t)
    BY <1>1, <1>3
  <2>2. t[j + 1] \in Nodes(t) /\ t[j + 1] \notin First(t, j)
    BY <1>1, <1>3, <2>1, FirstIs
  <2> QED BY <1>1, <1>2, <1>4, <2>1, <2>2
<1> QED BY <1>1, <1>3, <1>5, <1>6 DEF i, j

(* Each turn takes one more node.                                          *)
LEMMA MergeStep ==
  ASSUME NEW m, NEW q, NEW s, NEW t, Parts(q, s, t), NEW k \in Nat, NEW u, NEW w,
         Merging(q, w, s, t, u, k), w.a # NULL, w.b # NULL
  PROVE  \E v : /\ Merging(q, Takes(m, w), s, t, v, k + 1)
                /\ Orders(m, s, t, u, k) => Orders(m, s, t, v, k + 1)
<1> DEFINE i == u.i
           j == k - u.i
           x == s[i + 1]
           y == t[j + 1]
<1>1. /\ q \in Links /\ s \in Seq(Node) /\ t \in Seq(Node) /\ Distinct(s) /\ Distinct(t) /\ Nodes(s) \cap Nodes(t) = {}
      /\ Seg(q, s, NULL, NULL) /\ Seg(q, t, NULL, NULL)
  BY DEF Parts
<1>2. /\ Merger(w) /\ w.a = (IF i < Len(s) THEN x ELSE NULL) /\ w.b = (IF j < Len(t) THEN y ELSE NULL)
      /\ w.tail = LastOf(u.out, NULL)
      /\ w.q \in Links /\ Seg(w.q, u.out, NULL, NULL) /\ Elsewhere(q, w.q, Nodes(u.out))
      /\ (k > 0 => w.q.head = u.out[1]) /\ Mixed(u, s, t, k)
  BY Zenon DEF Merging
<1>3. u.out \in Seq(Node) /\ Len(u.out) = k /\ Distinct(u.out) /\ u = [i |-> i, out |-> u.out]
  BY <1>2, Zenon DEF Mixed
<1>4. i < Len(s) /\ j < Len(t)
  BY <1>2
<1>5. /\ i \in Nat /\ j \in Nat /\ Len(s) \in Nat /\ Len(t) \in Nat /\ k = i + j
      /\ i + 1 \in 1..Len(s) /\ x \in Node /\ x \notin Nodes(u.out)
      /\ j + 1 \in 1..Len(t) /\ y \in Node /\ y \notin Nodes(u.out)
  <2>1. i \in Nat /\ j \in Nat /\ Len(s) \in Nat /\ Len(t) \in Nat
    BY <1>2, Untaken
  <2>2. k = i + j
    BY <2>1
  <2>3. i + 1 \in 1..Len(s) /\ x \in Node /\ x \notin Nodes(u.out) /\ j + 1 \in 1..Len(t) /\ y \in Node /\ y \notin Nodes(u.out)
    BY <1>2, <1>4, Untaken
  <2> QED BY <2>1, <2>2, <2>3
<1> DEFINE r == w.q
           out == u.out
<1>6. Merger(w) /\ w.q = r /\ w.a = x /\ w.b = y /\ w.tail = LastOf(out, NULL)
  BY <1>2, <1>4
<1>7. Len(out) > 0 => r.head = out[1]
  BY <1>2, <1>3
<1>8. x # NULL /\ y # NULL
  BY <1>5, NullIsNoNode
<1>11. x = s[i + 1] /\ y = t[j + 1]
  OBVIOUS
<1>12. /\ r \in Links /\ Seg(r, out, NULL, NULL) /\ Elsewhere(q, r, Nodes(out)) /\ out \in Seq(Node) /\ Distinct(out)
       /\ x \in Node /\ y \in Node /\ x \notin Nodes(out) /\ y \notin Nodes(out)
  BY <1>2, <1>3, <1>5
<1> HIDE DEF i, j, x, y, r, out
<1>9. CASE TakesLeft(m, x, y)
  <2> DEFINE v == FromLeft(s, u)
             e == Append(out, x)
  <2> DEFINE g == Picked(w, x)
             p == g.q
  <2>1. /\ Merger(g) /\ g.a = x /\ g.b = y /\ g.tail = x
        /\ p \in Links /\ Seg(p, e, NULL, NULL) /\ Elsewhere(q, p, Nodes(e)) /\ p.head = e[1]
    BY <1>1, <1>6, <1>7, <1>12, PickedIs
  <2> HIDE DEF g
  <2>2. r.next[x] = IF i + 1 < Len(s) THEN s[(i + 1) + 1] ELSE NULL
    <3> DEFINE n == i + 1
    <3>1. n \in 1..Len(s) /\ s[n] = x /\ s[n] \notin Nodes(out)
      BY <1>5, <1>11, <1>12
    <3> HIDE DEF n
    <3>2. r.next[x] = q.next[x]
      BY <1>12 DEF Elsewhere
    <3>3. q.next[s[n]] = IF n = Len(s) THEN NULL ELSE s[n + 1]
      BY <1>1, <3>1, Zenon DEF Seg
    <3>4. n = Len(s) <=> ~(n < Len(s))
      BY <1>5, <3>1
    <3> QED BY <3>1, <3>2, <3>3, <3>4 DEF n
  <2>3. Takes(m, w) = [g EXCEPT !.a = r.next[x]]
    BY <1>6, <1>8, <1>9 DEF Takes, g
  <2>4. /\ Merger(Takes(m, w)) /\ Takes(m, w).q = p /\ Takes(m, w).tail = x
        /\ Takes(m, w).a = r.next[x] /\ Takes(m, w).b = y
    <3>1. g = [q |-> p, a |-> x, b |-> y, tail |-> x]
      BY <2>1 DEF Merger
    <3> QED BY <2>3, <3>1 DEF Merger
  <2>5. v.i = i + 1 /\ v.out = e /\ (k + 1) - v.i = j
    <3>1. v = [i |-> i + 1, out |-> Append(out, s[i + 1])]
      BY DEF FromLeft, i, out
    <3>2. (k + 1) - (i + 1) = j
      BY <1>5
    <3> HIDE DEF v
    <3> QED BY <1>11, <3>1, <3>2
  <2>6. Mixed(v, s, t, k + 1)
    <3>1. i + 1 <= Len(s) /\ k + 1 <= Len(s) + Len(t)
      BY <1>4, <1>5
    <3> QED BY <1>1, <1>2, <3>1, PickStep DEF i
  <2>7. LastOf(e, NULL) = x /\ Len(e) = k + 1
    BY <1>3 DEF LastOf, e, out
  <2> HIDE DEF v, e
  <2>8. Merging(q, Takes(m, w), s, t, v, k + 1)
    <3> DEFINE o == Takes(m, w)
    <3>1. o.q = p /\ Merger(o)
      BY <2>4
    <3>2. k + 1 < Len(s) + Len(t) /\ k + 1 > 0
      BY <1>4, <1>5
    <3>3. /\ o.a = (IF v.i < Len(s) THEN s[v.i + 1] ELSE NULL)
          /\ o.b = (IF (k + 1) - v.i < Len(t) THEN t[((k + 1) - v.i) + 1] ELSE NULL)
          /\ o.tail = LastOf(v.out, NULL)
      BY <1>4, <1>11, <2>2, <2>4, <2>5, <2>7
    <3> HIDE DEF o
    <3>5. Merging(q, o, s, t, v, k + 1)
      BY <2>1, <2>5, <2>6, <3>1, <3>2, <3>3, Zenon DEF Merging
    <3> QED BY <3>5 DEF o
  <2>9. Orders(m, s, t, u, k) => Orders(m, s, t, v, k + 1)
    <3> SUFFICES ASSUME Orders(m, s, t, u, k), NEW R, Ordered(R, m, s, t) PROVE InOrder(R, v, s, t, k + 1)
      BY Zenon DEF Orders
    <3>1. InOrder(R, u, s, t, k)
      BY Zenon DEF Orders
    <3>2. \A b \in (j + 1)..Len(t) : <<s[i + 1], t[b]>> \in R
      <4>1. i \in 0..Len(s) /\ j \in 0..Len(t) /\ i + 1 <= Len(s)
        BY <1>4, <1>5
      <4> QED BY <1>1, <1>9, <4>1, LeftIsFirst DEF Ordered, x, y
    <3>3. i + 1 <= Len(s)
      BY <1>4, <1>5
    <3> QED BY <1>1, <1>2, <3>1, <3>2, <3>3, OrderStep DEF Ordered, i, j, v
  <2> QED BY <2>8, <2>9
<1>10. CASE ~TakesLeft(m, x, y)
  <2> DEFINE v == FromRight(t, u, k + 1)
             e == Append(out, y)
  <2> DEFINE g == Picked(w, y)
             p == g.q
  <2>1. /\ Merger(g) /\ g.a = x /\ g.b = y /\ g.tail = y
        /\ p \in Links /\ Seg(p, e, NULL, NULL) /\ Elsewhere(q, p, Nodes(e)) /\ p.head = e[1]
    BY <1>1, <1>6, <1>7, <1>12, PickedIs
  <2> HIDE DEF g
  <2>2. r.next[y] = IF j + 1 < Len(t) THEN t[(j + 1) + 1] ELSE NULL
    <3> DEFINE n == j + 1
    <3>1. n \in 1..Len(t) /\ t[n] = y /\ t[n] \notin Nodes(out)
      BY <1>5, <1>11, <1>12
    <3> HIDE DEF n
    <3>2. r.next[y] = q.next[y]
      BY <1>12 DEF Elsewhere
    <3>3. q.next[t[n]] = IF n = Len(t) THEN NULL ELSE t[n + 1]
      BY <1>1, <3>1, Zenon DEF Seg
    <3>4. n = Len(t) <=> ~(n < Len(t))
      BY <1>5, <3>1
    <3> QED BY <3>1, <3>2, <3>3, <3>4 DEF n
  <2>3. Takes(m, w) = [g EXCEPT !.b = r.next[y]]
    BY <1>6, <1>8, <1>10 DEF Takes, g
  <2>4. /\ Merger(Takes(m, w)) /\ Takes(m, w).q = p /\ Takes(m, w).tail = y
        /\ Takes(m, w).b = r.next[y] /\ Takes(m, w).a = x
    <3>1. g = [q |-> p, a |-> x, b |-> y, tail |-> y]
      BY <2>1 DEF Merger
    <3> QED BY <2>3, <3>1 DEF Merger
  <2>50. (k + 1) - u.i = j + 1
    BY <1>5 DEF i
  <2>5. v.i = i /\ v.out = e /\ (k + 1) - v.i = j + 1
    <3>1. v = [i |-> i, out |-> Append(out, t[j + 1])]
      <4>1. v = [u EXCEPT !.out = Append(u.out, t[j + 1])]
        BY <2>50 DEF FromRight
      <4>2. v = [[i |-> u.i, out |-> u.out] EXCEPT !.out = Append(u.out, t[j + 1])]
        BY <1>3, <4>1 DEF i, out
      <4> HIDE DEF v
      <4> QED BY <4>2 DEF i, out
    <3>2. (k + 1) - i = j + 1
      BY <2>50 DEF i
    <3> HIDE DEF v
    <3> QED BY <1>11, <3>1, <3>2
  <2>6. Mixed(v, s, t, k + 1)
    <3>1. (k + 1) - u.i <= Len(t) /\ k + 1 <= Len(s) + Len(t)
      BY <1>4, <1>5, <2>50
    <3> QED BY <1>1, <1>2, <3>1, PickStep
  <2>7. LastOf(e, NULL) = y /\ Len(e) = k + 1
    BY <1>3 DEF LastOf, e, out
  <2> HIDE DEF v, e
  <2>8. Merging(q, Takes(m, w), s, t, v, k + 1)
    <3> DEFINE o == Takes(m, w)
    <3>1. o.q = p /\ Merger(o)
      BY <2>4
    <3>2. k + 1 < Len(s) + Len(t) /\ k + 1 > 0
      BY <1>4, <1>5
    <3>3. /\ o.a = (IF v.i < Len(s) THEN s[v.i + 1] ELSE NULL)
          /\ o.b = (IF (k + 1) - v.i < Len(t) THEN t[((k + 1) - v.i) + 1] ELSE NULL)
          /\ o.tail = LastOf(v.out, NULL)
      BY <1>4, <1>11, <2>2, <2>4, <2>5, <2>7
    <3> HIDE DEF o
    <3>5. Merging(q, o, s, t, v, k + 1)
      BY <2>1, <2>5, <2>6, <3>1, <3>2, <3>3, Zenon DEF Merging
    <3> QED BY <3>5 DEF o
  <2>9. Orders(m, s, t, u, k) => Orders(m, s, t, v, k + 1)
    <3> SUFFICES ASSUME Orders(m, s, t, u, k), NEW R, Ordered(R, m, s, t) PROVE InOrder(R, v, s, t, k + 1)
      BY Zenon DEF Orders
    <3>1. InOrder(R, u, s, t, k)
      BY Zenon DEF Orders
    <3>2. \A a \in (i + 1)..Len(s) : <<t[j + 1], s[a]>> \in R
      <4>1. i \in 0..Len(s) /\ j \in 0..Len(t) /\ j + 1 <= Len(t)
        BY <1>4, <1>5
      <4> QED BY <1>1, <1>10, <4>1, LeftIsFirst DEF Ordered, x, y
    <3>3. (k + 1) - u.i <= Len(t) /\ t[(k + 1) - u.i] = t[j + 1]
      BY <1>4, <1>5, <2>50
    <3> QED BY <1>1, <1>2, <3>1, <3>2, <3>3, OrderStep DEF Ordered, i, j, v
  <2> QED BY <2>8, <2>9
<1> QED BY <1>9, <1>10

(* A sequence after another one, in the order R.                           *)
LEMMA ConcatAscends ==
  ASSUME NEW R, NEW g \in Seq(Node), NEW v \in Seq(Node), Ascends(R, g), Ascends(R, v),
         \A x \in Nodes(g) : \A b \in 1..Len(v) : <<x, v[b]>> \in R
  PROVE  Ascends(R, g \o v)
<1> DEFINE e == g \o v
           n == Len(g)
<1>1. /\ Len(e) = n + Len(v) /\ n \in Nat /\ Len(v) \in Nat
      /\ (\A i \in 1..n : e[i] = g[i]) /\ (\A i \in 1..Len(v) : e[n + i] = v[i])
  BY ConcatIs
<1> HIDE DEF e, n
<1> SUFFICES ASSUME NEW a \in 1..Len(e), NEW b \in 1..Len(e), a < b PROVE <<e[a], e[b]>> \in R
  BY Zenon DEF Ascends, e
<1>2. \A i \in 1..Len(e) : ~(i <= n) => i - n \in 1..Len(v) /\ e[i] = v[i - n]
  <2> SUFFICES ASSUME NEW i \in 1..Len(e), ~(i <= n) PROVE i - n \in 1..Len(v) /\ e[i] = v[i - n]
    OBVIOUS
  <2> DEFINE j == i - n
  <2>1. j \in 1..Len(v) /\ n + j = i
    BY <1>1
  <2> HIDE DEF j
  <2> QED BY <1>1, <2>1 DEF j
<1>3. CASE b <= n
  <2>1. a \in 1..n /\ b \in 1..n
    BY <1>1, <1>3
  <2>2. <<g[a], g[b]>> \in R
    BY <2>1 DEF Ascends, n
  <2> QED BY <1>1, <2>1, <2>2
<1>4. CASE a <= n /\ ~(b <= n)
  <2>1. a \in 1..n /\ b - n \in 1..Len(v) /\ e[b] = v[b - n]
    BY <1>1, <1>2, <1>4
  <2>2. g[a] \in Nodes(g)
    BY <2>1 DEF Nodes, n
  <2> QED BY <1>1, <2>1, <2>2
<1>5. CASE ~(a <= n)
  <2>1. ~(b <= n) /\ a - n < b - n
    BY <1>1, <1>5
  <2>2. a - n \in 1..Len(v) /\ b - n \in 1..Len(v) /\ e[a] = v[a - n] /\ e[b] = v[b - n]
    BY <1>2, <1>5, <2>1
  <2>3. <<v[a - n], v[b - n]>> \in R
    BY <2>1, <2>2, Zenon DEF Ascends
  <2> QED BY <2>2, <2>3
<1> QED BY <1>1, <1>3, <1>4, <1>5

(* e has the nodes of S, each once, linked by r and nothing else changed.  *)
Chained(q, r, e, S) ==
    /\ r \in Links /\ e \in Seq(Node) /\ Distinct(e) /\ Nodes(e) = S
    /\ r.head = FirstOf(e, NULL) /\ Seg(r, e, NULL, NULL) /\ Elsewhere(q, r, S)

(* The rest of v after out, as one list.                                   *)
LEMMA RestChained ==
  ASSUME NEW q \in Links, NEW r \in Links, NEW out \in Seq(Node), NEW v \in Seq(Node), out # <<>>, v # <<>>,
         Distinct(out), Distinct(v), Nodes(out) \cap Nodes(v) = {}, r.head = out[1],
         Seg(r, out, NULL, NULL), Elsewhere(q, r, Nodes(out)), NEW z, Seg(q, v, z, NULL)
  PROVE  Chained(q, LinkedRest(r, LastOf(out, NULL), v[1]), out \o v, Nodes(out) \cup Nodes(v))
<1> DEFINE o == LinkedRest(r, LastOf(out, NULL), v[1])
           e == out \o v
<1>1. /\ o \in Links /\ o.head = r.head /\ Seg(o, e, NULL, NULL) /\ Distinct(e)
      /\ Elsewhere(q, o, Nodes(out) \cup Nodes(v))
  BY RestLinked
<1>2. e \in Seq(Node) /\ Nodes(e) = Nodes(out) \cup Nodes(v) /\ Len(e) = Len(out) + Len(v) /\ (\A i \in 1..Len(out) : e[i] = out[i])
  BY ConcatIs, NodesConcat
<1>3. Len(out) \in Nat /\ Len(out) # 0 /\ Len(v) \in Nat
  BY NodesIn
<1> HIDE DEF o, e
<1>4. FirstOf(e, NULL) = out[1]
  <2>1. 1 \in 1..Len(out) /\ Len(e) # 0
    BY <1>2, <1>3
  <2> QED BY <1>2, <2>1 DEF FirstOf
<1> QED BY <1>1, <1>2, <1>4 DEF Chained, o, e

(* When a part is used up the rest of the other one is linked.             *)
LEMMA MergeEnds ==
  ASSUME NEW m, NEW q, NEW s, NEW t, Parts(q, s, t), s # <<>>, t # <<>>, NEW k \in Nat, NEW u, NEW w,
         Merging(q, w, s, t, u, k), Orders(m, s, t, u, k), w.a = NULL \/ w.b = NULL
  PROVE  \E e : /\ Chained(q, LinkedRest(w.q, w.tail, IF w.a # NULL THEN w.a ELSE w.b), e, Nodes(s) \cup Nodes(t))
                /\ Len(e) = Len(s) + Len(t)
                /\ \A R : Ordered(R, m, s, t) => Ascends(R, e)
<1> DEFINE i == u.i
           j == k - u.i
           r == w.q
           out == u.out
<1>1. /\ q \in Links /\ s \in Seq(Node) /\ t \in Seq(Node) /\ Distinct(s) /\ Distinct(t) /\ Nodes(s) \cap Nodes(t) = {}
      /\ Seg(q, s, NULL, NULL) /\ Seg(q, t, NULL, NULL)
  BY DEF Parts
<1>2. /\ w.a = (IF i < Len(s) THEN s[i + 1] ELSE NULL) /\ w.b = (IF j < Len(t) THEN t[j + 1] ELSE NULL)
      /\ w.tail = LastOf(out, NULL)
      /\ r \in Links /\ Seg(r, out, NULL, NULL) /\ Elsewhere(q, r, Nodes(out))
      /\ (k > 0 => r.head = out[1]) /\ Mixed(u, s, t, k) /\ k < Len(s) + Len(t)
  BY Zenon DEF Merging
<1>3. out \in Seq(Node) /\ Len(out) = k /\ Distinct(out) /\ Nodes(out) = First(s, i) \cup First(t, j)
  BY <1>2, Zenon DEF Mixed
<1>4. /\ i \in Nat /\ j \in Nat /\ i <= Len(s) /\ j <= Len(t) /\ Len(s) \in Nat /\ Len(t) \in Nat
      /\ (i < Len(s) => i + 1 \in 1..Len(s) /\ s[i + 1] \in Node)
      /\ (j < Len(t) => j + 1 \in 1..Len(t) /\ t[j + 1] \in Node)
  BY <1>2, Untaken
<1>5. k = i + j /\ i \in 0..Len(s) /\ j \in 0..Len(t)
  BY <1>4
<1>6. Len(s) # 0 /\ Len(t) # 0
  BY <1>1, NodesIn
<1>7. First(s, i) \subseteq Nodes(s) /\ First(t, j) \subseteq Nodes(t) /\ First(s, Len(s)) = Nodes(s) /\ First(t, Len(t)) = Nodes(t)
  BY <1>1, <1>4, FirstIs
<1>8. \A R : Ordered(R, m, s, t) =>
         /\ Ascends(R, s) /\ Ascends(R, t) /\ Ascends(R, out)
         /\ \A x \in Nodes(out) : /\ \A a \in (i + 1)..Len(s) : <<x, s[a]>> \in R
                                  /\ \A b \in (j + 1)..Len(t) : <<x, t[b]>> \in R
  BY Zenon DEF Orders, Ordered, InOrder
<1> HIDE DEF i, j, r, out
<1>9. CASE w.a = NULL
  <2>1. i = Len(s) /\ j < Len(t)
    <3>1. ~(i < Len(s))
      BY <1>2, <1>4, <1>9, NullIsNoNode
    <3> QED BY <1>2, <1>4, <1>5, <3>1
  <2>2. k > 0 /\ out # <<>>
    <3>1. k > 0
      BY <1>4, <1>5, <1>6, <2>1
    <3> QED BY <1>3, <1>5, <3>1
  <2>3. PICK v, z :
           /\ v \in Seq(Node)
           /\ Len(v) = Len(t) - j /\ (\A a \in 1..(Len(t) - j) : v[a] = t[j + a])
           /\ Distinct(v) /\ Seg(q, v, z, NULL)
           /\ Nodes(t) = First(t, j) \cup Nodes(v) /\ First(t, j) \cap Nodes(v) = {}
           /\ \A R : Ascends(R, t) => Ascends(R, v)
    BY <1>1, <1>5, TailIs
  <2>4. v # <<>> /\ v[1] = t[j + 1] /\ w.b = v[1]
    <3>1. 1 \in 1..(Len(t) - j) /\ Len(v) # 0
      BY <1>4, <2>1, <2>3
    <3> QED BY <1>2, <2>1, <2>3, <3>1
  <2>5. Nodes(out) \cap Nodes(v) = {} /\ Nodes(out) \cup Nodes(v) = Nodes(s) \cup Nodes(t)
    BY <1>1, <1>3, <1>7, <2>1, <2>3
  <2>6. Chained(q, LinkedRest(r, LastOf(out, NULL), v[1]), out \o v, Nodes(out) \cup Nodes(v))
    BY <1>1, <1>2, <1>3, <2>2, <2>3, <2>4, <2>5, RestChained
  <2>7. \A R : Ordered(R, m, s, t) => Ascends(R, out \o v)
    <3> SUFFICES ASSUME NEW R, Ordered(R, m, s, t) PROVE Ascends(R, out \o v)
      OBVIOUS
    <3>1. Ascends(R, out) /\ Ascends(R, v) /\ \A x \in Nodes(out) : \A b \in (j + 1)..Len(t) : <<x, t[b]>> \in R
      BY <1>8, <2>3
    <3>2. \A x \in Nodes(out) : \A b \in 1..Len(v) : <<x, v[b]>> \in R
      <4> SUFFICES ASSUME NEW x \in Nodes(out), NEW b \in 1..Len(v) PROVE <<x, v[b]>> \in R
        OBVIOUS
      <4>1. j + b \in (j + 1)..Len(t) /\ v[b] = t[j + b]
        BY <1>4, <2>3
      <4> QED BY <3>1, <4>1
    <3> QED BY <1>3, <2>3, <3>1, <3>2, ConcatAscends
  <2>8. Len(out \o v) = Len(s) + Len(t)
    <3>1. Len(out \o v) = Len(out) + Len(v)
      BY <1>3, ConcatIs
    <3> QED BY <1>3, <1>4, <1>5, <2>1, <2>3, <3>1
  <2>9. LinkedRest(w.q, w.tail, IF w.a # NULL THEN w.a ELSE w.b) = LinkedRest(r, LastOf(out, NULL), v[1])
    BY <1>2, <1>9, <2>4 DEF r
  <2> QED BY <2>5, <2>6, <2>7, <2>8, <2>9
<1>10. CASE w.a # NULL
  <2>1. j = Len(t) /\ i < Len(s)
    <3>1. ~(j < Len(t))
      BY <1>2, <1>4, <1>10, NullIsNoNode
    <3>2. i < Len(s)
      BY <1>2, <1>10
    <3> QED BY <1>4, <3>1, <3>2
  <2>2. k > 0 /\ out # <<>>
    <3>1. k > 0
      BY <1>4, <1>5, <1>6, <2>1
    <3> QED BY <1>3, <1>5, <3>1
  <2>3. PICK v, z :
           /\ v \in Seq(Node)
           /\ Len(v) = Len(s) - i /\ (\A a \in 1..(Len(s) - i) : v[a] = s[i + a])
           /\ Distinct(v) /\ Seg(q, v, z, NULL)
           /\ Nodes(s) = First(s, i) \cup Nodes(v) /\ First(s, i) \cap Nodes(v) = {}
           /\ \A R : Ascends(R, s) => Ascends(R, v)
    BY <1>1, <1>5, TailIs
  <2>4. v # <<>> /\ v[1] = s[i + 1] /\ w.a = v[1]
    <3>1. 1 \in 1..(Len(s) - i) /\ Len(v) # 0
      BY <1>4, <2>1, <2>3
    <3> QED BY <1>2, <2>1, <2>3, <3>1
  <2>5. Nodes(out) \cap Nodes(v) = {} /\ Nodes(out) \cup Nodes(v) = Nodes(s) \cup Nodes(t)
    BY <1>1, <1>3, <1>7, <2>1, <2>3
  <2>6. Chained(q, LinkedRest(r, LastOf(out, NULL), v[1]), out \o v, Nodes(out) \cup Nodes(v))
    BY <1>1, <1>2, <1>3, <2>2, <2>3, <2>4, <2>5, RestChained
  <2>7. \A R : Ordered(R, m, s, t) => Ascends(R, out \o v)
    <3> SUFFICES ASSUME NEW R, Ordered(R, m, s, t) PROVE Ascends(R, out \o v)
      OBVIOUS
    <3>1. Ascends(R, out) /\ Ascends(R, v) /\ \A x \in Nodes(out) : \A a \in (i + 1)..Len(s) : <<x, s[a]>> \in R
      BY <1>8, <2>3
    <3>2. \A x \in Nodes(out) : \A b \in 1..Len(v) : <<x, v[b]>> \in R
      <4> SUFFICES ASSUME NEW x \in Nodes(out), NEW b \in 1..Len(v) PROVE <<x, v[b]>> \in R
        OBVIOUS
      <4>1. i + b \in (i + 1)..Len(s) /\ v[b] = s[i + b]
        BY <1>4, <2>3
      <4> QED BY <3>1, <4>1
    <3> QED BY <1>3, <2>3, <3>1, <3>2, ConcatAscends
  <2>8. Len(out \o v) = Len(s) + Len(t)
    <3>1. Len(out \o v) = Len(out) + Len(v)
      BY <1>3, ConcatIs
    <3> QED BY <1>3, <1>4, <1>5, <2>1, <2>3, <3>1
  <2>9. LinkedRest(w.q, w.tail, IF w.a # NULL THEN w.a ELSE w.b) = LinkedRest(r, LastOf(out, NULL), v[1])
    BY <1>2, <1>10, <2>4 DEF r
  <2> QED BY <2>5, <2>6, <2>7, <2>8, <2>9
<1> QED BY <1>9, <1>10

(* merge_sorted of two parts.                                              *)
LEMMA MergedIs ==
  ASSUME NEW m, NEW q, NEW s, NEW t, Parts(q, s, t), s # <<>>, t # <<>>
  PROVE  \E e : /\ Chained(q, merge_sorted(m, q, s[1], t[1]), e, Nodes(s) \cup Nodes(t))
                /\ Len(e) = Len(s) + Len(t)
                /\ \A R : Ordered(R, m, s, t) => Ascends(R, e)
<1>1. /\ q \in Links /\ s \in Seq(Node) /\ t \in Seq(Node) /\ Distinct(s) /\ Distinct(t) /\ Nodes(s) \cap Nodes(t) = {}
  BY DEF Parts
<1>2. Len(s) \in Nat /\ Len(t) \in Nat /\ Len(s) # 0 /\ Len(t) # 0 /\ N \in Nat
  BY <1>1, NodesIn, NullIsNoNode
<1>3. Len(s) + Len(t) <= N
  <2>1. s \o t \in Seq(Node) /\ Distinct(s \o t) /\ Len(s \o t) = Len(s) + Len(t)
    BY <1>1, DistinctConcat, ConcatIs
  <2> QED BY <2>1, ShortEnough
<1>4. s[1] # NULL /\ t[1] # NULL
  <2>1. 1 \in 1..Len(s) /\ 1 \in 1..Len(t)
    BY <1>2
  <2>2. s[1] \in Node /\ t[1] \in Node
    BY <1>1, <2>1
  <2> QED BY <2>2, NullIsNoNode
<1>5. PICK f : /\ Turns(f, m, q, s[1], t[1], N)
               /\ merge_sorted(m, q, s[1], t[1])
                     = LinkedRest(f[N].q, f[N].tail, IF f[N].a # NULL THEN f[N].a ELSE f[N].b)
  <2> DEFINE g == CHOOSE f : Turns(f, m, q, s[1], t[1], N)
  <2>1. Turns(g, m, q, s[1], t[1], N)
    BY <1>2, TurnsExist
  <2>2. merge_sorted(m, q, s[1], t[1])
           = IF s[1] = NULL THEN [q EXCEPT !.head = t[1]]
             ELSE IF t[1] = NULL THEN [q EXCEPT !.head = s[1]]
             ELSE LinkedRest(g[N].q, g[N].tail, IF g[N].a # NULL THEN g[N].a ELSE g[N].b)
    BY Zenon DEF merge_sorted, Turns, Takes
  <2> HIDE DEF g
  <2> QED BY <1>4, <2>1, <2>2
<1>6. \A k \in 0..N : f[k] = IF k = 0 THEN [q |-> q, a |-> s[1], b |-> t[1], tail |-> NULL] ELSE Takes(m, f[k - 1])
  <2> DEFINE By(k) == IF k = 0 THEN [q |-> q, a |-> s[1], b |-> t[1], tail |-> NULL] ELSE Takes(m, f[k - 1])
  <2>1. f = [k \in 0..N |-> By(k)]
    BY <1>5, Zenon DEF Turns
  <2> HIDE DEF By
  <2>2. \A k \in 0..N : f[k] = By(k)
    BY <2>1
  <2> QED BY <2>2 DEF By
<1> DEFINE Is(k, n, u) == /\ n \in Nat /\ Merging(q, f[k], s, t, u, n) /\ Orders(m, s, t, u, n)
                          /\ n = k \/ f[k].a = NULL \/ f[k].b = NULL
           P == {k \in Nat : k <= N => \E n, u : Is(k, n, u)}
<1>7. 0 \in P
  <2> DEFINE u == [i |-> 0, out |-> <<>>]
             w == f[0]
  <2>1. w = [q |-> q, a |-> s[1], b |-> t[1], tail |-> NULL]
    BY <1>2, <1>6
  <2>2. Merger(w) /\ w.q = q /\ w.a = s[1] /\ w.b = t[1] /\ w.tail = NULL
    BY <2>1 DEF Merger
  <2>3. u.i = 0 /\ u.out = <<>> /\ u = [i |-> u.i, out |-> u.out]
    OBVIOUS
  <2>4. <<>> \in Seq(Node) /\ Len(<<>>) = 0 /\ Nodes(<<>>) = {} /\ Distinct(<<>>)
    BY DEF Nodes, Distinct
  <2> HIDE DEF u, w
  <2>5. 0 - u.i = 0 /\ 0 \in 0..Len(s) /\ 0 \in 0..Len(t) /\ 0 < Len(s) /\ 0 < Len(t) /\ 0 + 1 = 1 /\ 0 < Len(s) + Len(t) /\ ~(0 > 0)
    BY <1>2, <2>3
  <2>6. First(s, 0) = {} /\ First(t, 0) = {}
    BY <1>1, FirstIs
  <2>7. Mixed(u, s, t, 0)
    BY <2>3, <2>4, <2>5, <2>6 DEF Mixed
  <2>8. Seg(q, <<>>, NULL, NULL) /\ Elsewhere(q, q, {}) /\ LastOf(<<>>, NULL) = NULL
    BY <2>4 DEF Seg, Elsewhere, LastOf
  <2>9. Merging(q, w, s, t, u, 0)
    <3>1. w.a = (IF u.i < Len(s) THEN s[u.i + 1] ELSE NULL) /\ w.b = (IF 0 - u.i < Len(t) THEN t[(0 - u.i) + 1] ELSE NULL)
      BY <2>2, <2>3, <2>5
    <3> QED BY <1>1, <2>2, <2>3, <2>4, <2>5, <2>7, <2>8, <3>1, Zenon DEF Merging
  <2>10. Orders(m, s, t, u, 0)
    <3>1. Ascends({}, <<>>) /\ \A R : Ascends(R, <<>>)
      BY <2>4 DEF Ascends
    <3> QED BY <2>3, <2>4, <3>1 DEF Orders, InOrder
  <2>11. Is(0, 0, u)
    BY <2>9, <2>10 DEF w
  <2> HIDE DEF Is
  <2> QED BY <2>11
<1>8. \A k \in Nat : k \in P => k + 1 \in P
  <2> SUFFICES ASSUME NEW k \in Nat, k \in P, k + 1 <= N PROVE \E n, u : Is(k + 1, n, u)
    OBVIOUS
  <2>1. k <= N /\ k + 1 \in 0..N /\ k + 1 # 0 /\ (k + 1) - 1 = k
    BY <1>2
  <2>2. PICK n, u : Is(k, n, u)
    BY <2>1
  <2>3. f[k + 1] = Takes(m, f[k])
    BY <1>6, <2>1
  <2>4. CASE f[k].a = NULL \/ f[k].b = NULL
    <3>1. f[k + 1] = f[k]
      BY <2>3, <2>4 DEF Takes
    <3>2. Is(k + 1, n, u)
      BY <2>2, <2>4, <3>1
    <3> HIDE DEF Is
    <3> QED BY <3>2
  <2>5. CASE f[k].a # NULL /\ f[k].b # NULL
    <3>1. n = k
      BY <2>2, <2>5
    <3>2. PICK v : Merging(q, Takes(m, f[k]), s, t, v, k + 1) /\ (Orders(m, s, t, u, k) => Orders(m, s, t, v, k + 1))
      BY <2>2, <2>5, <3>1, MergeStep
    <3>3. Is(k + 1, k + 1, v)
      BY <2>2, <2>3, <3>1, <3>2
    <3> HIDE DEF Is
    <3> QED BY <3>3
  <2> QED BY <2>4, <2>5
<1>9. PICK n, u : Is(N, n, u)
  <2> HIDE DEF P
  <2>1. N \in P
    BY <1>2, <1>7, <1>8, NatInd
  <2> QED BY <1>2, <2>1 DEF P
<1>10. f[N].a = NULL \/ f[N].b = NULL
  <2> SUFFICES ASSUME n = N PROVE FALSE
    BY <1>9
  <2>1. n < Len(s) + Len(t)
    BY <1>9, Zenon DEF Merging
  <2> QED BY <1>2, <1>3, <2>1
<1> DEFINE w == f[N]
           o == LinkedRest(w.q, w.tail, IF w.a # NULL THEN w.a ELSE w.b)
<1>11. Merging(q, w, s, t, u, n) /\ Orders(m, s, t, u, n) /\ (w.a = NULL \/ w.b = NULL)
  BY <1>9, <1>10
<1>12. merge_sorted(m, q, s[1], t[1]) = o
  BY <1>5
<1> HIDE DEF w
<1>13. \E e : /\ Chained(q, o, e, Nodes(s) \cup Nodes(t))
              /\ Len(e) = Len(s) + Len(t)
              /\ \A R : Ordered(R, m, s, t) => Ascends(R, e)
  BY <1>9, <1>11, MergeEnds
<1> HIDE DEF o
<1> QED BY <1>12, <1>13

(* One level of the recursion of msort_rec, and its recursive function.    *)
Level(m, was, k) ==
    [q \in Links |->
        IF k = 0 \/ q.head = NULL \/ q.next[q.head] = NULL THEN q
        ELSE LET split == split_middle(q)
                 left == was[split.cut]
                 right == was[[left EXCEPT !.head = split.right]]
             IN  merge_sorted(m, right, left.head, right.head)]
Levels(f, m, n) == f = [k \in 0..n |-> Level(m, f[k - 1], k)]

(* It exists.                                                              *)
LEMMA LevelsExist ==
  ASSUME NEW m
  PROVE  \A n \in Nat : \E f : Levels(f, m, n)
<1> DEFINE P == {n \in Nat : \E f : Levels(f, m, n)}
           By(was, i) == Level(m, was, i)
<1>0. \A x, y : By(x, 0) = By(y, 0)
  BY DEF Level
<1>1. 0 \in P
  <2> DEFINE f == [i \in 0..0 |-> By(<<>>, 0)]
  <2>1. \A i \in 0..0 : i = 0 /\ f[i] = By(f[i - 1], i)
    <3> HIDE DEF By
    <3> QED BY <1>0
  <2>2. f = [i \in 0..0 |-> By(f[i - 1], i)]
    <3> HIDE DEF By
    <3> QED BY <2>1
  <2>3. Levels(f, m, 0)
    BY <2>2, Zenon DEF Levels
  <2> HIDE DEF f
  <2> QED BY <2>3
<1>2. \A n \in Nat : n \in P => n + 1 \in P
  <2> SUFFICES ASSUME NEW n \in Nat, n \in P PROVE n + 1 \in P
    OBVIOUS
  <2>1. PICK g : Levels(g, m, n)
    OBVIOUS
  <2> DEFINE f == [i \in 0..(n + 1) |-> IF i <= n THEN g[i] ELSE By(g[n], n + 1)]
  <2>2. \A i \in 0..n : g[i] = By(g[i - 1], i)
    <3>1. g = [i \in 0..n |-> By(g[i - 1], i)]
      BY <2>1, Zenon DEF Levels
    <3> HIDE DEF By
    <3> QED BY <3>1
  <2> HIDE DEF P, By
  <2>3. \A i \in 0..(n + 1) : f[i] = By(f[i - 1], i)
    <3> SUFFICES ASSUME NEW i \in 0..(n + 1) PROVE f[i] = By(f[i - 1], i)
      OBVIOUS
    <3>1. CASE i = 0
      <4>1. 0 \in 0..n /\ f[0] = g[0]
        OBVIOUS
      <4> HIDE DEF f
      <4> QED BY <1>0, <2>2, <3>1, <4>1
    <3>2. CASE i # 0 /\ i <= n
      <4>1. i \in 0..n /\ i - 1 \in 0..(n + 1) /\ i - 1 <= n
        BY <3>2
      <4> QED BY <2>2, <3>2, <4>1
    <3>3. CASE i = n + 1
      <4>1. i - 1 = n /\ n \in 0..(n + 1) /\ n <= n /\ ~(n + 1 <= n)
        BY <3>3
      <4> QED BY <3>3, <4>1
    <3> QED BY <3>1, <3>2, <3>3
  <2>4. f = [i \in 0..(n + 1) |-> By(f[i - 1], i)]
    BY <2>3
  <2>5. Levels(f, m, n + 1)
    BY <2>4, Zenon DEF Levels, By
  <2> HIDE DEF f
  <2> QED BY <2>5 DEF P
<1> HIDE DEF P
<1>3. \A n \in Nat : n \in P
  BY <1>1, <1>2, NatInd
<1> QED BY <1>3 DEF P

(* A part that stays outside of what changes.                              *)
LEMMA SegElsewhere ==
  ASSUME NEW q, NEW r, NEW c \in Seq(Node), NEW a, NEW b, Seg(q, c, a, b), NEW S, Elsewhere(q, r, S),
         Nodes(c) \cap S = {}
  PROVE  Seg(r, c, a, b)
<1> SUFFICES ASSUME NEW i \in 1..Len(c)
             PROVE  /\ r.next[c[i]] = IF i = Len(c) THEN b ELSE c[i + 1]
                    /\ r.prev[c[i]] = IF i = 1 THEN a ELSE c[i - 1]
  BY DEF Seg
<1>1. c[i] \in Node /\ c[i] \in Nodes(c) /\ c[i] \notin S
  BY DEF Nodes
<1>2. r.next[c[i]] = q.next[c[i]] /\ r.prev[c[i]] = q.prev[c[i]]
  BY <1>1 DEF Elsewhere
<1> QED BY <1>2 DEF Seg

(* R orders the nodes of s as the comparison does, equals as they come.    *)
Arranges(R, m, s) == Transitive(R) /\ \A a, b \in 1..Len(s) : a < b => Decides(R, m, s[a], s[b])

(* A part of s that R arranges, and two of them.                           *)
LEMMA ArrangesParts ==
  ASSUME NEW m, NEW R, NEW u \in Seq(Node), NEW v \in Seq(Node), Arranges(R, m, u \o v)
  PROVE  /\ Arranges(R, m, u) /\ Arranges(R, m, v)
         /\ \A x \in Nodes(u), y \in Nodes(v) : Decides(R, m, x, y)
<1> DEFINE s == u \o v
           n == Len(u)
<1>1. /\ Len(s) = n + Len(v) /\ n \in Nat /\ Len(v) \in Nat
      /\ (\A i \in 1..n : s[i] = u[i]) /\ (\A i \in 1..Len(v) : s[n + i] = v[i])
  BY ConcatIs
<1>2. Transitive(R) /\ \A a, b \in 1..Len(s) : a < b => Decides(R, m, s[a], s[b])
  BY Zenon DEF Arranges
<1> HIDE DEF s
<1>3. \A a, b \in 1..Len(u) : a < b => Decides(R, m, u[a], u[b])
  <2> SUFFICES ASSUME NEW a \in 1..Len(u), NEW b \in 1..Len(u), a < b PROVE Decides(R, m, u[a], u[b])
    OBVIOUS
  <2>1. a \in 1..Len(s) /\ b \in 1..Len(s) /\ s[a] = u[a] /\ s[b] = u[b]
    BY <1>1
  <2> QED BY <1>2, <2>1
<1>4. \A a, b \in 1..Len(v) : a < b => Decides(R, m, v[a], v[b])
  <2> SUFFICES ASSUME NEW a \in 1..Len(v), NEW b \in 1..Len(v), a < b PROVE Decides(R, m, v[a], v[b])
    OBVIOUS
  <2>1. n + a \in 1..Len(s) /\ n + b \in 1..Len(s) /\ s[n + a] = v[a] /\ s[n + b] = v[b] /\ n + a < n + b
    BY <1>1
  <2>2. Decides(R, m, s[n + a], s[n + b])
    BY <1>2, <2>1
  <2> QED BY <2>1, <2>2
<1>5. \A a \in 1..Len(u), b \in 1..Len(v) : Decides(R, m, u[a], v[b])
  <2> SUFFICES ASSUME NEW a \in 1..Len(u), NEW b \in 1..Len(v) PROVE Decides(R, m, u[a], v[b])
    OBVIOUS
  <2>1. a \in 1..Len(s) /\ n + b \in 1..Len(s) /\ s[a] = u[a] /\ s[n + b] = v[b] /\ a < n + b
    BY <1>1
  <2>2. Decides(R, m, s[a], s[n + b])
    BY <1>2, <2>1
  <2> QED BY <2>1, <2>2
<1> QED BY <1>2, <1>3, <1>4, <1>5, Zenon DEF Arranges, Nodes

(* Lists of at most one node, and the others.                              *)
LEMMA AtMostOne == \A n \in Nat : n <= 1 => n = 0 \/ n = 1
OBVIOUS
LEMMA MoreThanOne == \A n \in Nat : ~(n <= 1) => n >= 2 /\ 1 \in 1..n /\ 2 \in 1..n /\ 1 # n /\ 1 + 1 = 2
OBVIOUS

(* A list to sort, and what msort_rec makes of it.                         *)
ToSort(q, s) ==
    q \in Links /\ s \in Seq(Node) /\ Distinct(s) /\ q.head = FirstOf(s, NULL) /\ Seg(q, s, NULL, NULL)
SortsTo(m, q, r, s) ==
    \E e : /\ Chained(q, r, e, Nodes(s)) /\ Len(e) = Len(s)
           /\ \A R : Arranges(R, m, s) => Ascends(R, e)

(* A list of at most one node is sorted.                                   *)
LEMMA ShortIsSorted ==
  ASSUME NEW m, NEW q, NEW s, ToSort(q, s), Len(s) <= 1
  PROVE  SortsTo(m, q, q, s)
<1>1. Len(s) \in Nat /\ s \in Seq(Node)
  BY DEF ToSort
<1>2. \A R : Ascends(R, s)
  BY <1>1 DEF Ascends
<1>3. Chained(q, q, s, Nodes(s))
  BY Zenon DEF ToSort, Chained, Elsewhere
<1> QED BY <1>2, <1>3 DEF SortsTo

(* The merge of the two sorted halves.                                     *)
LEMMA HalvesSorted ==
  ASSUME NEW m, NEW q, NEW s, ToSort(q, s), Len(s) >= 2, NEW f,
         \A r, c : ToSort(r, c) /\ Len(c) < Len(s) => SortsTo(m, r, f[r], c)
  PROVE  LET split == split_middle(q)
             left == f[split.cut]
             right == f[[left EXCEPT !.head = split.right]]
         IN  SortsTo(m, q, merge_sorted(m, right, left.head, right.head), s)
<1> DEFINE r == split_middle(q).cut
           left == f[r]
           p == [left EXCEPT !.head = split_middle(q).right]
           right == f[p]
           o == merge_sorted(m, right, left.head, right.head)
<1>1. q \in Links /\ s \in Seq(Node) /\ Distinct(s) /\ q.head = s[1] /\ Seg(q, s, NULL, NULL) /\ Len(s) \in Nat
  BY DEF ToSort, FirstOf
<1>2. PICK u \in Seq(Node), v \in Seq(Node) :
            /\ s = u \o v /\ u # <<>> /\ v # <<>>
            /\ split_middle(q).right = v[1]
            /\ r \in Links /\ r.head = u[1] /\ Seg(r, u, NULL, NULL) /\ Seg(r, v, NULL, NULL)
            /\ Elsewhere(q, r, Nodes(s))
  BY <1>1, HalvesAre
<1> HIDE DEF r
<1>3. /\ Distinct(u) /\ Distinct(v) /\ Nodes(u) \cap Nodes(v) = {} /\ Nodes(s) = Nodes(u) \cup Nodes(v)
      /\ Len(s) = Len(u) + Len(v)
  BY <1>1, <1>2, DistinctConcat, NodesConcat, ConcatIs
<1>4. /\ Len(u) \in Nat /\ Len(v) \in Nat /\ Len(u) # 0 /\ Len(v) # 0 /\ Len(u) < Len(s) /\ Len(v) < Len(s)
      /\ Nodes(u) # {} /\ Nodes(v) # {} /\ 1 \in 1..Len(v) /\ v[1] \in Ptr
  <2>1. Len(u) \in Nat /\ Len(v) \in Nat /\ Len(u) # 0 /\ Len(v) # 0 /\ Nodes(u) # {} /\ Nodes(v) # {}
    BY <1>2, NodesIn
  <2>2. 1 \in 1..Len(v)
    BY <2>1
  <2> QED BY <1>3, <2>1, <2>2 DEF Ptr
<1>5. PICK c : Chained(r, left, c, Nodes(u)) /\ Len(c) = Len(u) /\ \A R : Arranges(R, m, u) => Ascends(R, c)
  <2>1. ToSort(r, u)
    BY <1>2, <1>3, <1>4 DEF ToSort, FirstOf
  <2> QED BY <1>4, <2>1 DEF SortsTo
<1>6. /\ left \in Links /\ c \in Seq(Node) /\ Distinct(c) /\ Nodes(c) = Nodes(u)
      /\ left.head = FirstOf(c, NULL) /\ Seg(left, c, NULL, NULL) /\ Elsewhere(r, left, Nodes(u))
  BY <1>5 DEF Chained
<1> HIDE DEF left
<1>7. p \in Links /\ p.next = left.next /\ p.prev = left.prev /\ p.head = v[1]
  BY <1>2, <1>4, <1>6, Reheaded
<1> HIDE DEF p
<1>8. Seg(p, v, NULL, NULL) /\ Seg(p, c, NULL, NULL)
  <2>1. Seg(left, v, NULL, NULL)
    BY <1>2, <1>3, <1>6, SegElsewhere
  <2> QED BY <1>6, <1>7, <2>1 DEF Seg
<1>9. PICK d : Chained(p, right, d, Nodes(v)) /\ Len(d) = Len(v) /\ \A R : Arranges(R, m, v) => Ascends(R, d)
  <2>1. ToSort(p, v)
    BY <1>3, <1>4, <1>7, <1>8 DEF ToSort, FirstOf
  <2> QED BY <1>4, <2>1 DEF SortsTo
<1>10. /\ right \in Links /\ d \in Seq(Node) /\ Distinct(d) /\ Nodes(d) = Nodes(v)
       /\ right.head = FirstOf(d, NULL) /\ Seg(right, d, NULL, NULL) /\ Elsewhere(p, right, Nodes(v))
  BY <1>9 DEF Chained
<1> HIDE DEF right
<1>11. Seg(right, c, NULL, NULL)
  BY <1>3, <1>6, <1>8, <1>10, SegElsewhere
<1>12. Parts(right, c, d)
  BY <1>3, <1>6, <1>10, <1>11 DEF Parts
<1>13. c # <<>> /\ d # <<>> /\ left.head = c[1] /\ right.head = d[1]
  BY <1>4, <1>5, <1>6, <1>9, <1>10 DEF FirstOf
<1>14. PICK e : /\ Chained(right, o, e, Nodes(c) \cup Nodes(d))
                /\ Len(e) = Len(c) + Len(d)
                /\ \A R : Ordered(R, m, c, d) => Ascends(R, e)
  BY <1>12, <1>13, MergedIs
<1> HIDE DEF o
<1>15. Chained(q, o, e, Nodes(s))
  <2>1. Elsewhere(q, o, Nodes(s))
    <3> SUFFICES ASSUME NEW x \in Node, x \notin Nodes(s) PROVE o.next[x] = q.next[x] /\ o.prev[x] = q.prev[x]
      BY DEF Elsewhere
    <3>1. x \notin Nodes(u) /\ x \notin Nodes(v) /\ x \notin Nodes(c) \cup Nodes(d)
      BY <1>3, <1>6, <1>10
    <3>2. r.next[x] = q.next[x] /\ r.prev[x] = q.prev[x]
      BY <1>2 DEF Elsewhere
    <3>3. left.next[x] = r.next[x] /\ left.prev[x] = r.prev[x]
      BY <1>6, <3>1 DEF Elsewhere
    <3>4. right.next[x] = p.next[x] /\ right.prev[x] = p.prev[x]
      BY <1>10, <3>1 DEF Elsewhere
    <3>5. o.next[x] = right.next[x] /\ o.prev[x] = right.prev[x]
      BY <1>14, <3>1 DEF Elsewhere, Chained
    <3> QED BY <1>7, <3>2, <3>3, <3>4, <3>5
  <2>2. Nodes(c) \cup Nodes(d) = Nodes(s)
    BY <1>3, <1>6, <1>10
  <2> QED BY <1>14, <2>1, <2>2 DEF Chained
<1>16. Len(e) = Len(s)
  BY <1>3, <1>5, <1>9, <1>14
<1>17. \A R : Arranges(R, m, s) => Ascends(R, e)
  <2> SUFFICES ASSUME NEW R, Arranges(R, m, s) PROVE Ascends(R, e)
    OBVIOUS
  <2>1. Arranges(R, m, u) /\ Arranges(R, m, v) /\ \A x \in Nodes(u), y \in Nodes(v) : Decides(R, m, x, y)
    BY <1>2, ArrangesParts
  <2>2. Transitive(R) /\ Ascends(R, c) /\ Ascends(R, d)
    BY <1>5, <1>9, <2>1 DEF Arranges
  <2>3. Ordered(R, m, c, d)
    BY <1>6, <1>10, <2>1, <2>2 DEF Ordered
  <2> QED BY <1>14, <2>3
<1>18. SortsTo(m, q, o, s)
  BY <1>15, <1>16, <1>17 DEF SortsTo
<1> QED BY <1>18 DEF o, right, p, left, r

(* msort_rec sorts a list of any length.                                   *)
LEMMA MsortIs ==
  ASSUME NEW m, NEW q, NEW s, ToSort(q, s)
  PROVE  SortsTo(m, q, msort_rec(m, q), s)
<1>1. N \in Nat /\ s \in Seq(Node) /\ Len(s) \in Nat /\ Len(s) <= N /\ q \in Links
  BY NullIsNoNode, ShortEnough DEF ToSort
<1>2. PICK f : Levels(f, m, N) /\ msort_rec(m, q) = f[N][q]
  <2> DEFINE g == CHOOSE f : Levels(f, m, N)
  <2>1. Levels(g, m, N)
    BY <1>1, LevelsExist
  <2>2. msort_rec(m, q) = g[N][q]
    BY Zenon DEF msort_rec, Levels, Level
  <2> HIDE DEF g
  <2> QED BY <2>1, <2>2
<1>3. \A k \in 0..N : f[k] = Level(m, f[k - 1], k)
  <2> DEFINE By(k) == Level(m, f[k - 1], k)
  <2>1. f = [k \in 0..N |-> By(k)]
    BY <1>2, Zenon DEF Levels
  <2> HIDE DEF By
  <2>2. \A k \in 0..N : f[k] = By(k)
    BY <2>1
  <2> QED BY <2>2 DEF By
<1> DEFINE P == {k \in Nat : k <= N => \A r, c : ToSort(r, c) /\ Len(c) <= k + 1 => SortsTo(m, r, f[k][r], c)}
<1>4. \A k \in 0..N : \A r \in Links : k = 0 \/ r.head = NULL \/ r.next[r.head] = NULL => f[k][r] = r
  <2> SUFFICES ASSUME NEW k \in 0..N, NEW r \in Links, k = 0 \/ r.head = NULL \/ r.next[r.head] = NULL
               PROVE  Level(m, f[k - 1], k)[r] = r
    BY <1>3
  <2> QED BY DEF Level
<1>5. 0 \in P
  <2> SUFFICES ASSUME NEW r, NEW c, ToSort(r, c), Len(c) <= 0 + 1 PROVE SortsTo(m, r, f[0][r], c)
    OBVIOUS
  <2>1. f[0][r] = r
    BY <1>1, <1>4 DEF ToSort
  <2>2. Len(c) <= 1
    OBVIOUS
  <2> QED BY <2>1, <2>2, ShortIsSorted
<1>6. \A k \in Nat : k \in P => k + 1 \in P
  <2> SUFFICES ASSUME NEW k \in Nat, k \in P, k + 1 <= N, NEW r, NEW c, ToSort(r, c), Len(c) <= (k + 1) + 1
               PROVE  SortsTo(m, r, f[k + 1][r], c)
    OBVIOUS
  <2>1. /\ r \in Links /\ c \in Seq(Node) /\ Len(c) \in Nat /\ r.head = FirstOf(c, NULL) /\ Seg(r, c, NULL, NULL)
        /\ k <= N /\ k + 1 \in 0..N /\ k + 1 # 0 /\ (k + 1) - 1 = k
    BY <1>1 DEF ToSort
  <2>2. CASE Len(c) <= 1
    <3>1. r.head = NULL \/ r.next[r.head] = NULL
      <4>1. CASE Len(c) = 0
        BY <2>1, <4>1 DEF FirstOf
      <4>2. CASE Len(c) = 1
        <5>1. r.head = c[1] /\ 1 \in 1..Len(c)
          BY <2>1, <4>2 DEF FirstOf
        <5>2. r.next[c[1]] = NULL
          BY <2>1, <4>2, <5>1 DEF Seg
        <5> QED BY <5>1, <5>2
      <4>3. Len(c) = 0 \/ Len(c) = 1
        BY <2>1, <2>2, AtMostOne
      <4> QED BY <4>1, <4>2, <4>3
    <3>2. f[k + 1][r] = r
      BY <1>4, <2>1, <3>1
    <3> QED BY <2>2, <3>2, ShortIsSorted
  <2>3. CASE ~(Len(c) <= 1)
    <3>1. Len(c) >= 2 /\ 1 \in 1..Len(c) /\ 2 \in 1..Len(c) /\ 1 # Len(c) /\ 1 + 1 = 2
      BY <2>1, <2>3, MoreThanOne
    <3>2. r.head = c[1] /\ r.next[c[1]] = c[2] /\ c[1] # NULL /\ c[2] # NULL
      <4>1. r.head = c[1]
        BY <2>1, <3>1 DEF FirstOf
      <4>2. r.next[c[1]] = c[2]
        BY <2>1, <3>1, Zenon DEF Seg
      <4>3. c[1] \in Node /\ c[2] \in Node
        BY <2>1, <3>1
      <4> QED BY <4>1, <4>2, <4>3, NullIsNoNode
    <3> DEFINE g == f[k]
               left == g[split_middle(r).cut]
               right == g[[left EXCEPT !.head = split_middle(r).right]]
               o == merge_sorted(m, right, left.head, right.head)
    <3>3. f[k + 1] = Level(m, g, k + 1)
      BY <1>3, <2>1
    <3>4. f[k + 1][r] = o
      <4>1. ~(k + 1 = 0 \/ r.head = NULL \/ r.next[r.head] = NULL)
        BY <2>1, <3>2
      <4>2. Level(m, g, k + 1)[r] = IF k + 1 = 0 \/ r.head = NULL \/ r.next[r.head] = NULL THEN r ELSE o
        BY <2>1 DEF Level
      <4> HIDE DEF o, g
      <4> QED BY <3>3, <4>1, <4>2
    <3>5. \A p, d : ToSort(p, d) /\ Len(d) < Len(c) => SortsTo(m, p, g[p], d)
      <4> SUFFICES ASSUME NEW p, NEW d, ToSort(p, d), Len(d) < Len(c) PROVE SortsTo(m, p, g[p], d)
        OBVIOUS
      <4>1. Len(d) \in Nat
        BY DEF ToSort
      <4>2. Len(d) <= k + 1
        BY <2>1, <4>1
      <4> QED BY <2>1, <4>2
    <3> HIDE DEF g
    <3>6. SortsTo(m, r, o, c)
      BY <3>1, <3>5, HalvesSorted
    <3> HIDE DEF o
    <3> QED BY <3>4, <3>6
  <2> QED BY <2>2, <2>3
<1>7. N \in P
  <2> HIDE DEF P
  <2> QED BY <1>1, <1>5, <1>6, NatInd
<1>8. Len(s) <= N + 1
  BY <1>1
<1> QED BY <1>1, <1>2, <1>7, <1>8

(* sort leaves a list of the same nodes, in the order of the comparison.   *)
LEMMA SortIs ==
  ASSUME NEW m, NEW l, NEW c, NEW k, NEW d, Rep(m, l, c, k, d), Has(m, l)
  PROVE  \E e \in Seq(Node) : /\ Rep(sort(m, l), l, e, k, d) /\ Keeps(m, sort(m, l), l, k)
                              /\ sort(m, l).live = m.live /\ sort(m, l).data = m.data
                              /\ Distinct(e) /\ Len(e) = Len(c) /\ Nodes(e) = Nodes(c)
                              /\ \A R : Arranges(R, m, c) => Ascends(R, e)
<1> DEFINE o == sort(m, l)
           st == m.list[l]
           copies == st.copy
           h == st.head
           p == Set(m.prev, h, NULL)
           q0 == [next |-> m.next, prev |-> p, head |-> h]
           q == msort_rec(m, q0)
           tail == Last(Walk(q.next, q.head))
           next == Set(q.next, tail, NULL)
           prev == Set(q.prev, q.head, NULL)
           data == m.data
<1>1. /\ m \in Memory /\ l \in Lists /\ k \in Lists /\ l # k /\ c \in Seq(Node) /\ d \in Seq(Node)
      /\ Distinct(c) /\ Nodes(c) \cap Nodes(d) = {} /\ m.live = Nodes(c) \cup Nodes(d)
      /\ \A x \in m.live : m.data[x] \in Value
  BY RepElim
<1>2. Holds(m, l, c) /\ st.exists /\ Seg(m, c, NULL, NULL)
  BY DEF Rep, Has, Holds
<1>3. /\ m.next \in [Node -> Ptr] /\ m.prev \in [Node -> Ptr] /\ m.data \in [Node -> Cell]
      /\ m.list \in [Lists -> Structure \cup {NoList}] /\ Len(c) \in Nat /\ Nodes(c) \subseteq Node
  BY <1>1, MemoryIs, NodesIn
<1>8. Len(c) \in Nat
  BY <1>1
<1>4. st = ListOf(c, copies) /\ copies \in BOOLEAN /\ h = FirstOf(c, NULL)
  BY <1>1, <1>2, LivesIs
<1>5. o = IF h = NULL \/ m.next[h] = NULL THEN m
          ELSE [m EXCEPT !.next = next, !.prev = prev, !.list[l].head = q.head, !.list[l].tail = tail]
  BY Zenon DEF sort
<1>6. CASE Len(c) <= 1
  <2>1. h = NULL \/ m.next[h] = NULL
    <3>1. CASE Len(c) = 0
      BY <1>4, <3>1 DEF FirstOf
    <3>2. CASE Len(c) = 1
      <4>1. h = c[1] /\ 1 \in 1..Len(c)
        BY <1>4, <3>2 DEF FirstOf
      <4>2. m.next[c[1]] = NULL
        BY <1>2, <3>2, <4>1 DEF Seg
      <4> QED BY <4>1, <4>2
    <3>3. Len(c) = 0 \/ Len(c) = 1
      BY <1>6, <1>8, AtMostOne
    <3> QED BY <3>1, <3>2, <3>3
  <2> HIDE DEF o, h, next, prev, tail, q
  <2>2. o = m
    BY <1>5, <2>1
  <2>3. Keeps(m, m, l, k)
    BY <1>2 DEF Keeps, Has
  <2>4. \A R : Ascends(R, c)
    BY <1>3, <1>6 DEF Ascends
  <2> QED BY <1>1, <2>2, <2>3, <2>4 DEF o
<1>7. CASE ~(Len(c) <= 1)
  <2>1. h = c[1] /\ h \in Node /\ h \in Nodes(c) /\ h # NULL /\ m.next[h] # NULL /\ m.prev[h] = NULL
    <3>1. 1 \in 1..Len(c) /\ 2 \in 1..Len(c) /\ 1 # Len(c) /\ 1 + 1 = 2
      BY <1>7, <1>8, MoreThanOne
    <3>2. h = c[1]
      BY <1>4, <3>1 DEF FirstOf
    <3>3. m.next[c[1]] = c[2] /\ m.prev[c[1]] = NULL
      BY <1>2, <3>1, Zenon DEF Seg
    <3>4. c[1] \in Node /\ c[2] \in Node /\ c[1] \in Nodes(c)
      BY <1>1, <3>1 DEF Nodes
    <3> QED BY <3>2, <3>3, <3>4, NullIsNoNode
  <2> HIDE DEF h
  <2>2. p \in [Node -> Ptr] /\ \A x \in Node : p[x] = m.prev[x]
    <3>1. h \in Ptr /\ NULL \in Ptr
      BY <2>1 DEF Ptr
    <3>2. p \in [Node -> Ptr]
      BY <1>3, <3>1, SetIs
    <3> QED BY <2>1, <3>2 DEF Set
  <2> HIDE DEF p
  <2>3. q0 \in Links /\ q0.next = m.next /\ q0.prev = p /\ q0.head = h
    BY <1>3, <2>1, <2>2 DEF Links, Ptr
  <2> HIDE DEF q0
  <2>4. ToSort(q0, c)
    <3>1. \A x \in Nodes(c) : q0.next[x] = m.next[x] /\ q0.prev[x] = m.prev[x]
      BY <1>3, <2>2, <2>3
    <3>2. Seg(q0, c, NULL, NULL)
      BY <1>2, <3>1, SegFrame
    <3> QED BY <1>1, <1>4, <2>3, <3>2 DEF ToSort
  <2>5. SortsTo(m, q0, q, c)
    BY <2>4, MsortIs
  <2> HIDE DEF q
  <2>6. PICK e : Chained(q0, q, e, Nodes(c)) /\ Len(e) = Len(c) /\ \A R : Arranges(R, m, c) => Ascends(R, e)
    BY <2>5, Zenon DEF SortsTo
  <2>7. /\ q \in Links /\ e \in Seq(Node) /\ Distinct(e) /\ Nodes(e) = Nodes(c)
        /\ q.head = FirstOf(e, NULL) /\ Seg(q, e, NULL, NULL) /\ Elsewhere(q0, q, Nodes(c))
    BY <2>6 DEF Chained
  <2> DEFINE n == Len(e)
  <2>8. /\ n \in Nat /\ n # 0 /\ 1 \in 1..n /\ n \in 1..n /\ e # <<>> /\ e[n] \in Node /\ e[1] \in Node
        /\ FirstOf(e, NULL) = e[1] /\ LastOf(e, NULL) = e[n]
    <3>1. n \in Nat /\ n # 0 /\ 1 \in 1..n /\ n \in 1..n
      BY <1>3, <1>7, <2>6
    <3> QED BY <2>7, <3>1 DEF FirstOf, LastOf
  <2>9. tail = e[n]
    <3>1. \A i \in 1..Len(e) : q.next[e[i]] = IF i = Len(e) THEN NULL ELSE e[i + 1]
      BY <2>7 DEF Seg
    <3>2. Walk(q.next, q.head) = e
      BY <2>7, <3>1, WalkIs
    <3> QED BY <2>7, <2>8, <3>2 DEF Last
  <2> HIDE DEF tail
  <2>10. next \in [Node -> Ptr] /\ prev \in [Node -> Ptr]
    <3>1. q.next \in [Node -> Ptr] /\ q.prev \in [Node -> Ptr] /\ tail \in Ptr /\ q.head \in Ptr /\ NULL \in Ptr
      BY <2>7, <2>8, <2>9, LinksAre DEF Ptr
    <3> QED BY <3>1, SetIs
  <2>11. \A x \in Node : next[x] = (IF x = e[n] THEN NULL ELSE q.next[x]) /\ prev[x] = (IF x = e[1] THEN NULL ELSE q.prev[x])
    BY <2>7, <2>8, <2>9 DEF Set
  <2> DEFINE st1 == [st EXCEPT !.head = e[1], !.tail = e[n]]
  <2>12. st1 = ListOf(e, copies)
    <3>1. Fields(st, FirstOf(c, NULL), LastOf(c, NULL), Len(c), copies)
      BY <1>4, ListOfFields
    <3>2. st1 = [st EXCEPT !.head = e[1], !.tail = e[n]]
      OBVIOUS
    <3> HIDE DEF st, st1, copies
    <3>3. Fields(st1, e[1], e[n], Len(c), copies)
      BY <3>1, <3>2 DEF Fields
    <3>4. Fields(st1, FirstOf(e, NULL), LastOf(e, NULL), Len(e), copies)
      BY <2>6, <2>8, <3>3
    <3> QED BY <3>4, ListOfFields
  <2> HIDE DEF o, next, prev, n
  <2>13. o = [m EXCEPT !.next = next, !.prev = prev, !.list[l].head = e[1], !.list[l].tail = e[n]]
    BY <1>5, <2>1, <2>7, <2>8, <2>9
  <2>14. Made(o, m.live, data, prev, next, [m.list EXCEPT ![l] = st1])
    <3>1. Made(m, m.live, m.data, m.prev, m.next, m.list)
      BY <1>1, MemoryMade
    <3>2. [m.list EXCEPT ![l].head = e[1], ![l].tail = e[n]] = [m.list EXCEPT ![l] = st1]
      BY <1>1, <1>3
    <3>3. o = [m EXCEPT !.next = next, !.prev = prev, !.list = [m.list EXCEPT ![l].head = e[1], ![l].tail = e[n]]]
      BY <2>13
    <3> HIDE DEF st1
    <3>4. o = [m EXCEPT !.next = next, !.prev = prev, !.list = [m.list EXCEPT ![l] = st1]]
      BY <3>2, <3>3
    <3> QED BY <3>1, <3>4 DEF Made
  <2> HIDE DEF st1
  <2>15. o.prev = prev /\ o.next = next /\ o.live = m.live /\ o.data = data
    BY <2>14, MadeIs
  <2>16. Seg(o, e, NULL, NULL)
    <3>1. q.prev[e[1]] = NULL /\ q.next[e[n]] = NULL
      BY <2>7, <2>8 DEF Seg, n
    <3>2. \A x \in Nodes(e) : /\ o.next[x] = IF x = LastOf(e, NULL) THEN NULL ELSE q.next[x]
                              /\ o.prev[x] = IF x = FirstOf(e, NULL) THEN NULL ELSE q.prev[x]
      BY <1>3, <2>7, <2>8, <2>11, <2>15
    <3> QED BY <2>7, <3>2, SegRelink
  <2>17. Made(o, Nodes(e) \cup Nodes(d), data, prev, next, Relist(m, l, e))
    BY <1>1, <2>7, <2>12, <2>14 DEF Relist, Relisted
  <2>18. Tells(m, l)
    BY <1>4 DEF Tells
  <2>19. /\ data \in [Node -> Cell] /\ (\A x \in Nodes(e) : data[x] \in Value)
         /\ (\A x \in Nodes(d) : data[x] = m.data[x] /\ prev[x] = m.prev[x] /\ next[x] = m.next[x])
         /\ (\A x \in Nodes(e) \cap m.live : data[x] = m.data[x])
    <3>1. \A x \in Nodes(d) : prev[x] = m.prev[x] /\ next[x] = m.next[x]
      <4> SUFFICES ASSUME NEW x \in Nodes(d) PROVE prev[x] = m.prev[x] /\ next[x] = m.next[x]
        OBVIOUS
      <4>1. x \in Node /\ x \notin Nodes(c) /\ x # e[n] /\ x # e[1]
        <5>1. x \in Node /\ x \notin Nodes(c)
          BY <1>1, NodesIn
        <5>2. e[n] \in Nodes(e) /\ e[1] \in Nodes(e)
          BY <2>8 DEF Nodes, n
        <5> QED BY <2>7, <5>1, <5>2
      <4>2. q.next[x] = q0.next[x] /\ q.prev[x] = q0.prev[x]
        BY <2>7, <4>1 DEF Elsewhere
      <4> QED BY <2>2, <2>3, <2>11, <4>1, <4>2
    <3> QED BY <1>1, <1>3, <2>7, <3>1
  <2>20. Nodes(e) \cap Nodes(d) = {} /\ e \in Seq(Node) /\ Distinct(e)
    BY <1>1, <2>7
  <2> HIDE DEF data
  <2>21. Rep(o, l, e, k, d) /\ Keeps(m, o, l, k)
    BY <2>10, <2>16, <2>17, <2>18, <2>19, <2>20, Rebuilt
  <2> QED BY <2>6, <2>7, <2>15, <2>21 DEF o, data
<1> QED BY <1>6, <1>7

(* The inductive invariant: the memory is that of two lists of nodes.      *)
Sound(m) == \E c, d \in Seq(Node) : Rep(m, "a", c, "b", d)

(* The invariant, from any naming of the two lists.                        *)
LEMMA SoundIntro ==
  ASSUME NEW m, NEW l, NEW c, NEW k, NEW d, Rep(m, l, c, k, d)
  PROVE  Sound(m)
<1>1. l \in Lists /\ k \in Lists /\ l # k /\ c \in Seq(Node) /\ d \in Seq(Node)
  BY RepElim
<1>2. CASE l = "a"
  BY <1>1, <1>2 DEF Lists, Sound
<1>3. CASE l = "b"
  <2>1. Rep(m, k, d, l, c) /\ k = "a"
    BY <1>1, <1>3, RepSwap DEF Lists
  <2> QED BY <1>1, <1>3, <2>1 DEF Sound
<1> QED BY <1>1, <1>2, <1>3 DEF Lists

(* And back.                                                               *)
LEMMA SoundElim ==
  ASSUME NEW m, Sound(m), NEW l \in Lists, NEW k \in Lists, l # k
  PROVE  \E c, d \in Seq(Node) : Rep(m, l, c, k, d)
<1>1. PICK c \in Seq(Node), d \in Seq(Node) : Rep(m, "a", c, "b", d)
  BY DEF Sound
<1>2. Rep(m, "b", d, "a", c)
  BY <1>1, RepSwap
<1>3. (l = "a" /\ k = "b") \/ (l = "b" /\ k = "a")
  BY DEF Lists
<1> QED BY <1>1, <1>2, <1>3

(* What the invariant says of the walks, as the code makes them.           *)
SoundHeap(m) ==
    LET alive == {l \in Lists : m.list[l].exists}
        nodes(l) == ToSet(Chain(m, l))
    IN  /\ \A l \in alive :
               /\ Walk(m.prev, m.list[l].tail) = Reverse(Chain(m, l))
               /\ m.list[l].size = Len(Chain(m, l))
               /\ \A k \in alive \ {l} : nodes(l) \cap nodes(k) = {}
        /\ m.live = UNION {nodes(l) : l \in alive}

(* What the invariant says of one list.                                    *)
LEMMA OneList ==
  ASSUME NEW m, NEW l, NEW c, NEW k, NEW d, Rep(m, l, c, k, d)
  PROVE  /\ (Has(m, l) => /\ Walk(m.prev, m.list[l].tail) = Reverse(Chain(m, l))
                          /\ m.list[l].size = Len(Chain(m, l))
                          /\ ToSet(Chain(m, l)) = Nodes(c))
         /\ (~Has(m, l) => Nodes(c) = {})
<1>1. c \in Seq(Node) /\ Holds(m, l, c)
  BY DEF Rep
<1>2. ASSUME Has(m, l)
      PROVE  /\ Walk(m.prev, m.list[l].tail) = Reverse(Chain(m, l))
             /\ m.list[l].size = Len(Chain(m, l)) /\ ToSet(Chain(m, l)) = Nodes(c)
  <2>1. m.list[l].exists
    BY <1>2 DEF Has
  <2>2. Chain(m, l) = c
    BY <1>1, <2>1, ChainIs
  <2>3. Walk(m.prev, m.list[l].tail) = Reverse(c)
    BY <1>1, <2>1, WalksBack
  <2>4. m.list[l].size = Len(c)
    BY <1>1, <2>1, LivesIs
  <2>5. ToSet(c) = Nodes(c)
    BY <1>1, ToSetIs
  <2> QED BY <2>2, <2>3, <2>4, <2>5
<1>3. ASSUME ~Has(m, l) PROVE Nodes(c) = {}
  <2>1. c = <<>>
    BY <1>1, <1>3, AbsentIs DEF Has
  <2>2. Nodes(<<>>) = {}
    BY EmptyIs
  <2> QED BY <2>1, <2>2
<1> QED BY <1>2, <1>3

(* What it says of both is what HeapIsSound says.                          *)
LEMMA SoundIs ==
  ASSUME NEW m, Sound(m)
  PROVE  SoundHeap(m)
<1>1. PICK c \in Seq(Node), d \in Seq(Node) : Rep(m, "a", c, "b", d)
  BY DEF Sound
<1>2. Rep(m, "b", d, "a", c)
  BY <1>1, RepSwap
<1>3. m.live = Nodes(c) \cup Nodes(d) /\ Nodes(c) \cap Nodes(d) = {}
  BY <1>1, RepElim
<1> DEFINE alive == {l \in Lists : Has(m, l)}
           nodes(l) == ToSet(Chain(m, l))
<1>4. ASSUME NEW l \in alive
      PROVE  Walk(m.prev, m.list[l].tail) = Reverse(Chain(m, l)) /\ m.list[l].size = Len(Chain(m, l))
  <2>1. l = "a" \/ l = "b"
    BY DEF Lists
  <2> QED BY <1>1, <1>2, <2>1, OneList
<1>5. /\ (Has(m, "a") => nodes("a") = Nodes(c)) /\ (~Has(m, "a") => Nodes(c) = {})
      /\ (Has(m, "b") => nodes("b") = Nodes(d)) /\ (~Has(m, "b") => Nodes(d) = {})
  BY <1>1, <1>2, OneList
<1> HIDE DEF nodes
<1>6. ASSUME NEW l \in alive, NEW k \in alive \ {l} PROVE nodes(l) \cap nodes(k) = {}
  <2>1. (l = "a" /\ k = "b") \/ (l = "b" /\ k = "a")
    BY DEF Lists
  <2> QED BY <1>3, <1>5, <1>6, <2>1
<1>7. m.live = UNION {nodes(l) : l \in alive}
  <2>1. \A x : x \in UNION {nodes(l) : l \in alive} <=> (Has(m, "a") /\ x \in nodes("a")) \/ (Has(m, "b") /\ x \in nodes("b"))
    BY DEF Lists
  <2>2. \A x : x \in m.live <=> (Has(m, "a") /\ x \in nodes("a")) \/ (Has(m, "b") /\ x \in nodes("b"))
    BY <1>3, <1>5
  <2> QED BY <2>1, <2>2
<1> QED BY <1>4, <1>6, <1>7 DEF SoundHeap, alive, nodes, Has

(* There is no list at first.                                              *)
LEMMA InitSound == Init => Sound(mem)
<1> SUFFICES ASSUME Init PROVE Sound(mem)
  OBVIOUS
<1> DEFINE z == <<>>
           data == [n \in Node |-> NULL]
           list == [l \in Lists |-> NoList]
<1>1. z \in Seq(Node) /\ Nodes(z) = {} /\ Distinct(z) /\ \A m, a, b : Seg(m, z, a, b)
  BY EmptyIs
<1>2. data \in [Node -> Cell] /\ data \in [Node -> Ptr] /\ list \in [Lists -> Structure \cup {NoList}]
      /\ {} \in SUBSET Node /\ \A l \in Lists : list[l] = NoList
  BY DEF Cell, Ptr
<1>3. Made(mem, {}, data, data, data, list)
  BY DEF Init, Made
<1> HIDE DEF data, list
<1>4. mem \in Memory
  BY <1>2, <1>3, MadeMemory
<1>5. mem.list = list /\ mem.live = {}
  BY <1>3, MadeIs
<1>6. \A l \in Lists : IsList(mem.list[l], z)
  BY <1>2, <1>5, NoListIs
<1>7. "a" \in Lists /\ "b" \in Lists /\ "a" # "b"
  BY DEF Lists
<1> HIDE DEF z
<1>8. Rep(mem, "a", z, "b", z)
  BY <1>1, <1>4, <1>5, <1>6, <1>7, RepIntro
<1> QED BY <1>1, <1>8 DEF Sound

(* extract keeps the invariant.                                            *)
LEMMA ExtractIs ==
  ASSUME NEW m, NEW l, NEW c, NEW k, NEW d, Rep(m, l, c, k, d), Has(m, l), NEW x
  PROVE  Sound(extract(m, l, x))
<1>1. c \in Seq(Node)
  BY RepElim
<1>2. CASE x \in Nodes(c)
  <2>1. PICK s \in Seq(Node), t \in Seq(Node) : c = Glue(s, x, t) /\ x \in Node
    BY <1>1, <1>2, CutAtNode
  <2>2. Rep(m, l, Glue(s, x, t), k, d) /\ x \in Node
    BY <2>1
  <2>3. Removes(m, extract(m, l, x), l, s, x, t)
    BY <2>2, ExtractMade
  <2>4. Rep(extract(m, l, x), l, s \o t, k, d)
    BY <2>2, <2>3, Unlinked
  <2> QED BY <2>4, SoundIntro
<1>3. CASE x \notin Nodes(c)
  <2>1. ~IsIn(m, l, x)
    BY <1>3, IsInIs
  <2>2. extract(m, l, x) = m
    BY <2>1 DEF extract
  <2> QED BY <2>2, SoundIntro
<1> QED BY <1>2, <1>3

(* The ends of a list that has nodes.                                      *)
LEMMA EndsCut ==
  ASSUME NEW c \in Seq(Node), c # <<>>
  PROVE  /\ \E x \in Node, t \in Seq(Node) : c = Glue(<<>>, x, t)
         /\ \E x \in Node, s \in Seq(Node) : c = Glue(s, x, <<>>)
<1>1. Len(c) \in Nat /\ Len(c) # 0
  BY NodesIn
<1>2. 1 \in 1..Len(c) /\ Len(c) \in 1..Len(c)
  BY <1>1
<1>3. \E x \in Node, t \in Seq(Node) : c = Glue(<<>>, x, t)
  <2> DEFINE s == SubSeq(c, 1, 1 - 1)
             t == SubSeq(c, 1 + 1, Len(c))
             x == c[1]
  <2>1. s \in Seq(Node) /\ Len(s) = 1 - 1 /\ t \in Seq(Node) /\ x \in Node /\ c = Glue(s, x, t)
    BY <1>2, CutAt
  <2> HIDE DEF s, t, x
  <2>2. s = <<>>
    BY <2>1
  <2> QED BY <2>1, <2>2
<1>4. \E x \in Node, s \in Seq(Node) : c = Glue(s, x, <<>>)
  <2> DEFINE s == SubSeq(c, 1, Len(c) - 1)
             t == SubSeq(c, Len(c) + 1, Len(c))
             x == c[Len(c)]
  <2>1. s \in Seq(Node) /\ t \in Seq(Node) /\ Len(t) = Len(c) - Len(c) /\ x \in Node /\ c = Glue(s, x, t)
    BY <1>2, CutAt
  <2> HIDE DEF s, t, x
  <2>2. t = <<>>
    BY <1>1, <2>1
  <2> QED BY <2>1, <2>2
<1> QED BY <1>3, <1>4

(* So do pop_front and pop_back, on an empty list too.                     *)
LEMMA PopsAre ==
  ASSUME NEW m, NEW l, NEW c, NEW k, NEW d, Rep(m, l, c, k, d), Has(m, l)
  PROVE  Sound(pop_front(m, l)) /\ Sound(pop_back(m, l))
<1>1. c \in Seq(Node) /\ Holds(m, l, c) /\ m.list[l].exists
  BY DEF Rep, Has
<1>2. CASE c = <<>>
  <2>1. m.list[l].head = FirstOf(c, NULL) /\ m.list[l].tail = LastOf(c, NULL)
    BY <1>1, LivesIs
  <2>2. m.list[l].head = NULL /\ m.list[l].tail = NULL
    BY <1>2, <2>1, EmptyIs
  <2>3. pop_front(m, l) = m /\ pop_back(m, l) = m
    BY <2>2 DEF pop_front, pop_back
  <2>4. Sound(m)
    BY SoundIntro
  <2> QED BY <2>3, <2>4
<1>3. CASE c # <<>>
  <2>1. PICK x \in Node, t \in Seq(Node) : c = Glue(<<>>, x, t)
    BY <1>1, <1>3, EndsCut
  <2>2. PICK y \in Node, s \in Seq(Node) : c = Glue(s, y, <<>>)
    BY <1>1, <1>3, EndsCut
  <2> DEFINE z == <<>>
  <2>3. z \in Seq(Node)
    OBVIOUS
  <2>4. Rep(m, l, Glue(<<>>, x, t), k, d)
    BY <2>1
  <2>5. Removes(m, pop_front(m, l), l, <<>>, x, t)
    BY <2>4, PopFrontMade
  <2>6. Rep(m, l, Glue(s, y, <<>>), k, d)
    BY <2>2
  <2>7. Removes(m, pop_back(m, l), l, s, y, <<>>)
    BY <2>6, PopBackMade
  <2>8. /\ Rep(m, l, Glue(z, x, t), k, d) /\ Removes(m, pop_front(m, l), l, z, x, t)
        /\ Rep(m, l, Glue(s, y, z), k, d) /\ Removes(m, pop_back(m, l), l, s, y, z)
    BY <2>4, <2>5, <2>6, <2>7
  <2> HIDE DEF z
  <2>9. Rep(pop_front(m, l), l, z \o t, k, d)
    BY <2>3, <2>8, Unlinked
  <2>10. Rep(pop_back(m, l), l, s \o z, k, d)
    BY <2>3, <2>8, Unlinked
  <2> QED BY <2>9, <2>10, SoundIntro
<1> QED BY <1>2, <1>3

(* A new node at a position of the list, or at an end.                     *)
LEMMA InsertsAre ==
  ASSUME NEW m, NEW l, NEW c, NEW k, NEW d, Rep(m, l, c, k, d), Has(m, l), Free(m) # {}, NEW v \in Value
  PROVE  /\ Sound(push_front(m, l, v)) /\ Sound(push_back(m, l, v))
         /\ \A x \in Nodes(c) : Sound(insert_before(m, l, x, v)) /\ Sound(insert_after(m, l, x, v))
<1> DEFINE n == New(m)
           z == <<>>
<1>1. c \in Seq(Node) /\ Fresh(m, n)
  BY RepElim, NewIs DEF Fresh
<1>2. z \in Seq(Node) /\ z \o c = c /\ c \o z = c
  BY <1>1
<1>3. Inserts(m, push_front(m, l, v), l, z, n, c, v)
  BY PushFrontMade
<1>4. Inserts(m, push_back(m, l, v), l, c, n, z, v)
  BY PushBackMade
<1> HIDE DEF n, z
<1>5. Rep(m, l, z \o c, k, d) /\ Rep(m, l, c \o z, k, d)
  BY <1>2
<1>6. Rep(push_front(m, l, v), l, Glue(z, n, c), k, d)
  BY <1>1, <1>2, <1>3, <1>5, Inserted
<1>7. Rep(push_back(m, l, v), l, Glue(c, n, z), k, d)
  BY <1>1, <1>2, <1>4, <1>5, Inserted
<1>8. ASSUME NEW x \in Nodes(c) PROVE Sound(insert_before(m, l, x, v)) /\ Sound(insert_after(m, l, x, v))
  <2>1. PICK s \in Seq(Node), t \in Seq(Node) : c = Glue(s, x, t) /\ x \in Node
    BY <1>1, CutAtNode
  <2>2. Rep(m, l, Glue(s, x, t), k, d) /\ x \in Node
    BY <2>1
  <2> DEFINE a == s \o <<x>>
             b == <<x>> \o t
  <2>3. Inserts(m, insert_before(m, l, x, v), l, s, n, b, v)
    BY <2>2, InsertBeforeMade DEF n
  <2>4. Inserts(m, insert_after(m, l, x, v), l, a, n, t, v)
    BY <2>2, InsertAfterMade DEF n
  <2>5. a \in Seq(Node) /\ b \in Seq(Node) /\ s \o b = c /\ a \o t = c
    <3>1. a \in Seq(Node) /\ b \in Seq(Node)
      BY <2>2
    <3>2. a \o t = Glue(s, x, t)
      BY DEF Glue
    <3>3. s \o b = Glue(s, x, t)
      BY <2>2 DEF Glue
    <3> QED BY <2>1, <3>1, <3>2, <3>3
  <2> HIDE DEF a, b
  <2>6. Rep(m, l, s \o b, k, d) /\ Rep(m, l, a \o t, k, d)
    BY <2>5
  <2>7. Rep(insert_before(m, l, x, v), l, Glue(s, n, b), k, d)
    BY <1>1, <2>3, <2>5, <2>6, Inserted
  <2>8. Rep(insert_after(m, l, x, v), l, Glue(a, n, t), k, d)
    BY <1>1, <2>4, <2>5, <2>6, Inserted
  <2> QED BY <2>7, <2>8, SoundIntro
<1> QED BY <1>6, <1>7, <1>8, SoundIntro

(* One list at a time.                                                     *)
LEMMA OneListSteps ==
  ASSUME Sound(mem), NEW l \in Lists, OnOne(l)
  PROVE  Sound(mem')
<1>1. PICK k \in Lists : l # k
  BY DEF Lists
<1>2. PICK c \in Seq(Node), d \in Seq(Node) : Rep(mem, l, c, k, d)
  BY <1>1, SoundElim
<1>3. Lives(l) <=> Has(mem, l)
  BY DEF Lives, Has
<1>4. CASE Create(l)
  <2>1. ~Has(mem, l) /\ mem' = [mem EXCEPT !.list[l] = EmptyList(TRUE)] /\ TRUE \in BOOLEAN
    BY <1>3, <1>4 DEF Create, Step
  <2> DEFINE o == mem'
  <2>2. o = [mem EXCEPT !.list[l] = EmptyList(TRUE)]
    BY <2>1
  <2> HIDE DEF o
  <2>3. Rep(o, l, <<>>, k, d)
    BY <1>2, <2>1, <2>2, Opened
  <2> QED BY <2>3, SoundIntro DEF o
<1>5. CASE Clear(l)
  <2>1. Has(mem, l) /\ mem' = clear(mem, l)
    BY <1>3, <1>5 DEF Clear, Step
  <2>2. Rep(clear(mem, l), l, <<>>, k, d)
    BY <1>2, <2>1, ClearIs
  <2> QED BY <2>1, <2>2, SoundIntro
<1>6. CASE Destroy(l)
  <2>1. Has(mem, l) /\ mem' = destroy(mem, l)
    BY <1>3, <1>6 DEF Destroy, Step
  <2>2. Rep(destroy(mem, l), l, <<>>, k, d)
    BY <1>2, <2>1, DestroyIs
  <2> QED BY <2>1, <2>2, SoundIntro
<1>7. CASE PopFront(l) \/ PopBack(l)
  <2>1. Has(mem, l) /\ (mem' = pop_front(mem, l) \/ mem' = pop_back(mem, l))
    BY <1>3, <1>7 DEF PopFront, PopBack, Step
  <2> QED BY <1>2, <2>1, PopsAre
<1>8. CASE ReverseList(l)
  <2>1. Has(mem, l) /\ mem' = reverse(mem, l)
    BY <1>3, <1>8 DEF ReverseList, Step
  <2>2. Rep(reverse(mem, l), l, Reverse(c), k, d)
    BY <1>2, <2>1, ReverseOpIs
  <2> QED BY <2>1, <2>2, SoundIntro
<1>9. CASE Unique(l)
  <2>1. Has(mem, l) /\ mem' = unique(mem, l)
    BY <1>3, <1>9 DEF Unique, Step
  <2> QED BY <1>2, <2>1, UniqueIs, SoundIntro
<1>10. CASE Sort(l)
  <2>1. Has(mem, l) /\ mem' = sort(mem, l)
    BY <1>3, <1>10 DEF Sort, Step
  <2>2. \E e \in Seq(Node) : Rep(sort(mem, l), l, e, k, d)
    BY <1>2, <2>1, SortIs
  <2> QED BY <2>1, <2>2, SoundIntro
<1>11. CASE \E x \in Keys : RemoveIf(l, x)
  <2>1. PICK x \in Keys : Has(mem, l) /\ mem' = remove_if(mem, l, x)
    BY <1>3, <1>11 DEF RemoveIf, Step
  <2> QED BY <1>2, <2>1, RemoveIfIs, SoundIntro
<1>12. CASE \E n \in Node : Erase(l, n) \/ Extract(l, n)
  <2>1. PICK n \in Node : Has(mem, l) /\ (mem' = erase(mem, l, n) \/ mem' = extract(mem, l, n))
    BY <1>3, <1>12 DEF Erase, Extract, Step
  <2>2. Sound(extract(mem, l, n))
    BY <1>2, <2>1, ExtractIs
  <2>3. Sound(erase(mem, l, n))
    BY <1>2, <2>1, EraseIs, SoundIntro
  <2> QED BY <2>1, <2>2, <2>3
<1>13. CASE \E v \in Value : PushFront(l, v) \/ PushBack(l, v)
  <2>1. PICK v \in Value : Has(mem, l) /\ Free(mem) # {} /\ (mem' = push_front(mem, l, v) \/ mem' = push_back(mem, l, v))
    BY <1>3, <1>13 DEF PushFront, PushBack, Step
  <2> QED BY <1>2, <2>1, InsertsAre
<1>14. CASE \E v \in Value, n \in Node \cup {NULL} : InsertBefore(l, n, v) \/ InsertAfter(l, n, v)
  <2>1. PICK v \in Value, n \in Node \cup {NULL} :
            /\ Has(mem, l) /\ Free(mem) # {} /\ n \in Positions(l)
            /\ mem' = insert_before(mem, l, n, v) \/ mem' = insert_after(mem, l, n, v)
    BY <1>3, <1>14 DEF InsertBefore, InsertAfter, Step
  <2>2. n \in Nodes(c) \/ n = NULL
    <3>1. ToSet(Chain(mem, l)) = Nodes(c)
      BY <1>2, <2>1, OneList
    <3> QED BY <2>1, <3>1 DEF Positions
  <2>3. CASE n = NULL
    <3>1. insert_before(mem, l, n, v) = push_back(mem, l, v) /\ insert_after(mem, l, n, v) = push_front(mem, l, v)
      BY <2>3 DEF insert_before, insert_after
    <3>2. Sound(push_front(mem, l, v)) /\ Sound(push_back(mem, l, v))
      BY <1>2, <2>1, InsertsAre
    <3> QED BY <2>1, <3>1, <3>2
  <2>4. CASE n \in Nodes(c)
    <3>1. Sound(insert_before(mem, l, n, v)) /\ Sound(insert_after(mem, l, n, v))
      BY <1>2, <2>1, <2>4, InsertsAre
    <3> QED BY <2>1, <3>1
  <2> QED BY <2>2, <2>3, <2>4
<1>15. CASE \E s \in Arrays : FromArray(l, s)
  <2>1. PICK s \in Arrays : ~Has(mem, l) /\ mem' = from_array(mem, l, s, TRUE)
    BY <1>3, <1>15 DEF FromArray, Step
  <2>2. s \in Seq(Value) /\ TRUE \in BOOLEAN
    <3>1. PICK v \in Value, w \in Value : s = <<v, w>>
      BY DEF Arrays
    <3>2. <<v, w>> \in Seq(Value)
      OBVIOUS
    <3> QED BY <3>1, <3>2
  <2>3. \E e \in Seq(Node) : Rep(from_array(mem, l, s, TRUE), l, e, k, d)
    BY <1>2, <2>1, <2>2, FromArraySound
  <2> QED BY <2>1, <2>3, SoundIntro
<1> QED BY <1>4, <1>5, <1>6, <1>7, <1>8, <1>9, <1>10, <1>11, <1>12, <1>13, <1>14, <1>15 DEF OnOne

(* Two lists.                                                              *)
LEMMA TwoListSteps ==
  ASSUME Sound(mem), NEW l \in Lists, NEW k \in Lists, l # k, OnTwo(l, k)
  PROVE  Sound(mem')
<1>1. PICK c \in Seq(Node), d \in Seq(Node) : Rep(mem, l, c, k, d)
  BY SoundElim
<1>2. (Lives(l) <=> Has(mem, l)) /\ (Lives(k) <=> Has(mem, k))
  BY DEF Lives, Has
<1>3. CASE Concat(l, k)
  <2>1. Has(mem, l) /\ Has(mem, k) /\ mem' = concat(mem, l, k)
    BY <1>2, <1>3 DEF Concat, Step
  <2>2. CASE SamePolicy(mem, l, k)
    <3>1. Rep(concat(mem, l, k), l, c \o d, k, <<>>)
      BY <1>1, <2>1, <2>2, ConcatOpIs
    <3> QED BY <2>1, <3>1, SoundIntro
  <2>3. CASE ~SamePolicy(mem, l, k)
    <3>1. concat(mem, l, k) = mem
      BY <2>3 DEF concat
    <3> QED BY <2>1, <3>1
  <2> QED BY <2>2, <2>3
<1>4. CASE Map(l, k)
  <2>1. Has(mem, l) /\ ~Has(mem, k) /\ mem' = map(mem, l, k)
    BY <1>2, <1>4 DEF Map, Step
  <2>2. \E e \in Seq(Node) : Rep(map(mem, l, k), k, e, l, c)
    BY <1>1, <2>1, MapIs
  <2> QED BY <2>1, <2>2, SoundIntro
<1>5. CASE Clone(l, k)
  <2>1. Has(mem, l) /\ ~Has(mem, k) /\ mem' = clone(mem, l, k)
    BY <1>2, <1>5 DEF Clone, Step
  <2>2. \E e \in Seq(Node) : Rep(clone(mem, l, k), k, e, l, c)
    BY <1>1, <2>1, CloneIs
  <2> QED BY <2>1, <2>2, SoundIntro
<1>6. CASE \E x \in Keys : Filter(l, k, x)
  <2>1. PICK x \in Keys : Has(mem, l) /\ ~Has(mem, k) /\ mem' = filter(mem, l, k, x)
    BY <1>2, <1>6 DEF Filter, Step
  <2>2. \E e \in Seq(Node) : Rep(filter(mem, l, k, x), k, e, l, c)
    BY <1>1, <2>1, FilterIs
  <2> QED BY <2>1, <2>2, SoundIntro
<1>7. CASE \E n \in Node \cup {NULL} : Splice(l, n, k)
  <2>1. PICK n \in Node \cup {NULL} : Has(mem, l) /\ Has(mem, k) /\ mem' = splice_before(mem, l, n, k)
    BY <1>2, <1>7 DEF Splice, Step
  <2>2. \/ splice_before(mem, l, n, k) = mem
        \/ \E e, f \in Seq(Node) : Rep(splice_before(mem, l, n, k), l, e, k, f)
    BY <1>1, <2>1, SpliceIs
  <2> QED BY <2>1, <2>2, SoundIntro
<1>8. CASE \E n \in Node \cup {NULL} : Split(l, n, k)
  <2>1. PICK n \in Node \cup {NULL} : Has(mem, l) /\ ~Has(mem, k) /\ mem' = split_after(mem, l, n, k)
    BY <1>2, <1>8 DEF Split, Step
  <2> DEFINE o == split_after(mem, l, n, k)
  <2>2. CASE n = NULL
    <3>1. Rep(split_after(mem, l, NULL, k), l, <<>>, k, c)
      BY <1>1, <2>1, SplitAllIs
    <3> QED BY <2>1, <2>2, <3>1, SoundIntro
  <2>3. CASE n # NULL
    <3>1. o = mem \/ Rep(o, k, <<>>, l, c)
      BY <1>1, <2>1, <2>3, SplitIs
    <3> HIDE DEF o
    <3>2. mem' = o
      BY <2>1 DEF o
    <3> QED BY <3>1, <3>2, SoundIntro
  <2> QED BY <2>2, <2>3
<1>9. CASE \E n \in Node \cup {NULL} : SplitCrashes(l, n, k)
  <2>1. mem' = mem
    BY <1>9 DEF SplitCrashes
  <2> QED BY <2>1
<1> QED BY <1>3, <1>4, <1>5, <1>6, <1>7, <1>8, <1>9 DEF OnTwo

(* Every step keeps the invariant.                                         *)
LEMMA SoundStep == Sound(mem) /\ [Next]_vars => Sound(mem')
<1> SUFFICES ASSUME Sound(mem), [Next]_vars PROVE Sound(mem')
  OBVIOUS
<1>1. CASE Stopped
  BY <1>1 DEF Stopped, vars
<1>2. CASE \E l \in Lists : OnOne(l)
  BY <1>2, OneListSteps
<1>3. CASE \E l \in Lists : \E k \in Lists \ {l} : OnTwo(l, k)
  BY <1>3, TwoListSteps
<1>4. CASE UNCHANGED vars
  BY <1>4 DEF vars
<1> QED BY <1>1, <1>2, <1>3, <1>4 DEF Next

(* The memory of the library is, at every moment, that of two lists of     *)
(* nodes linked both ways, whatever the calls: the inductive invariant.    *)
THEOREM SoundMemory == Spec => []Sound(mem)
<1>1. Sound(mem) /\ [Next]_vars => Sound(mem)'
  BY SoundStep
<1> QED BY <1>1, InitSound, PTL DEF Spec

(* After any sequence of calls a list can be walked both ways, its tail    *)
(* and its size are those of the walk, no node is in two lists, and the    *)
(* allocated nodes are those of the lists.                                 *)
THEOREM HeapStaysSound == Spec => []HeapIsSound
<1>1. Sound(mem) => HeapIsSound
  BY SoundIs DEF SoundHeap, HeapIsSound, Lives
<1> QED BY <1>1, SoundMemory, PTL
-----------------------------------------------------------------------------
(* The contracts.  In a memory that is that of c and d, each operation is  *)
(* what it is to do to the values of c and d, by what it does to c and d.  *)

(* The values of the nodes of c.                                           *)
Content(m, c) == [i \in 1..Len(c) |-> m.data[c[i]]]

(* What a contract names, without the module that states it.               *)
LEMMA ThoseIs ==
  ASSUME NEW s, NEW k
  PROVE  C!Those(s, k) = Matching(s, k)
BY DEF C!Those, C!Chosen, Matching, C!FlattenSeq, FlattenSeq

(* The parts of a sequence that the contracts take.                        *)
LEMMA ContractIs ==
  ASSUME NEW s, NEW i, NEW t, NEW v
  PROVE  /\ C!Removed(s, i) = SubSeq(s, 1, i - 1) \o SubSeq(s, i + 1, Len(s))
         /\ C!Insert(s, i, v) = SubSeq(s, 1, i) \o <<v>> \o SubSeq(s, i + 1, Len(s))
         /\ C!Splice(s, i, t) = SubSeq(s, 1, i) \o t \o SubSeq(s, i + 1, Len(s))
         /\ C!Upto(s, i) = SubSeq(s, 1, i) /\ C!After(s, i) = SubSeq(s, i + 1, Len(s))
         /\ C!Image(s) = [j \in DOMAIN s |-> Mapped[s[j]]]
BY DEF C!Removed, C!Insert, C!Splice, C!Upto, C!After, C!Image

(* The rank in a stable sort: the place after all that goes before.        *)
LEMMA RankIs ==
  ASSUME NEW s, NEW i
  PROVE  C!Rank(s, i) = Cardinality({j \in DOMAIN s : Key[s[j]] < Key[s[i]] \/ (Key[s[j]] = Key[s[i]] /\ j <= i)})
BY DEF C!Rank, C!Cardinality, Cardinality

(* What Deduplicated keeps.                                                *)
LEMMA DedupIs ==
  ASSUME NEW s
  PROVE  C!Deduplicated(s) = FlattenSeq([i \in DOMAIN s |-> IF i = 1 \/ Key[s[i]] # Key[s[i - 1]] THEN <<s[i]>> ELSE <<>>])
BY DEF C!Deduplicated, C!Chosen, C!FlattenSeq, FlattenSeq

(* The sorted sequence has at r what has the rank r.                       *)
LEMMA SortedIs ==
  ASSUME NEW s
  PROVE  C!Sorted(s) = [r \in DOMAIN s |-> s[CHOOSE i \in DOMAIN s : C!Rank(s, i) = r]]
BY DEF C!Sorted

(* The running choice of the elements of s whose place is in S.            *)
Chooses(g, s, S, V) ==
    /\ g[0] = <<>>
    /\ \A i \in 0..Len(s) : g[i] \in Seq(V)
    /\ \A i \in 1..Len(s) : g[i] = IF i \in S THEN Append(g[i - 1], s[i]) ELSE g[i - 1]

Chosen(s, S) == FlattenSeq([i \in DOMAIN s |-> IF i \in S THEN <<s[i]>> ELSE <<>>])

(* FlattenSeq makes it.                                                    *)
LEMMA ChosenIs ==
  ASSUME NEW V, NEW s \in Seq(V), NEW S
  PROVE  \E g : Chooses(g, s, S, V) /\ Chosen(s, S) = g[Len(s)]
<1> DEFINE p == [i \in DOMAIN s |-> IF i \in S THEN <<s[i]>> ELSE <<>>]
           n == Len(s)
<1>0. n \in Nat /\ DOMAIN s = 1..n /\ DOMAIN p = 1..n /\ \A i \in 1..n : s[i] \in V
  OBVIOUS
<1>1. \A i \in 1..n : /\ i \in S => p[i] = <<s[i]>>
                      /\ i \notin S => p[i] = <<>>
  BY <1>0
<1>2. \A i \in 1..n : p[i] \in Seq(V)
  <2> SUFFICES ASSUME NEW i \in 1..n PROVE p[i] \in Seq(V)
    OBVIOUS
  <2>1. <<s[i]>> \in Seq(V) /\ <<>> \in Seq(V)
    BY <1>0
  <2> QED BY <1>1, <2>1
<1>3. p \in Seq(Seq(V)) /\ Len(p) = n
  <2>1. p = [i \in 1..n |-> p[i]]
    BY <1>0
  <2> HIDE DEF p
  <2> QED BY <1>0, <1>2, <2>1
<1>4. Chosen(s, S) = FlattenSeq(p)
  BY DEF Chosen
<1> HIDE DEF p, n
<1>5. \A a \in Seq(V) : a \o <<>> = a /\ <<>> \o a = a
  OBVIOUS
<1>6. \A a \in Seq(V), v \in V : a \o <<v>> = Append(a, v) /\ Append(a, v) \in Seq(V)
  OBVIOUS
<1>7. CASE n = 0
  <2> DEFINE g == [i \in {0} |-> <<>>]
  <2>1. FlattenSeq(p) = p /\ p = <<>>
    BY <1>3, <1>7 DEF FlattenSeq
  <2>2. g[0] = <<>> /\ g[0] \in Seq(V)
    OBVIOUS
  <2> HIDE DEF g
  <2>3. Chooses(g, s, S, V)
    <3>1. Len(s) = 0 /\ \A i \in 0..0 : i = 0
      BY <1>7 DEF n
    <3>2. \A i \in 0..Len(s) : i = 0
      BY <3>1
    <3>3. ~ \E i \in 1..Len(s) : TRUE
      BY <3>1
    <3> QED BY <2>2, <3>2, <3>3 DEF Chooses
  <2> QED BY <1>4, <1>7, <2>1, <2>2, <2>3 DEF n
<1>8. CASE n # 0
  <2>1. FlattenSeq(p) = (CHOOSE f : Flattens(f, p, n))[n]
    BY <1>3, <1>8, Zenon DEF FlattenSeq, Flattens
  <2>2. \E f : Flattens(f, p, n)
    BY <1>0, <1>8, FlattensExists
  <2>3. PICK f : Flattens(f, p, n) /\ FlattenSeq(p) = f[n]
    BY <2>1, <2>2, Zenon
  <2>4. \A i \in 1..n : f[i] = IF i = 1 THEN p[i] ELSE f[i-1] \o p[i]
    BY <2>3 DEF Flattens
  <2> DEFINE g == [i \in 0..n |-> IF i = 0 THEN <<>> ELSE f[i]]
  <2>5. g[0] = <<>> /\ \A i \in 1..n : g[i] = f[i] /\ (i # 1 => g[i - 1] = f[i - 1])
    BY <1>0
  <2> HIDE DEF g
  <2>6. \A i \in 1..n : g[i - 1] \in Seq(V) => g[i] = g[i - 1] \o p[i]
    <3> SUFFICES ASSUME NEW i \in 1..n, g[i - 1] \in Seq(V) PROVE g[i] = g[i - 1] \o p[i]
      OBVIOUS
    <3>1. CASE i = 1
      <4>1. g[1] = p[1] /\ p[1] \in Seq(V) /\ g[i - 1] = <<>> /\ i = 1
        BY <1>2, <2>4, <2>5, <3>1
      <4>2. <<>> \o p[1] = p[1]
        BY <1>5, <4>1
      <4> QED BY <4>1, <4>2
    <3>2. CASE i # 1
      BY <2>4, <2>5, <3>2
    <3> QED BY <3>1, <3>2
  <2>7. \A i \in 1..n : g[i - 1] \in Seq(V) =>
            /\ g[i] = IF i \in S THEN Append(g[i - 1], s[i]) ELSE g[i - 1]
            /\ g[i] \in Seq(V)
    <3> SUFFICES ASSUME NEW i \in 1..n, g[i - 1] \in Seq(V)
                 PROVE  /\ g[i] = IF i \in S THEN Append(g[i - 1], s[i]) ELSE g[i - 1]
                        /\ g[i] \in Seq(V)
      OBVIOUS
    <3>1. CASE i \in S
      <4>1. p[i] = <<s[i]>> /\ s[i] \in V
        BY <1>0, <1>1, <3>1
      <4> QED BY <1>6, <2>6, <3>1, <4>1
    <3>2. CASE i \notin S
      BY <1>1, <1>5, <2>6, <3>2
    <3> QED BY <3>1, <3>2
  <2> DEFINE P == {i \in Nat : i <= n => g[i] \in Seq(V)}
  <2>8. \A i \in Nat : i \in P
    <3>1. 0 \in P
      <4>1. <<>> \in Seq(V)
        OBVIOUS
      <4> QED BY <2>5, <4>1
    <3>2. \A i \in Nat : i \in P => i + 1 \in P
      <4> SUFFICES ASSUME NEW i \in Nat, i \in P, i + 1 <= n PROVE g[i + 1] \in Seq(V)
        OBVIOUS
      <4>1. i + 1 \in 1..n /\ (i + 1) - 1 = i /\ i <= n
        BY <1>0
      <4>2. g[i] \in Seq(V)
        BY <4>1
      <4> QED BY <2>7, <4>1, <4>2
    <3> HIDE DEF P
    <3> QED BY <3>1, <3>2, NatInd
  <2>9. \A i \in 0..n : g[i] \in Seq(V)
    BY <1>0, <2>8
  <2>10. \A i \in 1..n : i - 1 \in 0..n
    BY <1>0
  <2>11. Chooses(g, s, S, V)
    BY <2>5, <2>7, <2>9, <2>10 DEF Chooses, n
  <2>12. g[n] = f[n]
    BY <1>0, <1>8, <2>5
  <2> QED BY <1>4, <2>3, <2>11, <2>12 DEF n
<1> QED BY <1>7, <1>8

(* The values of nodes are values.                                         *)
LEMMA ContentIs ==
  ASSUME NEW m, NEW c \in Seq(Node), \A x \in Nodes(c) : m.data[x] \in Value
  PROVE  /\ Content(m, c) \in Seq(Value) /\ Len(Content(m, c)) = Len(c) /\ Len(c) \in Nat
         /\ \A i \in 1..Len(c) : Content(m, c)[i] = m.data[c[i]]
<1>1. \A i \in 1..Len(c) : m.data[c[i]] \in Value
  BY DEF Nodes
<1>2. Len(c) \in Nat
  OBVIOUS
<1> QED BY <1>1, <1>2 DEF Content

(* The values of a concatenation.                                          *)
LEMMA ContentConcat ==
  ASSUME NEW m, NEW s \in Seq(Node), NEW t \in Seq(Node),
         \A x \in Nodes(s \o t) : m.data[x] \in Value
  PROVE  /\ Content(m, s \o t) = Content(m, s) \o Content(m, t)
         /\ Content(m, s) \in Seq(Value) /\ Content(m, t) \in Seq(Value)
<1> DEFINE u == s \o t
           a == Content(m, s)
           b == Content(m, t)
           e == Content(m, u)
<1>1. /\ u \in Seq(Node) /\ Len(u) = Len(s) + Len(t)
      /\ \A i \in 1..Len(s) : u[i] = s[i]
      /\ \A i \in 1..Len(t) : u[Len(s) + i] = t[i]
  BY ConcatIs
<1>2. Nodes(u) = Nodes(s) \cup Nodes(t)
  BY NodesConcat
<1>3. /\ a \in Seq(Value) /\ Len(a) = Len(s) /\ Len(s) \in Nat
      /\ \A i \in 1..Len(s) : a[i] = m.data[s[i]]
  BY <1>2, ContentIs
<1>4. /\ b \in Seq(Value) /\ Len(b) = Len(t) /\ Len(t) \in Nat
      /\ \A i \in 1..Len(t) : b[i] = m.data[t[i]]
  BY <1>2, ContentIs
<1> HIDE DEF u
<1>5. /\ e \in Seq(Value) /\ Len(e) = Len(u)
      /\ \A i \in 1..Len(u) : e[i] = m.data[u[i]]
  BY <1>1, ContentIs DEF u
<1> HIDE DEF a, b, e
<1>6. /\ a \o b \in Seq(Value) /\ Len(a \o b) = Len(a) + Len(b)
      /\ \A i \in 1..Len(a) : (a \o b)[i] = a[i]
      /\ \A i \in 1..Len(b) : (a \o b)[Len(a) + i] = b[i]
  <2>1. a \in Seq(Value) /\ b \in Seq(Value)
    BY <1>3, <1>4
  <2> QED BY <2>1, ConcatIs
<1>7. \A i \in 1..Len(e) : e[i] = (a \o b)[i]
  <2> SUFFICES ASSUME NEW i \in 1..Len(e) PROVE e[i] = (a \o b)[i]
    OBVIOUS
  <2>1. CASE i <= Len(s)
    <3>1. i \in 1..Len(s) /\ i \in 1..Len(u) /\ i \in 1..Len(a)
      BY <1>1, <1>3, <1>4, <1>5, <2>1
    <3>2. e[i] = m.data[u[i]] /\ u[i] = s[i]
      BY <1>1, <1>5, <3>1
    <3>3. a[i] = m.data[s[i]] /\ (a \o b)[i] = a[i]
      BY <1>3, <1>6, <3>1
    <3> QED BY <3>2, <3>3
  <2>2. CASE ~(i <= Len(s))
    <3> DEFINE j == i - Len(s)
    <3>1. j \in 1..Len(t) /\ j \in 1..Len(b) /\ i = Len(s) + j /\ i = Len(a) + j /\ i \in 1..Len(u)
      BY <1>1, <1>3, <1>4, <1>5, <2>2
    <3> HIDE DEF j
    <3>2. e[i] = m.data[u[Len(s) + j]] /\ u[Len(s) + j] = t[j] /\ b[j] = m.data[t[j]]
      BY <1>1, <1>4, <1>5, <3>1
    <3>3. (a \o b)[i] = b[j]
      BY <1>6, <3>1
    <3> QED BY <3>2, <3>3
  <2> QED BY <2>1, <2>2
<1>8. Len(e) = Len(a \o b)
  BY <1>1, <1>3, <1>4, <1>5, <1>6
<1>9. e = a \o b
  BY <1>5, <1>6, <1>7, <1>8, SeqEqual
<1> QED BY <1>3, <1>4, <1>9 DEF a, b, e, u

(* The values of one node, and of a list around a node.                    *)
LEMMA ContentGlue ==
  ASSUME NEW m, NEW s \in Seq(Node), NEW x \in Node, NEW t \in Seq(Node),
         \A z \in Nodes(Glue(s, x, t)) : m.data[z] \in Value
  PROVE  /\ Content(m, Glue(s, x, t)) = Glue(Content(m, s), m.data[x], Content(m, t))
         /\ Content(m, s) \in Seq(Value) /\ Content(m, t) \in Seq(Value) /\ m.data[x] \in Value
         /\ Len(Content(m, s)) = Len(s) /\ Len(Content(m, t)) = Len(t)
<1>1. /\ s \o <<x>> \in Seq(Node) /\ <<x>> \in Seq(Node) /\ x \in Nodes(<<x>>)
      /\ Nodes(s \o <<x>>) \subseteq Nodes(Glue(s, x, t)) /\ Nodes(s) \subseteq Nodes(Glue(s, x, t))
      /\ Nodes(t) \subseteq Nodes(Glue(s, x, t)) /\ x \in Nodes(Glue(s, x, t))
  <2>1. s \o <<x>> \in Seq(Node) /\ <<x>> \in Seq(Node) /\ Nodes(<<x>>) = {x}
    BY OneIs, GlueAround
  <2>2. Nodes(s \o <<x>>) = Nodes(s) \cup Nodes(<<x>>)
    BY <2>1, NodesConcat
  <2>3. Nodes(Glue(s, x, t)) = Nodes(s) \cup {x} \cup Nodes(t)
    BY GlueNodes
  <2> QED BY <2>1, <2>2, <2>3
<1>2. Content(m, Glue(s, x, t)) = Content(m, s \o <<x>>) \o Content(m, t)
  BY <1>1, ContentConcat DEF Glue
<1>3. Content(m, s \o <<x>>) = Content(m, s) \o Content(m, <<x>>)
  BY <1>1, ContentConcat
<1>4. Content(m, <<x>>) = <<m.data[x]>>
  <2>1. Len(<<x>>) = 1 /\ <<x>>[1] = x
    OBVIOUS
  <2>2. \A i \in 1..1 : m.data[<<x>>[i]] = m.data[x]
    BY <2>1
  <2>3. Content(m, <<x>>) = [i \in 1..1 |-> m.data[x]]
    BY <2>1, <2>2 DEF Content
  <2>4. \A v : [i \in 1..1 |-> v] = <<v>>
    OBVIOUS
  <2> QED BY <2>3, <2>4
<1>5. /\ Content(m, s) \in Seq(Value) /\ Len(Content(m, s)) = Len(s)
      /\ Content(m, t) \in Seq(Value) /\ Len(Content(m, t)) = Len(t)
  BY <1>1, ContentIs
<1>6. Content(m, Glue(s, x, t)) = Glue(Content(m, s), m.data[x], Content(m, t))
  BY <1>2, <1>3, <1>4 DEF Glue
<1> QED BY <1>1, <1>5, <1>6

(* Nodes that keep their values.                                           *)
LEMMA ContentSame ==
  ASSUME NEW m, NEW o, NEW c, \A x \in Nodes(c) : o.data[x] = m.data[x]
  PROVE  Content(o, c) = Content(m, c)
BY DEF Content, Nodes

(* The first and the last part of a concatenation.                         *)
LEMMA PartsAre ==
  ASSUME NEW V, NEW p \in Seq(V), NEW q \in Seq(V)
  PROVE  /\ SubSeq(p \o q, 1, Len(p)) = p /\ SubSeq(p \o q, Len(p) + 1, Len(p \o q)) = q
         /\ Len(p \o q) = Len(p) + Len(q) /\ p \o q \in Seq(V)
<1> DEFINE u == p \o q
           a == SubSeq(u, 1, Len(p))
           b == SubSeq(u, Len(p) + 1, Len(u))
<1>1. /\ u \in Seq(V) /\ Len(u) = Len(p) + Len(q) /\ Len(p) \in Nat /\ Len(q) \in Nat
      /\ \A i \in 1..Len(p) : u[i] = p[i]
      /\ \A i \in 1..Len(q) : u[Len(p) + i] = q[i]
  <2>1. Len(p) \in Nat /\ Len(q) \in Nat
    OBVIOUS
  <2> QED BY <2>1, ConcatIs
<1> HIDE DEF u
<1>2. a \in Seq(V) /\ Len(a) = Len(p) /\ \A i \in 1..Len(p) : a[i] = u[i]
  BY <1>1
<1>3. b \in Seq(V) /\ Len(b) = Len(q) /\ \A i \in 1..Len(q) : b[i] = u[Len(p) + i]
  BY <1>1
<1> HIDE DEF a, b
<1>4. \A i \in 1..Len(a) : a[i] = p[i]
  BY <1>1, <1>2
<1>5. \A i \in 1..Len(b) : b[i] = q[i]
  BY <1>1, <1>3
<1>6. a = p
  BY <1>2, <1>4, SeqEqual
<1>7. b = q
  BY <1>3, <1>5, SeqEqual
<1> QED BY <1>1, <1>6, <1>7 DEF a, b, u

(* The contracts of a sequence around an element.                          *)
LEMMA AroundIs ==
  ASSUME NEW V, NEW p \in Seq(V), NEW v \in V, NEW q \in Seq(V)
  PROVE  C!Removed(Glue(p, v, q), Len(p) + 1) = p \o q /\ Glue(p, v, q)[Len(p) + 1] = v
<1>1. /\ p \o <<v>> \in Seq(V) /\ <<v>> \o q \in Seq(V) /\ <<v>> \in Seq(V)
      /\ Glue(p, v, q) = p \o (<<v>> \o q) /\ Glue(p, v, q) = (p \o <<v>>) \o q
      /\ Len(p) \in Nat /\ Len(p \o <<v>>) = Len(p) + 1 /\ (p \o <<v>>)[Len(p) + 1] = v
  <2>1. p \o <<v>> \in Seq(V) /\ <<v>> \o q \in Seq(V) /\ <<v>> \in Seq(V) /\ Len(p) \in Nat
        /\ Len(p \o <<v>>) = Len(p) + 1 /\ (p \o <<v>>)[Len(p) + 1] = v
    OBVIOUS
  <2> QED BY <2>1, GlueAround DEF Glue
<1>2. SubSeq(Glue(p, v, q), 1, (Len(p) + 1) - 1) = p
  <2>1. SubSeq(p \o (<<v>> \o q), 1, Len(p)) = p /\ (Len(p) + 1) - 1 = Len(p)
    BY <1>1, PartsAre
  <2> QED BY <1>1, <2>1
<1>3. SubSeq(Glue(p, v, q), (Len(p) + 1) + 1, Len(Glue(p, v, q))) = q
  <2>1. SubSeq((p \o <<v>>) \o q, Len(p \o <<v>>) + 1, Len((p \o <<v>>) \o q)) = q
    BY <1>1, PartsAre
  <2> QED BY <1>1, <2>1
<1>5. Glue(p, v, q)[Len(p) + 1] = v
  <2>1. Len(p) + 1 \in 1..Len(p \o <<v>>)
    BY <1>1
  <2>2. ((p \o <<v>>) \o q)[Len(p) + 1] = (p \o <<v>>)[Len(p) + 1]
    BY <1>1, <2>1, ConcatIs
  <2> QED BY <1>1, <2>2
<1> QED BY <1>2, <1>3, <1>5, ContractIs

(* And of an insertion.                                                    *)
LEMMA InsertIs ==
  ASSUME NEW V, NEW p \in Seq(V), NEW q \in Seq(V), NEW w \in V
  PROVE  C!Insert(p \o q, Len(p), w) = Glue(p, w, q)
<1>1. SubSeq(p \o q, 1, Len(p)) = p /\ SubSeq(p \o q, Len(p) + 1, Len(p \o q)) = q
  BY PartsAre
<1>2. C!Insert(p \o q, Len(p), w) = SubSeq(p \o q, 1, Len(p)) \o <<w>> \o SubSeq(p \o q, Len(p) + 1, Len(p \o q))
  BY ContractIs
<1> QED BY <1>1, <1>2 DEF Glue

-----------------------------------------------------------------------------
(* The content of a list is the values of its nodes.                       *)
LEMMA ContentOfIs ==
  ASSUME NEW m, NEW l, NEW c, NEW k, NEW d, Rep(m, l, c, k, d)
  PROVE  /\ Has(m, l) => ContentOf(m, l) = Content(m, c)
         /\ ~Has(m, l) => ContentOf(m, l) = C!Absent
         /\ Content(m, c) \in Seq(Value) /\ Len(Content(m, c)) = Len(c) /\ Len(c) \in Nat
         /\ \A x \in Nodes(c) : m.data[x] \in Value
         /\ Nodes(c) \subseteq m.live /\ Nodes(d) \subseteq m.live
<1>1. /\ c \in Seq(Node) /\ m.live = Nodes(c) \cup Nodes(d)
      /\ \A x \in m.live : m.data[x] \in Value
  BY RepElim
<1>2. Has(m, l) => Values(m, l) = Content(m, c)
  BY ValuesIs DEF Content
<1> QED BY <1>1, <1>2, ContentIs DEF ContentOf, Has

(* What an operation that works on the nodes of one list leaves.           *)
LEMMA OnlyIs ==
  ASSUME NEW l, NEW c, NEW k, NEW d, Rep(mem, l, c, k, d), NEW o, NEW e, Rep(o, l, e, k, d),
         Keeps(mem, o, l, k)
  PROVE  Only(o, l, Content(o, e)) /\ \A x \in Nodes(e) \cap mem.live : o.data[x] = mem.data[x]
<1>1. l \in Lists /\ k \in Lists /\ l # k /\ Rep(mem, k, d, l, c) /\ Rep(o, k, d, l, e)
  BY RepElim, RepSwap
<1>2. Has(o, l) /\ (Has(o, k) <=> Has(mem, k))
  BY DEF Keeps, Has
<1>3. ContentOf(o, l) = Content(o, e)
  BY <1>2, ContentOfIs
<1>4. \A x \in o.live \cap mem.live : o.data[x] = mem.data[x]
  BY DEF Keeps
<1>5. Nodes(d) \subseteq o.live /\ Nodes(d) \subseteq mem.live /\ Nodes(e) \subseteq o.live
  BY ContentOfIs
<1>6. Content(o, d) = Content(mem, d)
  BY <1>4, <1>5, ContentSame
<1>7. ContentOf(o, k) = ContentOf(mem, k)
  BY <1>1, <1>2, <1>6, ContentOfIs
<1>8. \A x \in Lists : x = l \/ x = k
  BY <1>1 DEF Lists
<1>9. Only(o, l, Content(o, e))
  BY <1>1, <1>3, <1>7, <1>8 DEF Only, Was
<1> QED BY <1>4, <1>5, <1>9

(* A removal.                                                              *)
LEMMA RemovedIs ==
  ASSUME NEW l, NEW s \in Seq(Node), NEW x \in Node, NEW t \in Seq(Node), NEW k, NEW d,
         Rep(mem, l, Glue(s, x, t), k, d), Has(mem, l), NEW o, Removes(mem, o, l, s, x, t)
  PROVE  /\ Only(o, l, C!Removed(Was(l), Len(s) + 1)) /\ Len(Was(l)) = (Len(s) + 1) + Len(t)
         /\ Place(l, x) = Len(s) + 1
<1> DEFINE g == Glue(s, x, t)
<1>1. Rep(o, l, s \o t, k, d) /\ Keeps(mem, o, l, k)
  BY Unlinked
<1>2. Was(l) = Content(mem, g) /\ Len(Was(l)) = Len(g) /\ \A z \in Nodes(g) : mem.data[z] \in Value
  BY ContentOfIs DEF Was
<1>3. /\ Was(l) = Glue(Content(mem, s), mem.data[x], Content(mem, t))
      /\ Content(mem, s) \in Seq(Value) /\ Content(mem, t) \in Seq(Value) /\ mem.data[x] \in Value
      /\ Len(Content(mem, s)) = Len(s)
  BY <1>2, ContentGlue
<1>4. C!Removed(Was(l), Len(s) + 1) = Content(mem, s) \o Content(mem, t)
  <2>1. \A p, q \in Seq(Value), v \in Value : C!Removed(Glue(p, v, q), Len(p) + 1) = p \o q
    BY AroundIs
  <2> QED BY <1>3, <2>1
<1>5. Only(o, l, Content(o, s \o t)) /\ \A z \in Nodes(s \o t) \cap mem.live : o.data[z] = mem.data[z]
  BY <1>1, OnlyIs
<1>6. Nodes(s \o t) \subseteq Nodes(g) /\ Nodes(g) \subseteq mem.live /\ s \o t \in Seq(Node)
  <2>1. Nodes(s \o t) = Nodes(s) \cup Nodes(t)
    BY NodesConcat
  <2>3. Nodes(g) = Nodes(s) \cup {x} \cup Nodes(t)
    BY GlueNodes
  <2>2. Nodes(g) \subseteq mem.live /\ s \o t \in Seq(Node)
    BY ContentOfIs
  <2> QED BY <2>1, <2>2, <2>3
<1>7. Content(o, s \o t) = Content(mem, s \o t)
  BY <1>5, <1>6, ContentSame
<1>8. Content(mem, s \o t) = Content(mem, s) \o Content(mem, t)
  BY <1>2, <1>6, ContentConcat
<1>9. g \in Seq(Node) /\ Len(g) = (Len(s) + 1) + Len(t) /\ g[Len(s) + 1] = x
  BY GlueNodes, AroundIs
<1>10. Distinct(g) /\ Chain(mem, l) = g
  BY RepElim, ValuesIs
<1>11. Place(l, x) = Len(s) + 1
  <2>1. Len(s) \in Nat /\ Len(t) \in Nat
    OBVIOUS
  <2>2. Len(s) + 1 \in 1..Len(g)
    BY <1>9, <2>1
  <2> HIDE DEF g
  <2>3. At(g, g[Len(s) + 1]) = Len(s) + 1
    BY <1>9, <1>10, <2>2, AtIs
  <2> QED BY <1>9, <1>10, <2>3 DEF Place, At
<1> QED BY <1>2, <1>4, <1>5, <1>7, <1>8, <1>9, <1>11

(* An insertion.                                                           *)
LEMMA InsertedIs ==
  ASSUME NEW l, NEW s \in Seq(Node), NEW t \in Seq(Node), NEW k, NEW d,
         Rep(mem, l, s \o t, k, d), Has(mem, l), NEW n, Fresh(mem, n), NEW v \in Value,
         NEW o, Inserts(mem, o, l, s, n, t, v)
  PROVE  Only(o, l, C!Insert(Was(l), Len(s), v))
<1> DEFINE g == Glue(s, n, t)
<1>0. n \in Node /\ n \notin mem.live
  BY DEF Fresh
<1>1. Rep(o, l, g, k, d) /\ Keeps(mem, o, l, k) /\ o.data[n] = v
  BY Inserted DEF Gives
<1>2. Was(l) = Content(mem, s \o t) /\ \A z \in Nodes(s \o t) : mem.data[z] \in Value
  BY ContentOfIs DEF Was
<1>3. /\ Was(l) = Content(mem, s) \o Content(mem, t)
      /\ Content(mem, s) \in Seq(Value) /\ Content(mem, t) \in Seq(Value)
  BY <1>2, ContentConcat
<1>4. Nodes(s) \cup Nodes(t) \subseteq mem.live /\ Nodes(s) \cup Nodes(t) \subseteq Nodes(g)
  <2>1. Nodes(s \o t) = Nodes(s) \cup Nodes(t)
    BY NodesConcat
  <2>2. Nodes(g) = Nodes(s) \cup {n} \cup Nodes(t)
    BY <1>0, GlueNodes
  <2>3. Nodes(s \o t) \subseteq mem.live
    BY ContentOfIs
  <2> QED BY <2>1, <2>2, <2>3
<1>5. Only(o, l, Content(o, g)) /\ \A z \in Nodes(g) \cap mem.live : o.data[z] = mem.data[z]
  BY <1>1, OnlyIs
<1>6. \A z \in Nodes(g) : o.data[z] \in Value
  BY <1>1, ContentOfIs
<1>7. /\ Content(o, g) = Glue(Content(o, s), o.data[n], Content(o, t))
      /\ Len(Content(o, s)) = Len(s)
  BY <1>0, <1>6, ContentGlue
<1>8. Content(o, s) = Content(mem, s) /\ Content(o, t) = Content(mem, t)
  BY <1>4, <1>5, ContentSame
<1>9. Content(o, g) = C!Insert(Was(l), Len(s), v)
  BY <1>1, <1>3, <1>7, <1>8, InsertIs
<1> QED BY <1>5, <1>9

(* clear and destroy.                                                      *)
LEMMA ClearsIs ==
  ASSUME NEW l, NEW c, NEW k, NEW d, Rep(mem, l, c, k, d), Has(mem, l)
  PROVE  Only(clear(mem, l), l, <<>>) /\ Only(destroy(mem, l), l, C!Absent)
<1> DEFINE o == clear(mem, l)
           w == destroy(mem, l)
           z == <<>>
<1>1. Rep(o, l, z, k, d) /\ Keeps(mem, o, l, k)
  BY ClearIs
<1>2. Content(o, z) = <<>>
  <2>1. Len(z) = 0 /\ 1..0 = {}
    OBVIOUS
  <2> QED BY <2>1 DEF Content
<1>3. /\ Rep(w, l, z, k, d) /\ ~Has(w, l) /\ w.list[k] = mem.list[k]
      /\ \A x \in w.live \cap mem.live : w.data[x] = mem.data[x]
  BY DestroyIs DEF SameData
<1> HIDE DEF o, w, z
<1>4. Only(o, l, <<>>)
  BY <1>1, <1>2, OnlyIs
<1>5. l \in Lists /\ k \in Lists /\ l # k /\ Rep(mem, k, d, l, c) /\ Rep(w, k, d, l, z)
  BY <1>3, RepElim, RepSwap
<1>6. ContentOf(w, l) = C!Absent
  BY <1>3, ContentOfIs
<1>7. Nodes(d) \subseteq mem.live /\ Nodes(d) \subseteq w.live
  BY <1>3, ContentOfIs
<1>8. Content(w, d) = Content(mem, d)
  BY <1>3, <1>7, ContentSame
<1>9. ContentOf(w, k) = ContentOf(mem, k)
  BY <1>3, <1>5, <1>8, ContentOfIs DEF Has
<1>10. \A x \in Lists : x = l \/ x = k
  BY <1>5 DEF Lists
<1>11. Only(w, l, C!Absent)
  BY <1>5, <1>6, <1>9, <1>10 DEF Only, Was
<1> QED BY <1>4, <1>11 DEF o, w

(* What does nothing.                                                      *)
LEMMA SameIs ==
  ASSUME NEW l
  PROVE  Only(mem, l, Was(l))
BY DEF Only, Was

(* reverse.                                                                *)
LEMMA ReversesIs ==
  ASSUME NEW l, NEW c, NEW k, NEW d, Rep(mem, l, c, k, d), Has(mem, l)
  PROVE  Only(reverse(mem, l), l, Reverse(Was(l)))
<1> DEFINE o == reverse(mem, l)
           r == Reverse(c)
           s == Content(mem, c)
<1>0. c \in Seq(Node)
  BY RepElim
<1>1. Rep(o, l, r, k, d) /\ Keeps(mem, o, l, k)
  BY ReverseOpIs
<1>2. /\ r \in Seq(Node) /\ Len(r) = Len(c) /\ Nodes(r) = Nodes(c)
      /\ \A i \in 1..Len(c) : r[i] = c[Len(c) - i + 1]
  BY <1>0, ReverseIs
<1>3. Was(l) = s /\ s \in Seq(Value) /\ Len(s) = Len(c) /\ Len(c) \in Nat /\ Nodes(c) \subseteq mem.live
  BY ContentOfIs DEF Was
<1>4. \A i \in 1..Len(c) : s[i] = mem.data[c[i]]
  BY DEF Content
<1>5. /\ Reverse(s) \in Seq(Value) /\ Len(Reverse(s)) = Len(s)
      /\ \A i \in 1..Len(s) : Reverse(s)[i] = s[Len(s) - i + 1]
  BY <1>3, ReverseIs
<1> HIDE DEF r, s, o
<1>6. Only(o, l, Content(o, r)) /\ \A x \in Nodes(r) \cap mem.live : o.data[x] = mem.data[x]
  BY <1>1, OnlyIs
<1>7. Content(o, r) = Content(mem, r)
  BY <1>2, <1>3, <1>6, ContentSame
<1>8. /\ Content(mem, r) = [i \in 1..Len(r) |-> mem.data[r[i]]]
  BY DEF Content
<1>9. \A i \in 1..Len(c) : mem.data[r[i]] = Reverse(s)[i]
  <2> SUFFICES ASSUME NEW i \in 1..Len(c) PROVE mem.data[r[i]] = Reverse(s)[i]
    OBVIOUS
  <2>1. Len(c) - i + 1 \in 1..Len(c)
    BY <1>3
  <2> QED BY <1>2, <1>3, <1>4, <1>5, <2>1
<1>10. Reverse(s) = [i \in 1..Len(c) |-> Reverse(s)[i]]
  BY <1>3, <1>5
<1>11. Content(mem, r) = Reverse(s)
  BY <1>2, <1>8, <1>9, <1>10
<1> QED BY <1>3, <1>6, <1>7, <1>11 DEF o

(* pop_front and pop_back, on an empty list too.                           *)
LEMMA PopsIs ==
  ASSUME NEW l, NEW c, NEW k, NEW d, Rep(mem, l, c, k, d), Has(mem, l)
  PROVE  /\ Only(pop_front(mem, l), l, C!Removed(Was(l), 1))
         /\ Only(pop_back(mem, l), l, C!Removed(Was(l), Len(Was(l))))
<1>1. c \in Seq(Node) /\ Holds(mem, l, c) /\ mem.list[l].exists
  BY DEF Rep, Has
<1> DEFINE z == <<>>
<1>0. z \in Seq(Node) /\ Len(z) = 0
  OBVIOUS
<1>2. CASE c = <<>>
  <2>1. mem.list[l].head = FirstOf(c, NULL) /\ mem.list[l].tail = LastOf(c, NULL)
    BY <1>1, LivesIs
  <2>2. mem.list[l].head = NULL /\ mem.list[l].tail = NULL
    BY <1>2, <2>1, EmptyIs
  <2>3. pop_front(mem, l) = mem /\ pop_back(mem, l) = mem
    BY <2>2 DEF pop_front, pop_back
  <2>4. Was(l) = <<>> /\ Len(Was(l)) = 0
    <3>1. Was(l) = Content(mem, c) /\ Len(c) = 0
      BY <1>2, ContentOfIs DEF Was
    <3>2. 1..0 = {}
      OBVIOUS
    <3>3. Content(mem, c) = <<>>
      BY <3>1, <3>2 DEF Content
    <3> QED BY <3>1, <3>3
  <2>5. C!Removed(<<>>, 0) = <<>> /\ C!Removed(<<>>, 1) = <<>>
    <3>1. \A i : C!Removed(<<>>, i) = SubSeq(<<>>, 1, i - 1) \o SubSeq(<<>>, i + 1, Len(<<>>))
      BY ContractIs
    <3>2. SubSeq(<<>>, 1, 0 - 1) \o SubSeq(<<>>, 0 + 1, Len(<<>>)) = <<>>
      OBVIOUS
    <3>3. SubSeq(<<>>, 1, 1 - 1) \o SubSeq(<<>>, 1 + 1, Len(<<>>)) = <<>>
      OBVIOUS
    <3> QED BY <3>1, <3>2, <3>3
  <2> QED BY <2>3, <2>4, <2>5, SameIs
<1>3. CASE c # <<>>
  <2>1. PICK x \in Node, t \in Seq(Node) : c = Glue(<<>>, x, t)
    BY <1>1, <1>3, EndsCut
  <2>2. PICK y \in Node, s \in Seq(Node) : c = Glue(s, y, <<>>)
    BY <1>1, <1>3, EndsCut
  <2>4. Rep(mem, l, Glue(<<>>, x, t), k, d)
    BY <2>1
  <2>5. Removes(mem, pop_front(mem, l), l, <<>>, x, t)
    BY <2>4, PopFrontMade
  <2>6. Rep(mem, l, Glue(s, y, <<>>), k, d)
    BY <2>2
  <2>7. Removes(mem, pop_back(mem, l), l, s, y, <<>>)
    BY <2>6, PopBackMade
  <2>8. /\ Rep(mem, l, Glue(z, x, t), k, d) /\ Removes(mem, pop_front(mem, l), l, z, x, t)
        /\ Rep(mem, l, Glue(s, y, z), k, d) /\ Removes(mem, pop_back(mem, l), l, s, y, z)
    BY <2>4, <2>5, <2>6, <2>7
  <2> HIDE DEF z
  <2>9. Only(pop_front(mem, l), l, C!Removed(Was(l), Len(z) + 1))
    BY <1>0, <2>8, RemovedIs
  <2>10. Only(pop_back(mem, l), l, C!Removed(Was(l), Len(s) + 1)) /\ Len(Was(l)) = (Len(s) + 1) + Len(z)
    BY <1>0, <2>8, RemovedIs
  <2>11. Len(z) + 1 = 1 /\ (Len(s) + 1) + Len(z) = Len(s) + 1
    BY <1>0
  <2> QED BY <2>9, <2>10, <2>11
<1> QED BY <1>2, <1>3

(* erase and extract, of any node.                                         *)
LEMMA ErasesIs ==
  ASSUME NEW l, NEW c, NEW k, NEW d, Rep(mem, l, c, k, d), Has(mem, l), NEW x
  PROVE  LET s == IF IsIn(mem, l, x) THEN C!Removed(Was(l), Place(l, x)) ELSE Was(l)
         IN  Only(erase(mem, l, x), l, s) /\ Only(extract(mem, l, x), l, s)
<1>1. c \in Seq(Node) /\ (IsIn(mem, l, x) <=> x \in Nodes(c))
  BY RepElim, IsInIs
<1>2. CASE x \in Nodes(c)
  <2>1. PICK s \in Seq(Node), t \in Seq(Node) : c = Glue(s, x, t) /\ x \in Node
    BY <1>1, <1>2, CutAtNode
  <2>2. Rep(mem, l, Glue(s, x, t), k, d) /\ x \in Node
    BY <2>1
  <2>3. Removes(mem, extract(mem, l, x), l, s, x, t) /\ Removes(mem, erase(mem, l, x), l, s, x, t)
    BY <2>2, ExtractMade, EraseMade
  <2>4. /\ Only(extract(mem, l, x), l, C!Removed(Was(l), Len(s) + 1)) /\ Place(l, x) = Len(s) + 1
        /\ Only(erase(mem, l, x), l, C!Removed(Was(l), Len(s) + 1))
    BY <2>2, <2>3, RemovedIs
  <2> QED BY <1>1, <1>2, <2>4
<1>3. CASE x \notin Nodes(c)
  <2>1. ~IsIn(mem, l, x)
    BY <1>1, <1>3
  <2>2. extract(mem, l, x) = mem /\ erase(mem, l, x) = mem
    BY <2>1 DEF extract, erase
  <2> QED BY <2>1, <2>2, SameIs
<1> QED BY <1>2, <1>3

(* A new node at an end, or next to a node.                                *)
LEMMA PushesIs ==
  ASSUME NEW l, NEW c, NEW k, NEW d, Rep(mem, l, c, k, d), Has(mem, l), Free(mem) # {}, NEW v \in Value
  PROVE  /\ Only(push_front(mem, l, v), l, C!Insert(Was(l), 0, v))
         /\ Only(push_back(mem, l, v), l, C!Insert(Was(l), Len(Was(l)), v))
         /\ \A x \in Nodes(c) :
                /\ Only(insert_before(mem, l, x, v), l, C!Insert(Was(l), Place(l, x) - 1, v))
                /\ Only(insert_after(mem, l, x, v), l, C!Insert(Was(l), Place(l, x), v))
<1> DEFINE n == New(mem)
           z == <<>>
<1>1. c \in Seq(Node) /\ Fresh(mem, n) /\ Len(Was(l)) = Len(c)
  BY RepElim, NewIs, ContentOfIs DEF Fresh, Was
<1>2. z \in Seq(Node) /\ z \o c = c /\ c \o z = c /\ Len(z) = 0
  BY <1>1
<1>3. Inserts(mem, push_front(mem, l, v), l, z, n, c, v)
  BY PushFrontMade
<1>4. Inserts(mem, push_back(mem, l, v), l, c, n, z, v)
  BY PushBackMade
<1> HIDE DEF n, z
<1>5. Rep(mem, l, z \o c, k, d) /\ Rep(mem, l, c \o z, k, d)
  BY <1>2
<1>6. Only(push_front(mem, l, v), l, C!Insert(Was(l), 0, v))
  <2>1. Only(push_front(mem, l, v), l, C!Insert(Was(l), Len(z), v))
    BY <1>1, <1>2, <1>3, <1>5, InsertedIs
  <2> QED BY <1>2, <2>1
<1>7. Only(push_back(mem, l, v), l, C!Insert(Was(l), Len(Was(l)), v))
  <2>1. Only(push_back(mem, l, v), l, C!Insert(Was(l), Len(c), v))
    BY <1>1, <1>2, <1>4, <1>5, InsertedIs
  <2> QED BY <1>1, <2>1
<1>8. ASSUME NEW x \in Nodes(c)
      PROVE  /\ Only(insert_before(mem, l, x, v), l, C!Insert(Was(l), Place(l, x) - 1, v))
             /\ Only(insert_after(mem, l, x, v), l, C!Insert(Was(l), Place(l, x), v))
  <2>1. PICK s \in Seq(Node), t \in Seq(Node) : c = Glue(s, x, t) /\ x \in Node
    BY <1>1, CutAtNode
  <2>2. Rep(mem, l, Glue(s, x, t), k, d) /\ x \in Node
    BY <2>1
  <2> DEFINE a == s \o <<x>>
             b == <<x>> \o t
  <2>3. Inserts(mem, insert_before(mem, l, x, v), l, s, n, b, v)
    BY <2>2, InsertBeforeMade DEF n
  <2>4. Inserts(mem, insert_after(mem, l, x, v), l, a, n, t, v)
    BY <2>2, InsertAfterMade DEF n
  <2>5. a \in Seq(Node) /\ b \in Seq(Node) /\ s \o b = c /\ a \o t = c /\ Len(a) = Len(s) + 1
    <3>1. a \in Seq(Node) /\ b \in Seq(Node) /\ Len(a) = Len(s) + 1
      BY <2>2
    <3>2. a \o t = Glue(s, x, t)
      BY DEF Glue
    <3>3. s \o b = Glue(s, x, t)
      BY <2>2 DEF Glue
    <3> QED BY <2>1, <3>1, <3>2, <3>3
  <2> HIDE DEF a, b
  <2>6. Rep(mem, l, s \o b, k, d) /\ Rep(mem, l, a \o t, k, d)
    BY <2>5
  <2>7. Only(insert_before(mem, l, x, v), l, C!Insert(Was(l), Len(s), v))
    BY <1>1, <2>3, <2>5, <2>6, InsertedIs
  <2>8. Only(insert_after(mem, l, x, v), l, C!Insert(Was(l), Len(s) + 1, v))
    <3>1. Only(insert_after(mem, l, x, v), l, C!Insert(Was(l), Len(a), v))
      BY <1>1, <2>4, <2>5, <2>6, InsertedIs
    <3> QED BY <2>5, <3>1
  <2>9. Removes(mem, extract(mem, l, x), l, s, x, t)
    BY <2>2, ExtractMade
  <2>10. Place(l, x) = Len(s) + 1
    BY <2>2, <2>9, RemovedIs
  <2>11. (Len(s) + 1) - 1 = Len(s)
    OBVIOUS
  <2> QED BY <2>7, <2>8, <2>10, <2>11
<1> QED BY <1>6, <1>7, <1>8

(* The content of two lists over the same nodes.                           *)
LEMMA BothIs ==
  ASSUME NEW l, NEW c, NEW k, NEW d, Rep(mem, l, c, k, d), NEW o, NEW e, NEW f,
         Rep(o, l, e, k, f), Has(o, l), Has(o, k), o.live = mem.live, SameData(mem, o)
  PROVE  Both(o, l, Content(mem, e), k, Content(mem, f))
<1>1. Rep(o, k, f, l, e)
  BY RepSwap
<1>2. Nodes(e) \subseteq o.live /\ Nodes(f) \subseteq o.live
  BY ContentOfIs
<1>3. Content(o, e) = Content(mem, e) /\ Content(o, f) = Content(mem, f)
  BY <1>2, ContentSame DEF SameData
<1>4. ContentOf(o, l) = Content(o, e) /\ ContentOf(o, k) = Content(o, f)
  BY <1>1, ContentOfIs
<1> QED BY <1>3, <1>4 DEF Both

(* No nodes, no values.                                                    *)
LEMMA NoContent == \A m : Content(m, <<>>) = <<>>
<1>1. Len(<<>>) = 0 /\ 1..0 = {}
  OBVIOUS
<1> QED BY <1>1 DEF Content

(* concat.                                                                 *)
LEMMA ConcatenatesIs ==
  ASSUME NEW l, NEW c, NEW k, NEW d, Rep(mem, l, c, k, d), Has(mem, l), Has(mem, k)
  PROVE  /\ SamePolicy(mem, l, k) => Both(concat(mem, l, k), l, Was(l) \o Was(k), k, <<>>)
         /\ ~SamePolicy(mem, l, k) => Both(concat(mem, l, k), l, Was(l), k, Was(k))
<1>1. /\ c \in Seq(Node) /\ d \in Seq(Node) /\ mem.live = Nodes(c) \cup Nodes(d)
      /\ \A x \in mem.live : mem.data[x] \in Value
  BY RepElim
<1>2. Was(l) = Content(mem, c) /\ Was(k) = Content(mem, d)
  BY RepSwap, ContentOfIs DEF Was
<1>3. CASE SamePolicy(mem, l, k)
  <2> DEFINE o == concat(mem, l, k)
             z == <<>>
  <2>1. Rep(o, l, c \o d, k, z) /\ SameLists(mem, o, l, k)
    BY <1>3, ConcatOpIs
  <2> HIDE DEF o, z
  <2>2. Both(o, l, Content(mem, c \o d), k, Content(mem, z))
    BY <2>1, BothIs DEF SameLists
  <2>3. \A x \in Nodes(c \o d) : mem.data[x] \in Value
    BY <1>1, NodesConcat
  <2>4. Content(mem, c \o d) = Content(mem, c) \o Content(mem, d)
    BY <1>1, <2>3, ContentConcat
  <2> QED BY <1>2, <1>3, <2>2, <2>4, NoContent DEF o, z
<1>4. CASE ~SamePolicy(mem, l, k)
  <2>1. concat(mem, l, k) = mem
    BY <1>4 DEF concat
  <2> QED BY <1>4, <2>1 DEF Both, Was
<1> QED BY <1>3, <1>4

(* splice before a node.                                                   *)
LEMMA SplicesIs ==
  ASSUME NEW l, NEW c, NEW k, NEW d, Rep(mem, l, c, k, d), Has(mem, l), Has(mem, k),
         SamePolicy(mem, l, k), NEW x \in Nodes(c)
  PROVE  Both(splice_before(mem, l, x, k), l, C!Splice(Was(l), Place(l, x) - 1, Was(k)), k, <<>>)
<1>1. /\ c \in Seq(Node) /\ d \in Seq(Node) /\ mem.live = Nodes(c) \cup Nodes(d)
      /\ \A z \in mem.live : mem.data[z] \in Value
  BY RepElim
<1>2. Rep(mem, k, d, l, c)
  BY RepSwap
<1>3. Was(l) = Content(mem, c) /\ Was(k) = Content(mem, d) /\ Content(mem, d) \in Seq(Value)
  BY <1>2, ContentOfIs DEF Was
<1>4. PICK s \in Seq(Node), t \in Seq(Node) : c = Glue(s, x, t) /\ x \in Node
  BY <1>1, CutAtNode
<1>5. Rep(mem, l, Glue(s, x, t), k, d) /\ x \in Node
  BY <1>4
<1> DEFINE b == <<x>> \o t
           o == splice_before(mem, l, x, k)
           z == <<>>
<1>6. b \in Seq(Node) /\ s \o b = c
  <2>1. b \in Seq(Node)
    BY <1>5
  <2>2. s \o b = Glue(s, x, t)
    BY <1>5 DEF Glue
  <2> QED BY <1>4, <2>1, <2>2
<1>7. Place(l, x) - 1 = Len(s)
  <2>1. Removes(mem, extract(mem, l, x), l, s, x, t)
    BY <1>5, ExtractMade
  <2>2. Place(l, x) = Len(s) + 1
    BY <1>5, <2>1, RemovedIs
  <2> QED BY <2>2
<1>8. /\ Content(mem, c) = Content(mem, s) \o Content(mem, b)
      /\ Content(mem, s) \in Seq(Value) /\ Content(mem, b) \in Seq(Value)
  BY <1>1, <1>6, ContentConcat
<1>9. Nodes(c) = Nodes(s) \cup Nodes(b)
  <2> HIDE DEF b
  <2>1. Nodes(s \o b) = Nodes(s) \cup Nodes(b)
    BY <1>6, NodesConcat
  <2> QED BY <1>6, <2>1
<1>10. Len(Content(mem, s)) = Len(s)
  BY <1>1, <1>9, ContentIs
<1>11. C!Splice(Was(l), Place(l, x) - 1, Was(k))
          = (Content(mem, s) \o Content(mem, d)) \o Content(mem, b)
  <2>1. ASSUME NEW p \in Seq(Value), NEW q \in Seq(Value), NEW u \in Seq(Value)
        PROVE  C!Splice(p \o q, Len(p), u) = (p \o u) \o q
    <3>1. SubSeq(p \o q, 1, Len(p)) = p /\ SubSeq(p \o q, Len(p) + 1, Len(p \o q)) = q
      BY PartsAre
    <3> QED BY <3>1, ContractIs
  <2> HIDE DEF b
  <2>2. C!Splice(Content(mem, s) \o Content(mem, b), Len(Content(mem, s)), Content(mem, d))
            = (Content(mem, s) \o Content(mem, d)) \o Content(mem, b)
    BY <1>3, <1>8, <2>1
  <2> QED BY <1>3, <1>7, <1>8, <1>10, <2>2
<1>12. CASE d # <<>>
  <2>1. Rep(o, l, (s \o d) \o b, k, z) /\ SameLists(mem, o, l, k)
    BY <1>5, <1>12, SpliceMade
  <2> HIDE DEF o, z, b
  <2>2. Both(o, l, Content(mem, (s \o d) \o b), k, Content(mem, z))
    BY <2>1, BothIs DEF SameLists
  <2>3. s \o d \in Seq(Node) /\ (s \o d) \o b \in Seq(Node)
    BY <1>1, <1>6, ConcatIs
  <2>4. Nodes(s \o d) = Nodes(s) \cup Nodes(d)
    BY <1>1, NodesConcat
  <2>5. Nodes((s \o d) \o b) = Nodes(s \o d) \cup Nodes(b)
    BY <1>6, <2>3, NodesConcat
  <2>6. /\ \A y \in Nodes((s \o d) \o b) : mem.data[y] \in Value
        /\ \A y \in Nodes(s \o d) : mem.data[y] \in Value
    BY <1>1, <1>9, <2>4, <2>5
  <2>7. Content(mem, (s \o d) \o b) = Content(mem, s \o d) \o Content(mem, b)
    BY <1>6, <2>3, <2>6, ContentConcat
  <2>8. Content(mem, s \o d) = Content(mem, s) \o Content(mem, d)
    BY <1>1, <2>6, ContentConcat
  <2> QED BY <1>11, <2>2, <2>7, <2>8, NoContent DEF o, z
<1>13. CASE d = <<>>
  <2>1. mem.list[k].size = 0
    BY <1>2, <1>13, SizeIs
  <2>2. x # NULL
    BY <1>5, NullIsNoNode
  <2>3. o = mem
    BY <2>1, <2>2 DEF splice_before
  <2>4. Content(mem, d) = <<>>
    BY <1>13, NoContent
  <2>5. Content(mem, s) \o <<>> = Content(mem, s)
    BY <1>8
  <2>6. C!Splice(Was(l), Place(l, x) - 1, Was(k)) = Was(l)
    BY <1>3, <1>8, <1>11, <2>4, <2>5
  <2> QED BY <1>3, <2>3, <2>4, <2>6 DEF Both, Was
<1> QED BY <1>12, <1>13

(* No place in the list.                                                   *)
LEMMA AtNowhere ==
  ASSUME NEW s, NEW x, x \notin Nodes(s)
  PROVE  At(s, x) = 0
<1>1. {i \in 1..Len(s) : s[i] = x} = {}
  BY DEF Nodes
<1> QED BY <1>1 DEF At, SelectInSeq

(* split, where it returns.                                                *)
LEMMA SplitsIs ==
  ASSUME NEW l, NEW c, NEW k, NEW d, Rep(mem, l, c, k, d), Has(mem, l), ~Has(mem, k),
         NEW x \in Nodes(c) \cup {NULL}, ~split_crashes(mem, l, x)
  PROVE  Both(split_after(mem, l, x, k), l, C!Upto(Was(l), Place(l, x)), k, C!After(Was(l), Place(l, x)))
<1> DEFINE z == <<>>
           o == split_after(mem, l, x, k)
<1>1. /\ c \in Seq(Node) /\ l \in Lists /\ k \in Lists /\ Rep(mem, k, d, l, c)
      /\ Chain(mem, l) = c /\ mem.list[l].copy \in BOOLEAN
  BY RepElim, RepSwap, ValuesIs
<1>2. Was(l) = Content(mem, c) /\ Was(l) \in Seq(Value) /\ Len(Was(l)) = Len(c)
  BY ContentOfIs DEF Was
<1>3. CASE x = NULL
  <2>1. Place(l, x) = 0
    <3>1. NULL \notin Nodes(c)
      BY <1>1, NodesIn, NullIsNoNode
    <3>2. At(c, x) = 0
      BY <1>3, <3>1, AtNowhere
    <3>3. Place(l, x) = At(Chain(mem, l), x)
      BY DEF Place, At
    <3> QED BY <1>1, <3>2, <3>3
  <2>2. Rep(o, l, z, k, c) /\ SameData(mem, o) /\ o.live = mem.live /\ Has(o, l) /\ Has(o, k)
    BY <1>3, SplitAllIs
  <2> HIDE DEF o, z
  <2>3. Both(o, l, Content(mem, z), k, Content(mem, c))
    BY <2>2, BothIs
  <2>4. C!Upto(Was(l), 0) = <<>> /\ C!After(Was(l), 0) = Was(l)
    <3>1. <<>> \o Was(l) = Was(l) /\ <<>> \in Seq(Value) /\ Len(<<>>) = 0
      BY <1>2
    <3>2. /\ SubSeq(<<>> \o Was(l), 1, Len(<<>>)) = <<>>
          /\ SubSeq(<<>> \o Was(l), Len(<<>>) + 1, Len(<<>> \o Was(l))) = Was(l)
      BY <1>2, <3>1, PartsAre
    <3> QED BY <3>1, <3>2, ContractIs
  <2> QED BY <1>2, <2>1, <2>3, <2>4, NoContent DEF o, z
<1>4. CASE x # NULL
  <2>1. PICK s \in Seq(Node), t \in Seq(Node) : c = Glue(s, x, t) /\ x \in Node
    BY <1>1, <1>4, CutAtNode
  <2>2. Rep(mem, l, Glue(s, x, t), k, d) /\ x \in Node
    BY <2>1
  <2>3. IsIn(mem, l, x)
    BY <1>4, IsInIs
  <2>4. t = <<>>
    <3>1. Around(mem, l, s, x, t)
      BY <2>2, PosFacts
    <3>2. mem.next[x] = NULL
      BY <1>4, <2>3 DEF split_crashes
    <3> QED BY <3>1, <3>2 DEF Around
  <2>5. Place(l, x) = Len(c)
    <3>1. Removes(mem, extract(mem, l, x), l, s, x, t)
      BY <2>2, ExtractMade
    <3>2. Place(l, x) = Len(s) + 1
      BY <2>2, <3>1, RemovedIs
    <3>3. Len(c) = (Len(s) + 1) + Len(t)
      BY <2>1, GlueNodes
    <3>4. Len(t) = 0 /\ Len(s) \in Nat
      BY <2>4
    <3> QED BY <3>2, <3>3, <3>4
  <2>6. o = [mem EXCEPT !.list[k] = EmptyList(mem.list[l].copy)]
    BY <1>4, <2>3 DEF split_after
  <2>7. Rep(o, k, z, l, c) /\ SameData(mem, o) /\ o.list[l] = mem.list[l] /\ o.live = mem.live /\ Has(o, k)
    BY <1>1, <2>6, Opened
  <2> HIDE DEF o, z
  <2>8. Rep(o, l, c, k, z) /\ Has(o, l)
    BY <2>7, RepSwap DEF Has
  <2>9. Both(o, l, Content(mem, c), k, Content(mem, z))
    BY <2>7, <2>8, BothIs
  <2>10. C!Upto(Was(l), Len(Was(l))) = Was(l) /\ C!After(Was(l), Len(Was(l))) = <<>>
    <3>1. Was(l) \o <<>> = Was(l) /\ <<>> \in Seq(Value)
      BY <1>2
    <3>2. /\ SubSeq(Was(l) \o <<>>, 1, Len(Was(l))) = Was(l)
          /\ SubSeq(Was(l) \o <<>>, Len(Was(l)) + 1, Len(Was(l) \o <<>>)) = <<>>
      BY <1>2, <3>1, PartsAre
    <3> QED BY <3>1, <3>2, ContractIs
  <2> QED BY <1>2, <2>5, <2>9, <2>10, NoContent DEF o, z
<1> QED BY <1>3, <1>4

(* A new list, of the values of an array.                                  *)
LEMMA FillsIs ==
  ASSUME NEW l, NEW c, NEW k, NEW d, Rep(mem, l, c, k, d), ~Has(mem, k), NEW copies \in BOOLEAN,
         NEW s \in Seq(Value), Len(s) <= Cardinality(Free(mem))
  PROVE  Only(from_array(mem, k, s, copies), k, s)
<1> DEFINE o == from_array(mem, k, s, copies)
<1>1. Rep(mem, k, d, l, c) /\ l \in Lists /\ k \in Lists /\ l # k
  BY RepSwap, RepElim
<1>2. PICK e \in Seq(Node) : Filled(mem, o, k, e, l, c, s, Len(s))
  BY <1>1, FromArrayIs
<1> HIDE DEF o
<1>3. /\ Rep(o, k, e, l, c) /\ Has(o, k) /\ Len(e) = Len(s)
      /\ \A j \in 1..Len(s) : o.data[e[j]] = s[j]
      /\ o.list[l] = mem.list[l] /\ \A x \in Nodes(c) : o.data[x] = mem.data[x]
  BY <1>2 DEF Filled
<1>4. Content(o, e) = s
  <2>1. s = [j \in 1..Len(s) |-> s[j]]
    OBVIOUS
  <2> QED BY <1>3, <2>1 DEF Content
<1>5. ContentOf(o, k) = s
  BY <1>3, <1>4, ContentOfIs
<1>6. Content(o, c) = Content(mem, c)
  BY <1>3, ContentSame
<1>7. ContentOf(o, l) = ContentOf(mem, l)
  <2>1. Rep(o, l, c, k, e)
    BY <1>3, RepSwap
  <2>2. Has(o, l) <=> Has(mem, l)
    BY <1>3 DEF Has
  <2> QED BY <1>6, <2>1, <2>2, ContentOfIs
<1>8. \A x \in Lists : x = l \/ x = k
  BY <1>1 DEF Lists
<1> QED BY <1>1, <1>5, <1>7, <1>8 DEF Only, Was, o

(* What is chosen is not longer.                                           *)
LEMMA ChosenIsShorter ==
  ASSUME NEW V, NEW s \in Seq(V), NEW S
  PROVE  Chosen(s, S) \in Seq(V) /\ Len(Chosen(s, S)) <= Len(s)
<1>1. PICK g : Chooses(g, s, S, V) /\ Chosen(s, S) = g[Len(s)]
  BY ChosenIs
<1> DEFINE n == Len(s)
           P == {i \in Nat : i <= n => Len(g[i]) <= i}
<1>0. n \in Nat /\ \A i \in 1..n : s[i] \in V
  OBVIOUS
<1>2. /\ g[0] = <<>> /\ \A i \in 0..n : g[i] \in Seq(V)
      /\ \A i \in 1..n : g[i] = IF i \in S THEN Append(g[i - 1], s[i]) ELSE g[i - 1]
  BY <1>1 DEF Chooses
<1> HIDE DEF n
<1>3. 0 \in P
  <2>1. Len(<<>>) = 0
    OBVIOUS
  <2> QED BY <1>2, <2>1
<1>4. \A i \in Nat : i \in P => i + 1 \in P
  <2> SUFFICES ASSUME NEW i \in Nat, i \in P, i + 1 <= n PROVE Len(g[i + 1]) <= i + 1
    OBVIOUS
  <2>1. i + 1 \in 1..n /\ i \in 0..n /\ (i + 1) - 1 = i
    BY <1>0
  <2>2. g[i] \in Seq(V) /\ Len(g[i]) <= i
    BY <1>2, <2>1
  <2>3. g[i + 1] = Append(g[i], s[i + 1]) \/ g[i + 1] = g[i]
    BY <1>2, <2>1
  <2>4. s[i + 1] \in V
    BY <1>0, <2>1
  <2>5. Len(g[i]) \in Nat /\ Len(Append(g[i], s[i + 1])) = Len(g[i]) + 1
    BY <2>2, <2>4
  <2> QED BY <2>2, <2>3, <2>5
<1> HIDE DEF P
<1>5. \A i \in Nat : i \in P
  BY <1>3, <1>4, NatInd
<1>6. Len(g[n]) <= n
  <2>1. n \in P
    BY <1>0, <1>5
  <2> QED BY <1>0, <2>1 DEF P
<1>7. n \in 0..n
  BY <1>0
<1> QED BY <1>1, <1>2, <1>6, <1>7 DEF n

(* The places that pred accepts.                                           *)
LEMMA MatchingChosen ==
  ASSUME NEW s, NEW k
  PROVE  Matching(s, k) = Chosen(s, {i \in DOMAIN s : Key[s[i]] = k})
<1> DEFINE S == {i \in DOMAIN s : Key[s[i]] = k}
<1>1. \A i \in DOMAIN s : i \in S <=> Key[s[i]] = k
  OBVIOUS
<1> HIDE DEF S
<1>2. [i \in DOMAIN s |-> IF Key[s[i]] = k THEN <<s[i]>> ELSE <<>>]
        = [i \in DOMAIN s |-> IF i \in S THEN <<s[i]>> ELSE <<>>]
  BY <1>1
<1> QED BY <1>2 DEF Matching, Chosen, S

(* map, clone and filter.                                                  *)
LEMMA CopiesIs ==
  ASSUME NEW l, NEW c, NEW k, NEW d, Rep(mem, l, c, k, d), Has(mem, l), ~Has(mem, k),
         Len(Was(l)) <= Cardinality(Free(mem))
  PROVE  /\ Only(map(mem, l, k), k, C!Image(Was(l)))
         /\ Only(clone(mem, l, k), k, Was(l))
         /\ \A x : Only(filter(mem, l, k, x), k, C!Those(Was(l), x))
<1> DEFINE s == Values(mem, l)
           a == [i \in DOMAIN s |-> Mapped[s[i]]]
<1>1. s \in Seq(Value) /\ mem.list[l].copy \in BOOLEAN /\ FALSE \in BOOLEAN
  BY ValuesIs
<1>2. Was(l) = s
  BY DEF Was, ContentOf, Has
<1>3. map(mem, l, k) = from_array(mem, k, a, FALSE)
  BY DEF map
<1>4. clone(mem, l, k) = from_array(mem, k, s, mem.list[l].copy)
  BY DEF clone
<1>5. \A x : filter(mem, l, k, x) = from_array(mem, k, Matching(s, x), mem.list[l].copy)
  BY DEF filter
<1> HIDE DEF s
<1>6. Mapped \in [Value -> Value] /\ Cardinality(Free(mem)) \in Nat /\ Len(s) \in Nat
      /\ Len(s) <= Cardinality(Free(mem))
  BY <1>1, <1>2, DListAssumption, FreeIs
<1>7. a \in Seq(Value) /\ Len(a) = Len(s)
  BY <1>1, <1>6
<1>8. C!Image(Was(l)) = a
  BY <1>2, ContractIs
<1> HIDE DEF a
<1>9. Only(map(mem, l, k), k, C!Image(Was(l)))
  <2>1. Only(from_array(mem, k, a, FALSE), k, a)
    BY <1>1, <1>6, <1>7, FillsIs
  <2> QED BY <1>3, <1>8, <2>1
<1>10. Only(clone(mem, l, k), k, Was(l))
  <2>1. Only(from_array(mem, k, s, mem.list[l].copy), k, s)
    BY <1>1, <1>6, FillsIs
  <2> QED BY <1>2, <1>4, <2>1
<1>11. ASSUME NEW x PROVE Only(filter(mem, l, k, x), k, C!Those(Was(l), x))
  <2> DEFINE b == Matching(s, x)
             S == {i \in DOMAIN s : Key[s[i]] = x}
  <2>1. b = Chosen(s, S)
    BY MatchingChosen
  <2> HIDE DEF S
  <2>2. b \in Seq(Value) /\ Len(b) <= Len(s)
    BY <1>1, <2>1, ChosenIsShorter
  <2>3. C!Those(Was(l), x) = b
    BY <1>2, ThoseIs
  <2>4. filter(mem, l, k, x) = from_array(mem, k, b, mem.list[l].copy)
    BY <1>5
  <2> HIDE DEF b
  <2>5. Len(b) \in Nat
    BY <2>2
  <2>6. Len(b) <= Cardinality(Free(mem))
    BY <1>6, <2>2, <2>5
  <2>7. Only(from_array(mem, k, b, mem.list[l].copy), k, b)
    BY <1>1, <2>2, <2>6, FillsIs
  <2> QED BY <2>3, <2>4, <2>7
<1> QED BY <1>9, <1>10, <1>11

(* find_if gives the first place, or none.                                 *)
LEMMA FindsIs ==
  ASSUME NEW l, NEW c, NEW k, NEW d, Rep(mem, l, c, k, d), Has(mem, l), NEW x
  PROVE  LET at == find_if(mem, l, x)
         IN  /\ at # 0 => Key[Was(l)[at]] = x
             /\ \A i \in DOMAIN Was(l) : Key[Was(l)[i]] = x => at \in 1..i
<1> DEFINE s == Values(mem, l)
           at == find_if(mem, l, x)
           I == {i \in 1..Len(s) : Key[s[i]] = x}
<1>1. s \in Seq(Value) /\ DOMAIN s = 1..Len(s) /\ Len(s) \in Nat
  BY ValuesIs
<1>2. Was(l) = s
  BY DEF Was, ContentOf, Has
<1>3. at = IF I # {} THEN Min(I) ELSE 0
  BY Zenon DEF find_if, SelectInSeq
<1> HIDE DEF s, at
<1>4. I \subseteq Nat /\ \A i \in I : i \in 1..Len(s) /\ Key[s[i]] = x
  BY <1>1
<1>5. \A i \in 1..Len(s) : Key[s[i]] = x => i \in I
  OBVIOUS
<1> HIDE DEF I
<1>6. CASE I = {}
  BY <1>1, <1>2, <1>3, <1>5, <1>6 DEF at
<1>7. CASE I # {}
  <2>1. \E a \in I : \A b \in I : a <= b
    BY <1>4, <1>7, Least
  <2>2. Min(I) \in I /\ \A b \in I : Min(I) <= b
    BY <2>1 DEF Min
  <2>3. at \in I /\ \A b \in I : at <= b
    BY <1>3, <1>7, <2>2
  <2>4. \A i \in 1..Len(s) : Key[s[i]] = x => at \in 1..i
    BY <1>1, <1>4, <1>5, <2>3
  <2> QED BY <1>1, <1>2, <1>4, <2>3, <2>4 DEF at
<1> QED BY <1>6, <1>7

(* count counts.                                                           *)
LEMMA CountsIs ==
  ASSUME NEW l, NEW c, NEW k, NEW d, Rep(mem, l, c, k, d), Has(mem, l), NEW x
  PROVE  count(mem, l, x) = Len(C!Those(Was(l), x))
<1> DEFINE s == Values(mem, l)
           S == {i \in DOMAIN s : Key[s[i]] = x}
           n == Len(c)
<1>1. /\ s \in Seq(Value) /\ DOMAIN s = 1..n /\ Len(s) = n /\ n \in Nat /\ Chain(mem, l) = c
      /\ \A i \in 1..n : s[i] = mem.data[c[i]]
  BY ValuesIs
<1>2. Was(l) = s
  BY DEF Was, ContentOf, Has
<1>3. c \in Seq(Node) /\ Distinct(c)
  BY RepElim
<1>4. C!Those(Was(l), x) = Chosen(s, S)
  BY <1>2, ThoseIs, MatchingChosen
<1> HIDE DEF s
<1>5. \A i \in 1..n : i \in S <=> Key[mem.data[c[i]]] = x
  BY <1>1
<1> HIDE DEF S
<1>6. PICK g : Chooses(g, s, S, Value) /\ Chosen(s, S) = g[Len(s)]
  BY <1>1, ChosenIs
<1>7. /\ g[0] = <<>> /\ \A i \in 0..n : g[i] \in Seq(Value)
      /\ \A i \in 1..n : g[i] = IF i \in S THEN Append(g[i - 1], s[i]) ELSE g[i - 1]
  BY <1>1, <1>6 DEF Chooses
<1> DEFINE A(i) == {y \in First(c, i) : Key[mem.data[y]] = x}
           P == {i \in Nat : i <= n => IsFiniteSet(A(i)) /\ Cardinality(A(i)) = Len(g[i])}
<1>8. \A i \in Nat : i \in P
  <2>1. 0 \in P
    <3>1. First(c, 0) = {}
      BY <1>3, FirstIs
    <3>2. A(0) = {}
      BY <3>1
    <3>3. IsFiniteSet({}) /\ Cardinality({}) = 0 /\ Len(<<>>) = 0
      BY FS_EmptySet
    <3> QED BY <1>7, <3>2, <3>3
  <2>2. \A i \in Nat : i \in P => i + 1 \in P
    <3> SUFFICES ASSUME NEW i \in Nat, i \in P, i + 1 <= n
                 PROVE  IsFiniteSet(A(i + 1)) /\ Cardinality(A(i + 1)) = Len(g[i + 1])
      OBVIOUS
    <3>1. i + 1 \in 1..n /\ i \in 0..n /\ (i + 1) - 1 = i /\ i <= n
      BY <1>1
    <3>2. IsFiniteSet(A(i)) /\ Cardinality(A(i)) = Len(g[i])
      BY <3>1
    <3>3. c[i + 1] \notin First(c, i) /\ First(c, i + 1) = First(c, i) \cup {c[i + 1]}
      BY <1>3, FirstIs
    <3>4. g[i] \in Seq(Value) /\ s[i + 1] \in Value
      BY <1>1, <1>7, <3>1
    <3>5. CASE i + 1 \in S
      <4>1. Key[mem.data[c[i + 1]]] = x /\ g[i + 1] = Append(g[i], s[i + 1])
        BY <1>5, <1>7, <3>1, <3>5
      <4>2. A(i + 1) = A(i) \cup {c[i + 1]} /\ c[i + 1] \notin A(i)
        BY <3>3, <4>1
      <4>3. IsFiniteSet(A(i + 1)) /\ Cardinality(A(i + 1)) = Cardinality(A(i)) + 1
        <5> DEFINE B == A(i)
        <5> HIDE DEF A
        <5>1. IsFiniteSet(B) /\ c[i + 1] \notin B
          BY <3>2, <4>2
        <5>2. IsFiniteSet(B \cup {c[i + 1]}) /\ Cardinality(B \cup {c[i + 1]}) = Cardinality(B) + 1
          BY <5>1, FS_AddElement
        <5> QED BY <4>2, <5>2
      <4>4. Len(Append(g[i], s[i + 1])) = Len(g[i]) + 1
        BY <3>4
      <4> QED BY <3>2, <4>1, <4>3, <4>4
    <3>6. CASE i + 1 \notin S
      <4>1. Key[mem.data[c[i + 1]]] # x /\ g[i + 1] = g[i]
        BY <1>5, <1>7, <3>1, <3>6
      <4>2. A(i + 1) = A(i)
        BY <3>3, <4>1
      <4> QED BY <3>2, <4>1, <4>2
    <3> QED BY <3>5, <3>6
  <2> HIDE DEF P
  <2> QED BY <2>1, <2>2, NatInd
<1>9. Cardinality(A(n)) = Len(g[n])
  <2>1. n \in P
    BY <1>1, <1>8
  <2> HIDE DEF A
  <2> QED BY <1>1, <2>1
<1>10. count(mem, l, x) = Cardinality(A(n))
  <2>1. First(c, n) = Nodes(c) /\ ToSet(c) = Nodes(c)
    <3>1. 0 \in Nat
      OBVIOUS
    <3>2. First(c, Len(c)) = Nodes(c)
      BY <1>3, <3>1, FirstIs
    <3> QED BY <1>3, <3>2, ToSetIs
  <2> QED BY <1>1, <2>1 DEF count
<1> QED BY <1>1, <1>4, <1>6, <1>9, <1>10

(* What is left of a sequence.                                             *)
Rest(c, i) == SubSeq(c, i + 1, Len(c))

(* One element less.                                                       *)
LEMMA RestIs ==
  ASSUME NEW c \in Seq(Node), NEW i \in Nat, i <= Len(c)
  PROVE  /\ Rest(c, i) \in Seq(Node) /\ Rest(c, 0) = c /\ Rest(c, Len(c)) = <<>>
         /\ i + 1 <= Len(c) => /\ c[i + 1] \in Node
                               /\ Rest(c, i + 1) \in Seq(Node)
                               /\ Rest(c, i) = <<c[i + 1]>> \o Rest(c, i + 1)
<1>0. Len(c) \in Nat
  OBVIOUS
<1>1. Rest(c, i) \in Seq(Node)
  BY DEF Rest
<1>2. Rest(c, Len(c)) = <<>>
  BY <1>0 DEF Rest
<1>3. Rest(c, 0) = c
  <2>1. SubSeq(<<>> \o c, Len(<<>>) + 1, Len(<<>> \o c)) = c
    <3>1. <<>> \in Seq(Node)
      OBVIOUS
    <3> QED BY <3>1, PartsAre
  <2>2. <<>> \o c = c /\ Len(<<>>) = 0
    OBVIOUS
  <2> QED BY <2>1, <2>2 DEF Rest
<1>4. ASSUME i + 1 <= Len(c)
      PROVE  /\ c[i + 1] \in Node /\ Rest(c, i + 1) \in Seq(Node)
             /\ Rest(c, i) = <<c[i + 1]>> \o Rest(c, i + 1)
  <2> DEFINE x == c[i + 1]
             a == Rest(c, i)
             q == Rest(c, i + 1)
             b == <<x>> \o q
  <2>1. i + 1 \in 1..Len(c) /\ x \in Node
    BY <1>0, <1>4
  <2>2. a \in Seq(Node) /\ Len(a) = Len(c) - i /\ \A j \in 1..(Len(c) - i) : a[j] = c[i + j]
    BY <1>0 DEF Rest
  <2>3. /\ q \in Seq(Node) /\ Len(q) = Len(c) - (i + 1)
        /\ \A j \in 1..(Len(c) - (i + 1)) : q[j] = c[(i + 1) + j]
    BY <1>0, <1>4 DEF Rest
  <2>x. x = c[i + 1]
    OBVIOUS
  <2> HIDE DEF x, a, q
  <2>4. /\ b \in Seq(Node) /\ Len(b) = 1 + Len(q) /\ b[1] = x
        /\ \A j \in 1..Len(q) : b[1 + j] = q[j]
    <3>1. <<x>> \in Seq(Node) /\ Len(<<x>>) = 1 /\ <<x>>[1] = x
      BY <2>1
    <3>2. 1 \in 1..Len(<<x>>)
      BY <3>1
    <3> QED BY <2>3, <3>1, <3>2, ConcatIs
  <2> HIDE DEF b
  <2>5. Len(a) = Len(b)
    BY <1>0, <2>2, <2>3, <2>4
  <2>6. \A j \in 1..Len(a) : a[j] = b[j]
    <3> SUFFICES ASSUME NEW j \in 1..Len(a) PROVE a[j] = b[j]
      OBVIOUS
    <3>1. CASE j = 1
      <4>1. 1 \in 1..(Len(c) - i)
        BY <1>0, <1>4
      <4> QED BY <2>2, <2>4, <2>x, <3>1, <4>1
    <3>2. CASE j # 1
      <4>1. j - 1 \in 1..Len(q) /\ 1 + (j - 1) = j /\ (i + 1) + (j - 1) = i + j /\ j \in 1..(Len(c) - i)
        BY <1>0, <2>2, <2>3, <3>2
      <4>2. b[1 + (j - 1)] = q[j - 1]
        BY <2>4, <4>1
      <4>3. q[j - 1] = c[(i + 1) + (j - 1)]
        BY <2>3, <4>1
      <4> QED BY <2>2, <4>1, <4>2, <4>3
    <3> QED BY <3>1, <3>2
  <2>7. a = b
    BY <2>2, <2>4, <2>5, <2>6, SeqEqual
  <2> QED BY <2>1, <2>3, <2>7 DEF a, b, q, x
<1> QED BY <1>1, <1>2, <1>3, <1>4

-----------------------------------------------------------------------------
(* In the middle of a loop over c: the first i nodes have been visited,    *)
(* those that were kept hold out, the others are still to come.            *)
Kept(m, o, l, k) == Keeps(m, o, l, k) /\ o.live \subseteq m.live

Visited(o, l, c, k, d, i, out) ==
    /\ Kept(mem, o, l, k)
    /\ \E e \in Seq(Node) : Rep(o, l, e \o Rest(c, i), k, d) /\ Content(mem, e) = out

(* Nothing visited.                                                        *)
LEMMA VisitStarts ==
  ASSUME NEW l, NEW c, NEW k, NEW d, Rep(mem, l, c, k, d), Has(mem, l)
  PROVE  Visited(mem, l, c, k, d, 0, <<>>)
<1>1. c \in Seq(Node) /\ mem.list[k] = mem.list[k]
  BY RepElim
<1>2. 0 \in Nat /\ 0 <= Len(c)
  BY <1>1
<1>3. Rest(c, 0) = c
  BY <1>1, <1>2, RestIs
<1> DEFINE z == <<>>
<1>4. z \in Seq(Node) /\ z \o c = c
  BY <1>1
<1>5. Content(mem, z) = <<>>
  BY NoContent
<1> HIDE DEF z
<1>6. Rep(mem, l, z \o Rest(c, 0), k, d)
  BY <1>3, <1>4
<1> QED BY <1>4, <1>5, <1>6 DEF Visited, Kept, Keeps

(* The values that are left are those of the list.                         *)
LEMMA VisitKeeps ==
  ASSUME NEW o, NEW l, NEW c, NEW k, NEW d, NEW i, NEW out, Visited(o, l, c, k, d, i, out)
  PROVE  \A x \in o.live : o.data[x] = mem.data[x]
BY DEF Visited, Kept, Keeps

(* One more node, kept or erased.                                          *)
LEMMA VisitStep ==
  ASSUME NEW l, NEW c, NEW k, NEW d, Rep(mem, l, c, k, d), Has(mem, l),
         NEW i \in Nat, i + 1 <= Len(c), NEW o, NEW out, Visited(o, l, c, k, d, i, out)
  PROVE  /\ c[i + 1] \in o.live
         /\ Visited(o, l, c, k, d, i + 1, Append(out, mem.data[c[i + 1]]))
         /\ Visited(erase(o, l, c[i + 1]), l, c, k, d, i + 1, out)
         /\ erase(o, l, c[i + 1]).live = o.live \ {c[i + 1]}
<1> DEFINE x == c[i + 1]
           q == Rest(c, i + 1)
           w == erase(o, l, x)
<1>1. c \in Seq(Node) /\ Len(c) \in Nat
  BY RepElim
<1>2. i <= Len(c) /\ i + 1 \in Nat
  BY <1>1
<1>3. x \in Node /\ q \in Seq(Node) /\ Rest(c, i) = <<x>> \o q
  BY <1>1, <1>2, RestIs
<1>4. PICK e \in Seq(Node) : Rep(o, l, e \o Rest(c, i), k, d) /\ Content(mem, e) = out
  BY DEF Visited
<1>5. Keeps(mem, o, l, k) /\ o.live \subseteq mem.live /\ Has(o, l)
  BY DEF Visited, Kept, Keeps
<1> HIDE DEF x, q
<1>6. e \o Rest(c, i) = Glue(e, x, q)
  <2>1. e \in Seq(Node)
    OBVIOUS
  <2>2. Glue(e, x, q) = e \o (<<x>> \o q)
    <3>1. ASSUME NEW s \in Seq(Node), NEW t \in Seq(Node), NEW n \in Node
          PROVE  Glue(s, n, t) = s \o (<<n>> \o t)
      BY DEF Glue
    <3> QED BY <1>3, <2>1, <3>1
  <2> QED BY <1>3, <2>2
<1>7. Rep(o, l, Glue(e, x, q), k, d)
  BY <1>4, <1>6
<1>8. Removes(o, w, l, e, x, q)
  BY <1>3, <1>5, <1>7, EraseMade
<1>9. Rep(w, l, e \o q, k, d) /\ Keeps(o, w, l, k)
  BY <1>3, <1>5, <1>7, <1>8, Unlinked
<1>10. w.live = o.live \ {x}
  BY <1>8, MadeIs DEF Removes
<1> HIDE DEF w
<1>11. Kept(mem, w, l, k)
  <2>1. \A y \in w.live \cap mem.live : w.data[y] = mem.data[y]
    BY <1>5, <1>9, <1>10 DEF Keeps
  <2>2. w.live \subseteq mem.live
    BY <1>5, <1>10
  <2> QED BY <1>5, <1>9, <2>1, <2>2 DEF Kept, Keeps
<1>12. Visited(w, l, c, k, d, i + 1, out)
  BY <1>4, <1>9, <1>11 DEF Visited, q
<1>13. x \in o.live /\ Nodes(e) \cup {x} \subseteq mem.live
  <2>1. Nodes(Glue(e, x, q)) \subseteq o.live
    BY <1>7, ContentOfIs
  <2>2. Nodes(Glue(e, x, q)) = Nodes(e) \cup {x} \cup Nodes(q)
    BY <1>3, GlueNodes
  <2> QED BY <1>5, <2>1, <2>2
<1>14. Visited(o, l, c, k, d, i + 1, Append(out, mem.data[x]))
  <2> DEFINE z == <<>>
             a == Glue(e, x, z)
  <2>1. z \in Seq(Node) /\ a = e \o <<x>> /\ a \in Seq(Node)
    <3>1. e \o <<x>> \in Seq(Node)
      BY <1>3
    <3>2. (e \o <<x>>) \o <<>> = e \o <<x>> /\ <<>> \in Seq(Node)
      BY <3>1
    <3> QED BY <3>1, <3>2 DEF Glue
  <2>2. a \o q = Glue(e, x, q)
    BY <2>1 DEF Glue
  <2>3. Nodes(a) \subseteq mem.live
    <3>1. Nodes(a) = Nodes(e) \cup {x} \cup Nodes(z)
      <4>1. \A n \in Node, t \in Seq(Node) : Nodes(Glue(e, n, t)) = Nodes(e) \cup {n} \cup Nodes(t)
        BY GlueNodes
      <4> QED BY <1>3, <2>1, <4>1
    <3>2. Nodes(z) = {}
      <4>1. Len(z) = 0
        OBVIOUS
      <4> QED BY <4>1 DEF Nodes
    <3> QED BY <1>13, <3>1, <3>2
  <2>4. \A y \in Nodes(a) : mem.data[y] \in Value
    <3>1. \A y \in mem.live : mem.data[y] \in Value
      BY RepElim
    <3> QED BY <2>3, <3>1
  <2>5. Content(mem, z) = <<>>
    BY NoContent
  <2> HIDE DEF z
  <2>6. /\ Content(mem, a) = Glue(Content(mem, e), mem.data[x], Content(mem, z))
        /\ Content(mem, e) \in Seq(Value) /\ mem.data[x] \in Value
    BY <1>3, <2>1, <2>4, ContentGlue
  <2> HIDE DEF a
  <2>7. ASSUME NEW s \in Seq(Value), NEW v \in Value PROVE Glue(s, v, <<>>) = Append(s, v)
    BY DEF Glue
  <2>8. Content(mem, a) = Append(out, mem.data[x])
    BY <1>4, <2>5, <2>6, <2>7
  <2>9. Rep(o, l, a \o Rest(c, i + 1), k, d)
    BY <1>7, <2>2 DEF q
  <2>10. Kept(mem, o, l, k)
    BY <1>5 DEF Kept
  <2> QED BY <2>1, <2>8, <2>9, <2>10 DEF Visited
<1> QED BY <1>10, <1>12, <1>13, <1>14 DEF x, w

(* Everything visited.                                                     *)
LEMMA VisitEnds ==
  ASSUME NEW l, NEW c, NEW k, NEW d, Rep(mem, l, c, k, d), Has(mem, l),
         NEW o, NEW out, Visited(o, l, c, k, d, Len(c), out)
  PROVE  Only(o, l, out)
<1>1. c \in Seq(Node) /\ Len(c) \in Nat
  BY RepElim
<1>2. Rest(c, Len(c)) = <<>>
  <2>1. 0 \in Nat /\ 0 <= Len(c)
    BY <1>1
  <2> QED BY <1>1, <2>1, RestIs
<1>3. PICK e \in Seq(Node) : Rep(o, l, e \o Rest(c, Len(c)), k, d) /\ Content(mem, e) = out
  BY DEF Visited
<1>4. e \o <<>> = e
  OBVIOUS
<1>5. Rep(o, l, e, k, d)
  BY <1>2, <1>3, <1>4
<1>6. Keeps(mem, o, l, k) /\ o.live \subseteq mem.live
  BY DEF Visited, Kept
<1>7. Only(o, l, Content(o, e)) /\ \A x \in Nodes(e) \cap mem.live : o.data[x] = mem.data[x]
  BY <1>5, <1>6, OnlyIs
<1>8. Nodes(e) \subseteq mem.live
  <2>1. Nodes(e) \subseteq o.live
    BY <1>5, ContentOfIs
  <2> QED BY <1>6, <2>1
<1>9. Content(o, e) = Content(mem, e)
  BY <1>7, <1>8, ContentSame
<1> QED BY <1>3, <1>7, <1>9

(* What Without chooses.                                                   *)
LEMMA WithoutIs ==
  ASSUME NEW s, NEW k
  PROVE  C!Without(s, k) = Chosen(s, {i \in DOMAIN s : Key[s[i]] # k})
<1> DEFINE S == {i \in DOMAIN s : Key[s[i]] # k}
<1>1. \A i \in DOMAIN s : i \in S <=> Key[s[i]] # k
  OBVIOUS
<1> HIDE DEF S
<1>2. [i \in DOMAIN s |-> IF Key[s[i]] # k THEN <<s[i]>> ELSE <<>>]
        = [i \in DOMAIN s |-> IF i \in S THEN <<s[i]>> ELSE <<>>]
  BY <1>1
<1>3. C!Without(s, k) = FlattenSeq([i \in DOMAIN s |-> IF Key[s[i]] # k THEN <<s[i]>> ELSE <<>>])
  BY DEF C!Without, C!Chosen, C!FlattenSeq, FlattenSeq
<1> QED BY <1>2, <1>3 DEF Chosen, S

(* What Deduplicated chooses.                                              *)
LEMMA DeduplicatedIs ==
  ASSUME NEW s
  PROVE  C!Deduplicated(s) = Chosen(s, {i \in DOMAIN s : i = 1 \/ Key[s[i]] # Key[s[i - 1]]})
<1> DEFINE S == {i \in DOMAIN s : i = 1 \/ Key[s[i]] # Key[s[i - 1]]}
<1>1. \A i \in DOMAIN s : i \in S <=> i = 1 \/ Key[s[i]] # Key[s[i - 1]]
  OBVIOUS
<1> HIDE DEF S
<1>2. [i \in DOMAIN s |-> IF i = 1 \/ Key[s[i]] # Key[s[i - 1]] THEN <<s[i]>> ELSE <<>>]
        = [i \in DOMAIN s |-> IF i \in S THEN <<s[i]>> ELSE <<>>]
  BY <1>1
<1> QED BY <1>2, DedupIs DEF Chosen, S

(* remove_if.                                                              *)
LEMMA RemovesIs ==
  ASSUME NEW l, NEW c, NEW k, NEW d, Rep(mem, l, c, k, d), Has(mem, l), NEW v
  PROVE  Only(remove_if(mem, l, v), l, C!Without(Was(l), v))
<1> DEFINE n == Len(c)
           s == Content(mem, c)
           S == {i \in DOMAIN s : Key[s[i]] # v}
<1>1. /\ Was(l) = s /\ s \in Seq(Value) /\ Len(s) = n /\ n \in Nat /\ DOMAIN s = 1..n
      /\ \A i \in 1..n : s[i] = mem.data[c[i]]
  BY ContentOfIs DEF Was, Content
<1>2. Chain(mem, l) = c
  BY ValuesIs
<1>3. PICK f : Sweeps(f, mem, l, c, v, n) /\ remove_if(mem, l, v) = f[n]
  <2> DEFINE g == CHOOSE f : Sweeps(f, mem, l, Chain(mem, l), v, Len(Chain(mem, l)))
  <2>1. Sweeps(g, mem, l, Chain(mem, l), v, Len(Chain(mem, l)))
    BY <1>1, <1>2, SweepExists
  <2>2. remove_if(mem, l, v) = g[Len(Chain(mem, l))]
    BY Zenon DEF remove_if, Sweeps
  <2> HIDE DEF g
  <2> QED BY <1>2, <2>1, <2>2
<1>4. \A i \in 0..n : f[i] = IF i = 0 THEN mem
                             ELSE IF Key[f[i - 1].data[c[i]]] = v THEN erase(f[i - 1], l, c[i]) ELSE f[i - 1]
  BY <1>3 DEF Sweeps
<1>5. PICK g : Chooses(g, s, S, Value) /\ Chosen(s, S) = g[Len(s)]
  <2> HIDE DEF s, S
  <2> QED BY <1>1, ChosenIs
<1>6. g[0] = <<>> /\ \A i \in 1..n : g[i] = IF i \in S THEN Append(g[i - 1], s[i]) ELSE g[i - 1]
  BY <1>1, <1>5 DEF Chooses
<1>7. C!Without(Was(l), v) = g[n]
  BY <1>1, <1>5, WithoutIs
<1>8. \A i \in 1..n : i \in S <=> Key[s[i]] # v
  BY <1>1
<1> DEFINE P == {i \in Nat : i <= n => Visited(f[i], l, c, k, d, i, g[i])}
<1> HIDE DEF S, s
<1>9. 0 \in P
  <2>1. f[0] = mem
    BY <1>1, <1>4
  <2>2. Visited(mem, l, c, k, d, 0, <<>>)
    BY VisitStarts
  <2> QED BY <1>6, <2>1, <2>2
<1>10. \A i \in Nat : i \in P => i + 1 \in P
  <2> SUFFICES ASSUME NEW i \in Nat, i \in P, i + 1 <= n
               PROVE  Visited(f[i + 1], l, c, k, d, i + 1, g[i + 1])
    OBVIOUS
  <2>1. i + 1 \in 1..n /\ i + 1 \in 0..n /\ i + 1 # 0 /\ (i + 1) - 1 = i /\ i <= n
    BY <1>1
  <2>2. Visited(f[i], l, c, k, d, i, g[i])
    BY <2>1
  <2>3. /\ c[i + 1] \in f[i].live
        /\ Visited(f[i], l, c, k, d, i + 1, Append(g[i], mem.data[c[i + 1]]))
        /\ Visited(erase(f[i], l, c[i + 1]), l, c, k, d, i + 1, g[i])
    BY <2>2, VisitStep
  <2>4. f[i].data[c[i + 1]] = s[i + 1] /\ mem.data[c[i + 1]] = s[i + 1]
    <3>1. f[i].data[c[i + 1]] = mem.data[c[i + 1]]
      BY <2>2, <2>3, VisitKeeps
    <3> QED BY <1>1, <2>1, <3>1
  <2>5. CASE Key[s[i + 1]] = v
    <3>1. f[i + 1] = erase(f[i], l, c[i + 1])
      BY <1>4, <2>1, <2>4, <2>5
    <3>2. g[i + 1] = g[i]
      BY <1>6, <1>8, <2>1, <2>5
    <3> QED BY <2>3, <3>1, <3>2
  <2>6. CASE Key[s[i + 1]] # v
    <3>1. f[i + 1] = f[i]
      BY <1>4, <2>1, <2>4, <2>6
    <3>2. g[i + 1] = Append(g[i], s[i + 1])
      BY <1>6, <1>8, <2>1, <2>6
    <3> QED BY <2>3, <2>4, <3>1, <3>2
  <2> QED BY <2>5, <2>6
<1>11. Visited(f[n], l, c, k, d, n, g[n])
  <2> HIDE DEF P
  <2>1. \A i \in Nat : i \in P
    BY <1>9, <1>10, NatInd
  <2>2. n \in P
    BY <1>1, <2>1
  <2> QED BY <1>1, <2>2 DEF P
<1>12. Only(f[n], l, g[n])
  BY <1>11, VisitEnds
<1> QED BY <1>3, <1>7, <1>12

(* unique: cur is a node that was kept, with the key of the last visited.  *)
LEMMA UniquesIs ==
  ASSUME NEW l, NEW c, NEW k, NEW d, Rep(mem, l, c, k, d), Has(mem, l)
  PROVE  Only(unique(mem, l), l, C!Deduplicated(Was(l)))
<1> DEFINE n == Len(c)
           s == Content(mem, c)
           S == {i \in DOMAIN s : i = 1 \/ Key[s[i]] # Key[s[i - 1]]}
<1>1. /\ Was(l) = s /\ s \in Seq(Value) /\ Len(s) = n /\ n \in Nat /\ DOMAIN s = 1..n
      /\ \A i \in 1..n : s[i] = mem.data[c[i]]
  BY ContentOfIs DEF Was, Content
<1>2. Chain(mem, l) = c /\ c \in Seq(Node) /\ Distinct(c)
  BY ValuesIs, RepElim
<1>5. PICK g : Chooses(g, s, S, Value) /\ Chosen(s, S) = g[Len(s)]
  <2> HIDE DEF s, S
  <2> QED BY <1>1, ChosenIs
<1>6. g[0] = <<>> /\ \A i \in 1..n : g[i] = IF i \in S THEN Append(g[i - 1], s[i]) ELSE g[i - 1]
  BY <1>1, <1>5 DEF Chooses
<1>7. C!Deduplicated(Was(l)) = g[n]
  BY <1>1, <1>5, DeduplicatedIs
<1>8. \A i \in 1..n : i \in S <=> i = 1 \/ Key[s[i]] # Key[s[i - 1]]
  BY <1>1
<1> HIDE DEF S, s
<1>s. Visited(mem, l, c, k, d, 0, <<>>)
  BY VisitStarts
<1>9. CASE n = 0
  <2>1. Chain(mem, l) = <<>>
    BY <1>2, <1>9
  <2>2. unique(mem, l) = mem
    BY <2>1, Zenon DEF unique
  <2>3. Only(mem, l, <<>>)
    BY <1>s, <1>9, VisitEnds
  <2> QED BY <1>6, <1>7, <1>9, <2>2, <2>3
<1>10. CASE n # 0
  <2>1. PICK f : Scans(f, mem, l, c, n) /\ unique(mem, l) = f[n].m
    <3> DEFINE h == CHOOSE f : Scans(f, mem, l, Chain(mem, l), Len(Chain(mem, l)))
    <3>1. Scans(h, mem, l, Chain(mem, l), Len(Chain(mem, l)))
      BY <1>1, <1>2, ScanExists
    <3>2. Chain(mem, l) # <<>>
      <4>1. Len(<<>>) = 0
        OBVIOUS
      <4> QED BY <1>2, <1>10, <4>1
    <3>3. unique(mem, l) = h[Len(Chain(mem, l))].m
      BY <3>2, Zenon DEF unique, Scans
    <3> HIDE DEF h
    <3> QED BY <1>2, <3>1, <3>3
  <2>2. \A i \in 1..n : f[i] = IF i = 1 THEN [m |-> mem, cur |-> c[1]]
              ELSE IF Key[f[i - 1].m.data[f[i - 1].cur]] = Key[f[i - 1].m.data[c[i]]]
                   THEN [f[i - 1] EXCEPT !.m = erase(@, l, c[i])] ELSE [f[i - 1] EXCEPT !.cur = c[i]]
    BY <2>1 DEF Scans
  <2> DEFINE Good(u, i) ==
                 /\ u = [m |-> u.m, cur |-> u.cur]
                 /\ Visited(u.m, l, c, k, d, i, g[i])
                 /\ u.cur \in u.m.live /\ (\E j \in 1..i : u.cur = c[j])
                 /\ Key[mem.data[u.cur]] = Key[s[i]]
             P == {i \in Nat : i + 1 <= n => Good(f[i + 1], i + 1)}
  <2>3. 0 \in P
    <3>1. 0 \in Nat /\ 0 + 1 = 1 /\ 1 \in 1..n /\ 0 + 1 <= Len(c) /\ 1 - 1 = 0 /\ 1 \in 1..1
      BY <1>1, <1>10
    <3>2. c[1] \in mem.live /\ Visited(mem, l, c, k, d, 1, Append(<<>>, mem.data[c[1]]))
      <4> DEFINE z == 0
                 y == z + 1
      <4>1. z \in Nat /\ z + 1 <= Len(c) /\ Visited(mem, l, c, k, d, z, <<>>) /\ y = 1 /\ y = z + 1
        BY <1>s, <3>1
      <4> HIDE DEF z, y
      <4>2. c[z + 1] \in mem.live /\ Visited(mem, l, c, k, d, z + 1, Append(<<>>, mem.data[c[z + 1]]))
        BY <4>1, VisitStep
      <4>3. z + 1 = 1
        BY <4>1
      <4> QED BY <4>2, <4>3
    <3>3. g[1] = Append(<<>>, s[1]) /\ s[1] = mem.data[c[1]]
      <4>1. 1 \in S
        BY <1>8, <3>1
      <4>2. g[1] = Append(g[1 - 1], s[1])
        BY <1>6, <3>1, <4>1
      <4>3. g[1 - 1] = <<>>
        BY <1>6, <3>1
      <4> QED BY <1>1, <3>1, <4>2, <4>3
    <3>4. f[1] = [m |-> mem, cur |-> c[1]]
      BY <2>2, <3>1
    <3>5. f[1].m = mem /\ f[1].cur = c[1] /\ f[1] = [m |-> f[1].m, cur |-> f[1].cur]
      BY <3>4
    <3>6. Good(f[1], 1)
      BY <3>1, <3>2, <3>3, <3>5
    <3> QED BY <3>1, <3>6
  <2>4. \A i \in Nat : i \in P => i + 1 \in P
    <3> SUFFICES ASSUME NEW a \in Nat, a \in P, (a + 1) + 1 <= n
                 PROVE  Good(f[(a + 1) + 1], (a + 1) + 1)
      OBVIOUS
    <3> DEFINE i == a + 1
               x == c[i + 1]
               u == f[i]
               o == u.m
    <3>1. /\ i \in Nat /\ i + 1 \in 1..n /\ i + 1 # 1 /\ (i + 1) - 1 = i /\ i \in 1..n
          /\ i + 1 <= Len(c) /\ a + 1 <= n
      BY <1>1
    <3>2. Good(u, i)
      BY <3>1
    <3> HIDE DEF i
    <3>3. /\ x \in o.live
          /\ Visited(o, l, c, k, d, i + 1, Append(g[i], mem.data[x]))
          /\ Visited(erase(o, l, x), l, c, k, d, i + 1, g[i])
          /\ erase(o, l, x).live = o.live \ {x}
      <4> HIDE DEF u
      <4>1. Visited(o, l, c, k, d, i, g[i])
        BY <3>2
      <4> QED BY <3>1, <4>1, VisitStep
    <3>4. /\ o.data[x] = s[i + 1] /\ mem.data[x] = s[i + 1] /\ o.data[u.cur] = mem.data[u.cur]
          /\ Key[mem.data[u.cur]] = Key[s[i]] /\ u.cur \in o.live
      <4>1. \A y \in o.live : o.data[y] = mem.data[y]
        BY <3>2, VisitKeeps
      <4> QED BY <1>1, <3>1, <3>2, <3>3, <4>1
    <3>5. u.cur # x
      <4>1. PICK j \in 1..i : u.cur = c[j]
        BY <3>2
      <4>2. j \in 1..n /\ j # i + 1
        BY <1>1, <3>1
      <4> QED BY <1>2, <3>1, <4>1, <4>2 DEF Distinct
    <3>6. f[i + 1] = IF Key[o.data[u.cur]] = Key[o.data[x]]
                     THEN [u EXCEPT !.m = erase(@, l, x)] ELSE [u EXCEPT !.cur = x]
      <4>1. f[i + 1] = IF Key[f[(i + 1) - 1].m.data[f[(i + 1) - 1].cur]] = Key[f[(i + 1) - 1].m.data[c[i + 1]]]
                       THEN [f[(i + 1) - 1] EXCEPT !.m = erase(@, l, c[i + 1])]
                       ELSE [f[(i + 1) - 1] EXCEPT !.cur = c[i + 1]]
        BY <2>2, <3>1
      <4>2. f[(i + 1) - 1] = f[i]
        BY <3>1
      <4> QED BY <4>1, <4>2
    <3>7. u = [m |-> o, cur |-> u.cur]
      BY <3>2
    <3>8. \E j \in 1..i : u.cur = c[j]
      BY <3>2
    <3>w. Len(c) = n
      OBVIOUS
    <3> HIDE DEF u, o, x, Good, P, n
    <3>9. CASE Key[s[i]] = Key[s[i + 1]]
      <4> DEFINE w == [m |-> erase(o, l, x), cur |-> u.cur]
      <4>1. f[i + 1] = w
        <5>1. f[i + 1] = [u EXCEPT !.m = erase(@, l, x)]
          BY <3>4, <3>6, <3>9
        <5>2. [u EXCEPT !.m = erase(@, l, x)] = w
          BY <3>7
        <5> QED BY <5>1, <5>2
      <4>2. g[i + 1] = g[i]
        BY <1>6, <1>8, <3>1, <3>9
      <4>3. w.m = erase(o, l, x) /\ w.cur = u.cur /\ w = [m |-> w.m, cur |-> w.cur]
        OBVIOUS
      <4> HIDE DEF w
      <4>4. w.cur \in w.m.live
        BY <3>3, <3>4, <3>5, <4>3
      <4>5. \E j \in 1..(i + 1) : w.cur = c[j]
        BY <3>1, <3>8, <4>3
      <4>6. Key[mem.data[w.cur]] = Key[s[i + 1]]
        BY <3>4, <3>9, <4>3
      <4>7. Good(w, i + 1)
        BY <3>3, <4>2, <4>3, <4>4, <4>5, <4>6 DEF Good
      <4> QED BY <4>1, <4>7 DEF i
    <3>10. CASE Key[s[i]] # Key[s[i + 1]]
      <4> DEFINE w == [m |-> o, cur |-> x]
      <4>1. f[i + 1] = w
        <5>1. f[i + 1] = [u EXCEPT !.cur = x]
          BY <3>4, <3>6, <3>10
        <5>2. [u EXCEPT !.cur = x] = w
          BY <3>7
        <5> QED BY <5>1, <5>2
      <4>2. g[i + 1] = Append(g[i], s[i + 1])
        BY <1>6, <1>8, <3>1, <3>10
      <4>3. w.m = o /\ w.cur = x /\ w = [m |-> w.m, cur |-> w.cur]
        OBVIOUS
      <4> HIDE DEF w
      <4>5. \E j \in 1..(i + 1) : w.cur = c[j]
        <5>1. i + 1 \in 1..(i + 1)
          BY <3>1
        <5> QED BY <4>3, <5>1 DEF x
      <4>6. Key[mem.data[w.cur]] = Key[s[i + 1]]
        BY <3>4, <4>3
      <4>7. Good(w, i + 1)
        BY <3>3, <3>4, <4>2, <4>3, <4>5, <4>6 DEF Good
      <4> QED BY <4>1, <4>7 DEF i
    <3> QED BY <3>9, <3>10
  <2>5. Good(f[n], n)
    <3> HIDE DEF P, Good
    <3>1. \A i \in Nat : i \in P
      BY <2>3, <2>4, NatInd
    <3>2. n - 1 \in Nat /\ (n - 1) + 1 = n /\ n <= n
      BY <1>1, <1>10
    <3>3. n - 1 \in P
      BY <3>1, <3>2
    <3> QED BY <3>2, <3>3 DEF P
  <2>6. Only(f[n].m, l, g[n])
    BY <2>5, VisitEnds
  <2> QED BY <1>7, <2>1, <2>6
<1> QED BY <1>9, <1>10

(* The stable order of the values of s: by key, then by place.             *)
Prior(s, i, j) == Key[s[i]] < Key[s[j]] \/ (Key[s[i]] = Key[s[j]] /\ i < j)
Earlier(c, s) == {p \in Nodes(c) \X Nodes(c) : \E i, j \in 1..Len(c) : p = <<c[i], c[j]>> /\ Prior(s, i, j)}
Keyed(c, s) == DOMAIN s = 1..Len(c) /\ \A i \in 1..Len(c) : Key[s[i]] \in Int

(* It is a strict order.                                                   *)
LEMMA EarlierIs ==
  ASSUME NEW c \in Seq(Node), Distinct(c), NEW s, Keyed(c, s)
  PROVE  /\ \A i, j \in 1..Len(c) : <<c[i], c[j]>> \in Earlier(c, s) <=> Prior(s, i, j)
         /\ Transitive(Earlier(c, s))
<1> DEFINE n == Len(c)
<1>1. n \in Nat /\ \A i, j \in 1..n : c[i] = c[j] => i = j
  BY DEF Distinct
<1>2. \A i \in 1..n : c[i] \in Nodes(c)
  BY DEF Nodes
<1>3. \A x, y : <<x, y>> \in Earlier(c, s) <=> \E i, j \in 1..n : x = c[i] /\ y = c[j] /\ Prior(s, i, j)
  BY <1>2 DEF Earlier
<1>4. \A i, j \in 1..n : <<c[i], c[j]>> \in Earlier(c, s) <=> Prior(s, i, j)
  BY <1>1, <1>3
<1>5. \A i \in 1..n : Key[s[i]] \in Int
  BY DEF Keyed
<1>6. \A i, j, h \in 1..n : Prior(s, i, j) /\ Prior(s, j, h) => Prior(s, i, h)
  BY <1>1, <1>5 DEF Prior
<1>7. ASSUME NEW x, NEW y, NEW z, <<x, y>> \in Earlier(c, s), <<y, z>> \in Earlier(c, s)
      PROVE  <<x, z>> \in Earlier(c, s)
  <2>1. PICK i \in 1..n, j \in 1..n : x = c[i] /\ y = c[j] /\ Prior(s, i, j)
    BY <1>3, <1>7
  <2>2. PICK g \in 1..n, h \in 1..n : y = c[g] /\ z = c[h] /\ Prior(s, g, h)
    BY <1>3, <1>7
  <2>3. g = j
    BY <1>1, <2>1, <2>2
  <2>4. Prior(s, i, h)
    BY <1>6, <2>1, <2>2, <2>3
  <2> QED BY <1>4, <2>1, <2>2, <2>4
<1> QED BY <1>4, <1>7 DEF Transitive

(* In nodes that are in that order, each is at its rank.                   *)
LEMMA RankOf ==
  ASSUME NEW c \in Seq(Node), Distinct(c), NEW s, Keyed(c, s),
         NEW e \in Seq(Node), Distinct(e), Len(e) = Len(c), Nodes(e) = Nodes(c), Ascends(Earlier(c, s), e),
         NEW r \in 1..Len(c), NEW i \in 1..Len(c), e[r] = c[i]
  PROVE  C!Rank(s, i) = r
<1> DEFINE n == Len(c)
           B == {j \in 1..n : Key[s[j]] < Key[s[i]] \/ (Key[s[j]] = Key[s[i]] /\ j <= i)}
           h == [q \in 1..r |-> At(c, e[q])]
<1>1. /\ n \in Nat /\ r \in 1..n /\ i \in 1..n /\ DOMAIN s = 1..n /\ \A j \in 1..n : Key[s[j]] \in Int
      /\ \A a, b \in 1..n : c[a] = c[b] => a = b
      /\ \A a, b \in 1..n : e[a] = e[b] => a = b
  BY DEF Distinct, Keyed
<1>2. C!Rank(s, i) = Cardinality(B)
  BY <1>1, RankIs
<1>3. \A j \in 1..n : \E q \in 1..n : c[j] = e[q]
  BY DEF Nodes
<1>4. ASSUME NEW q \in 1..n PROVE At(c, e[q]) \in 1..n /\ c[At(c, e[q])] = e[q]
  <2>1. PICK j \in 1..n : e[q] = c[j]
    BY DEF Nodes
  <2>2. At(c, c[j]) = j
    BY AtIs
  <2> QED BY <2>1, <2>2
<1>5. \A a, b \in 1..n : <<c[a], c[b]>> \in Earlier(c, s) => Prior(s, a, b)
  BY EarlierIs
<1>6. \A a, b \in 1..n : a < b => <<e[a], e[b]>> \in Earlier(c, s)
  BY DEF Ascends
<1>7. \A q \in 1..r : q \in 1..n
  BY <1>1
<1> HIDE DEF n
<1>8. ASSUME NEW q \in 1..r PROVE At(c, e[q]) \in B
  <2>1. q \in 1..n /\ At(c, e[q]) \in 1..n /\ c[At(c, e[q])] = e[q]
    BY <1>4, <1>7
  <2>2. CASE q = r
    <3>1. At(c, e[q]) = i
      BY <1>1, <2>1, <2>2
    <3> QED BY <1>1, <3>1
  <2>3. CASE q # r
    <3>1. q < r
      BY <1>1, <2>3
    <3>2. Prior(s, At(c, e[q]), i)
      BY <1>1, <1>5, <1>6, <2>1, <3>1
    <3> QED BY <1>1, <2>1, <3>2 DEF Prior
  <2> QED BY <2>2, <2>3
<1>9. ASSUME NEW j \in B PROVE \E q \in 1..r : At(c, e[q]) = j
  <2>1. j \in 1..n /\ (Key[s[j]] < Key[s[i]] \/ (Key[s[j]] = Key[s[i]] /\ j <= i))
    OBVIOUS
  <2>2. PICK q \in 1..n : c[j] = e[q]
    BY <1>3, <2>1
  <2>3. At(c, e[q]) = j
    <3> DEFINE a == At(c, e[q])
    <3>1. a \in 1..n /\ c[a] = c[j]
      BY <1>4, <2>2
    <3> HIDE DEF a
    <3>2. a = j
      BY <1>1, <2>1, <3>1
    <3> QED BY <3>2 DEF a
  <2>4. ~(r < q)
    <3> SUFFICES ASSUME r < q PROVE FALSE
      OBVIOUS
    <3>1. <<c[i], c[j]>> \in Earlier(c, s)
      BY <1>1, <1>6, <2>2
    <3>2. Prior(s, i, j)
      BY <1>1, <1>5, <2>1, <3>1
    <3> QED BY <1>1, <2>1, <3>2 DEF Prior
  <2>5. q \in 1..r
    BY <1>1, <2>4
  <2> QED BY <2>3, <2>5
<1>10. \A p, q \in 1..r : At(c, e[p]) = At(c, e[q]) => p = q
  <2> SUFFICES ASSUME NEW p \in 1..r, NEW q \in 1..r, At(c, e[p]) = At(c, e[q]) PROVE p = q
    OBVIOUS
  <2>1. p \in 1..n /\ q \in 1..n
    BY <1>7
  <2>2. e[p] = e[q]
    BY <1>4, <2>1
  <2> QED BY <1>1, <2>1, <2>2
<1> HIDE DEF B
<1>11. h \in [1..r -> B] /\ (\A p, q \in 1..r : h[p] = h[q] => p = q) /\ (\A j \in B : \E q \in 1..r : h[q] = j)
  BY <1>8, <1>9, <1>10
<1> HIDE DEF h
<1>12. ExistsBijection(1..r, B)
  BY <1>11 DEF ExistsBijection, Bijection, Injection, Surjection, IsInjective
<1>13. IsFiniteSet(1..r) /\ Cardinality(1..r) = r
  <2>1. 1 \in Int /\ r \in Int /\ ~(1 > r) /\ r - 1 + 1 = r
    BY <1>1
  <2> QED BY <2>1, FS_Interval
<1>14. Cardinality(B) = r
  BY <1>12, <1>13, FS_Bijection
<1> QED BY <1>2, <1>14

(* sort: the values in the stable order.                                   *)
LEMMA SortsIs ==
  ASSUME NEW l, NEW c, NEW k, NEW d, Rep(mem, l, c, k, d), Has(mem, l)
  PROVE  Only(sort(mem, l), l, C!Sorted(Was(l)))
<1> DEFINE n == Len(c)
           s == Content(mem, c)
           o == sort(mem, l)
           R == Earlier(c, s)
<1>1. /\ Was(l) = s /\ s \in Seq(Value) /\ Len(s) = n /\ n \in Nat /\ DOMAIN s = 1..n
      /\ \A i \in 1..n : s[i] = mem.data[c[i]] /\ s[i] \in Value
  BY ContentOfIs DEF Was, Content
<1>2. c \in Seq(Node) /\ Distinct(c) /\ Nodes(c) \subseteq mem.live
  BY RepElim
<1>3. PICK e \in Seq(Node) : /\ Rep(o, l, e, k, d) /\ Keeps(mem, o, l, k)
                             /\ o.live = mem.live /\ o.data = mem.data
                             /\ Distinct(e) /\ Len(e) = Len(c) /\ Nodes(e) = Nodes(c)
                             /\ \A S : Arranges(S, mem, c) => Ascends(S, e)
  BY SortIs
<1>4. \A v \in Value : Key[v] \in Int
  BY DListAssumption
<1> HIDE DEF s, o
<1>5. Keyed(c, s)
  BY <1>1, <1>4 DEF Keyed
<1>6. Transitive(R) /\ \A i, j \in 1..n : <<c[i], c[j]>> \in R <=> Prior(s, i, j)
  BY <1>2, <1>5, EarlierIs
<1>7. \A a, b \in 1..n : a < b => Decides(R, mem, c[a], c[b])
  <2> SUFFICES ASSUME NEW a \in 1..n, NEW b \in 1..n, a < b PROVE Decides(R, mem, c[a], c[b])
    OBVIOUS
  <2>1. TakesLeft(mem, c[a], c[b]) <=> Key[s[a]] <= Key[s[b]]
    BY <1>1 DEF TakesLeft
  <2>2. Key[s[a]] \in Int /\ Key[s[b]] \in Int
    BY <1>1, <1>4
  <2>3. IF Key[s[a]] <= Key[s[b]] THEN Prior(s, a, b) ELSE Prior(s, b, a)
    BY <1>1, <2>2 DEF Prior
  <2> HIDE DEF R
  <2> QED BY <1>6, <2>1, <2>3 DEF Decides
<1> HIDE DEF R
<1>8. Arranges(R, mem, c)
  BY <1>6, <1>7 DEF Arranges
<1>9. Distinct(e) /\ Len(e) = n /\ Nodes(e) = Nodes(c) /\ Ascends(R, e)
  BY <1>3, <1>8
<1>10. \A r, i \in 1..n : e[r] = c[i] => C!Rank(s, i) = r
  BY <1>2, <1>5, <1>9, RankOf DEF R
<1>11. ASSUME NEW r \in 1..n PROVE s[CHOOSE i \in 1..n : C!Rank(s, i) = r] = mem.data[e[r]]
  <2>1. PICK i \in 1..n : e[r] = c[i]
    BY <1>9 DEF Nodes
  <2>2. ASSUME NEW j \in 1..n, C!Rank(s, j) = r PROVE j = i
    <3>1. PICK q \in 1..n : c[j] = e[q]
      BY <1>9 DEF Nodes
    <3>2. q = r
      BY <1>10, <2>2, <3>1
    <3> QED BY <1>2, <2>1, <3>1, <3>2 DEF Distinct
  <2>3. C!Rank(s, i) = r
    BY <1>10, <2>1
  <2>4. (CHOOSE j \in 1..n : C!Rank(s, j) = r) = i
    BY <2>2, <2>3
  <2> QED BY <1>1, <2>1, <2>4
<1>12. C!Sorted(s) = Content(mem, e)
  <2>1. C!Sorted(s) = [r \in 1..n |-> s[CHOOSE i \in 1..n : C!Rank(s, i) = r]]
    <3> DEFINE By(D) == [r \in D |-> s[CHOOSE i \in D : C!Rank(s, i) = r]]
    <3>1. C!Sorted(s) = By(DOMAIN s)
      BY SortedIs, Zenon
    <3>2. By(DOMAIN s) = By(1..n)
      <4> HIDE DEF By
      <4> QED BY <1>1
    <3> QED BY <3>1, <3>2, Zenon
  <2>2. Content(mem, e) = [r \in 1..n |-> mem.data[e[r]]]
    BY <1>9 DEF Content
  <2> QED BY <1>11, <2>1, <2>2
<1>13. Content(o, e) = Content(mem, e)
  BY <1>3 DEF Content
<1>14. Only(o, l, Content(o, e))
  BY <1>3, OnlyIs
<1> QED BY <1>1, <1>12, <1>13, <1>14 DEF o

-----------------------------------------------------------------------------
(* The operations on one list.                                             *)
LEMMA OneListKept ==
  ASSUME NEW l, NEW c, NEW k, NEW d, Rep(mem, l, c, k, d), Has(mem, l)
  PROVE  OneListContract(l)
<1>1. ToSet(Chain(mem, l)) = Nodes(c)
  BY OneList
<1>2. Only(clear(mem, l), l, <<>>) /\ Only(destroy(mem, l), l, C!Absent)
  BY ClearsIs
<1>3. /\ Only(pop_front(mem, l), l, C!Removed(Was(l), 1))
      /\ Only(pop_back(mem, l), l, C!Removed(Was(l), Len(Was(l))))
  BY PopsIs
<1>4. Only(reverse(mem, l), l, Reverse(Was(l)))
  BY ReversesIs
<1>5. Only(unique(mem, l), l, C!Deduplicated(Was(l)))
  BY UniquesIs
<1>6. Only(sort(mem, l), l, C!Sorted(Was(l)))
  BY SortsIs
<1>7. \A v \in Keys : Only(remove_if(mem, l, v), l, C!Without(Was(l), v))
  BY RemovesIs
<1>8. \A n \in mem.live :
          LET s == IF IsIn(mem, l, n) THEN C!Removed(Was(l), Place(l, n)) ELSE Was(l)
          IN  Only(erase(mem, l, n), l, s) /\ Only(extract(mem, l, n), l, s)
  BY ErasesIs
<1>9. \A v \in Keys : LET at == find_if(mem, l, v)
                      IN  /\ at # 0 => Key[Was(l)[at]] = v
                          /\ \A i \in DOMAIN Was(l) : Key[Was(l)[i]] = v => at \in 1..i
                          /\ count(mem, l, v) = Len(C!Those(Was(l), v))
  BY FindsIs, CountsIs
<1>10. Free(mem) # {} => \A v \in Value :
          /\ Only(push_front(mem, l, v), l, C!Insert(Was(l), 0, v))
          /\ Only(push_back(mem, l, v), l, C!Insert(Was(l), Len(Was(l)), v))
          /\ \A n \in ToSet(Chain(mem, l)) :
                 /\ Only(insert_before(mem, l, n, v), l, C!Insert(Was(l), Place(l, n) - 1, v))
                 /\ Only(insert_after(mem, l, n, v), l, C!Insert(Was(l), Place(l, n), v))
  BY <1>1, PushesIs
<1> QED BY <1>2, <1>3, <1>4, <1>5, <1>6, <1>7, <1>8, <1>9, <1>10, Zenon DEF OneListContract

(* The operations on two lists.                                            *)
LEMMA TwoListsKept ==
  ASSUME NEW l, NEW c, NEW k, NEW d, Rep(mem, l, c, k, d), Has(mem, l), Has(mem, k)
  PROVE  TwoListContract(l, k)
<1>1. ToSet(Chain(mem, l)) = Nodes(c)
  BY OneList
<1>2. /\ SamePolicy(mem, l, k) => Both(concat(mem, l, k), l, Was(l) \o Was(k), k, <<>>)
      /\ ~SamePolicy(mem, l, k) => Both(concat(mem, l, k), l, Was(l), k, Was(k))
  BY ConcatenatesIs
<1>3. SamePolicy(mem, l, k) =>
          \A n \in ToSet(Chain(mem, l)) :
              Both(splice_before(mem, l, n, k), l, C!Splice(Was(l), Place(l, n) - 1, Was(k)), k, <<>>)
  BY <1>1, SplicesIs
<1> QED BY <1>2, <1>3, Zenon DEF TwoListContract

(* The operations that make a list of another.                             *)
LEMMA NewListKept ==
  ASSUME NEW l, NEW c, NEW k, NEW d, Rep(mem, l, c, k, d), Has(mem, l), ~Has(mem, k)
  PROVE  NewListContract(l, k)
<1>1. Positions(l) = Nodes(c) \cup {NULL}
  BY OneList DEF Positions
<1>2. \A n \in Positions(l) : split_crashes(mem, l, n)
          \/ Both(split_after(mem, l, n, k), l, C!Upto(Was(l), Place(l, n)), k, C!After(Was(l), Place(l, n)))
  BY <1>1, SplitsIs
<1>3. Len(Was(l)) <= Cardinality(Free(mem)) =>
          /\ Only(map(mem, l, k), k, C!Image(Was(l)))
          /\ Only(clone(mem, l, k), k, Was(l))
          /\ \A x \in Keys : Only(filter(mem, l, k, x), k, C!Those(Was(l), x))
  BY CopiesIs
<1> QED BY <1>2, <1>3, Zenon DEF NewListContract

(* Each operation is, in every state of every program, the operation on    *)
(* sequences that its contract names, value for value, and changes no      *)
(* other list.                                                             *)
THEOREM ContractsAreKept == Spec => []OperationsKeepTheirContract
<1>1. Sound(mem) => OperationsKeepTheirContract
  <2> SUFFICES ASSUME Sound(mem), NEW l \in Lists, Has(mem, l)
               PROVE  /\ OneListContract(l)
                      /\ \A k \in Lists \ {l} : IF Has(mem, k) THEN TwoListContract(l, k) ELSE NewListContract(l, k)
    BY DEF OperationsKeepTheirContract, Lives, Has
  <2>1. OneListContract(l)
    <3>1. PICK k \in Lists : k # l
      BY DEF Lists
    <3>2. \E c, d \in Seq(Node) : Rep(mem, l, c, k, d)
      BY <3>1, SoundElim
    <3> QED BY <3>2, OneListKept
  <2>2. ASSUME NEW k \in Lists \ {l}
        PROVE  IF Has(mem, k) THEN TwoListContract(l, k) ELSE NewListContract(l, k)
    <3>1. \E c, d \in Seq(Node) : Rep(mem, l, c, k, d)
      BY SoundElim
    <3> QED BY <3>1, TwoListsKept, NewListKept
  <2> QED BY <2>1, <2>2
<1> QED BY <1>1, SoundMemory, PTL
=============================================================================
