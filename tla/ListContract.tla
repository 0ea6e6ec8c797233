---------------------------- MODULE ListContract ----------------------------
(***************************************************************************)
(* What the library of lists promises (dlist.h): a list is a sequence, and *)
(* each operation one of the usual operations on sequences.                *)
(***************************************************************************)
EXTENDS Integers, Sequences, SequencesExt, FiniteSets

CONSTANTS Key,      \* what cmp compares of a value
          Mapped    \* the map_fn of dlist_map

Absent == <<"no list">>

Upto(s, i) == SubSeq(s, 1, i)
After(s, i) == SubSeq(s, i + 1, Len(s))

Insert(s, i, v) == Upto(s, i) \o <<v>> \o After(s, i)      \* after the first i values
Splice(s, i, t) == Upto(s, i) \o t \o After(s, i)
Removed(s, i) == Upto(s, i - 1) \o After(s, i)

(* The values that are kept, in order. *)
Chosen(s, keeps(_)) == FlattenSeq([i \in DOMAIN s |-> IF keeps(i) THEN <<s[i]>> ELSE <<>>])

(* One value of each run of equal ones, the first. *)
Deduplicated(s) == Chosen(s, LAMBDA i : i = 1 \/ Key[s[i]] # Key[s[i - 1]])

(* The place of s[i] in a stable sort: after the smaller values, and the   *)
(* equal ones that came before.                                            *)
Rank(s, i) ==
    LET before == {j \in DOMAIN s : Key[s[j]] < Key[s[i]] \/ (Key[s[j]] = Key[s[i]] /\ j <= i)}
    IN  Cardinality(before)
Sorted(s) == [r \in DOMAIN s |-> s[CHOOSE i \in DOMAIN s : Rank(s, i) = r]]

Without(s, k) == Chosen(s, LAMBDA i : Key[s[i]] # k)
Those(s, k) == Chosen(s, LAMBDA i : Key[s[i]] = k)
Image(s) == [i \in DOMAIN s |-> Mapped[s[i]]]
=============================================================================
