------------------------------ MODULE Transfer ------------------------------
(***************************************************************************)
(* What a download promises, without requests, retries, tokens or network: *)
(* each node of the tree is settled once, after the node that names it;    *)
(* the children of a big node one after the other; a chunk is appended to  *)
(* its file in the step that settles it, with the content asked for.       *)
(*                                                                         *)
(* Download implements this specification under the mapping given there.   *)
(***************************************************************************)
EXTENDS Sequences, Naturals

CONSTANTS Node, Roots, Kids, Kind, Path, Hash, Writable,
          Sequential   \* the kinds whose children are fetched in sequence

VARIABLES
    status,     \* Node -> "todo", "open", "done" or "lost"
    files       \* path -> what was appended to the file

vars == <<status, files>>

Settled(n) == status[n] \in {"done", "lost"}

Init ==
    /\ status = [n \in Node |-> "todo"]
    /\ files = [p \in {Path[n] : n \in Node} |-> <<>>]

(* n is named by a fetched node and, below a big node, its turn has come. *)
Named(n) ==
    \/ n \in Roots
    \/ \E m \in Node : \E k \in DOMAIN Kids[m] :
           /\ Kids[m][k] = n
           /\ IF Kind[m] \in Sequential
              THEN /\ status[m] = "open"
                   /\ \A j \in 1..(k - 1) : Settled(Kids[m][j])
              ELSE status[m] = "done"

Settle(n, s) == status' = [status EXCEPT ![n] = s]

(* The content of n has been received and verified. *)
Fetch(n) ==
    /\ status[n] = "todo"
    /\ Named(n)
    /\ Settle(n, IF Kind[n] \in Sequential THEN "open" ELSE "done")
    /\ files' = IF Kind[n] = "chunk" /\ Path[n] \in Writable
                THEN [files EXCEPT ![Path[n]] =
                          Append(@, [node |-> n, data |-> Hash[n]])]
                ELSE files

(* The last child of n is settled, received or not. *)
Close(n) ==
    /\ status[n] = "open"
    /\ \A k \in DOMAIN Kids[n] : Settled(Kids[n][k])
    /\ Settle(n, "done")
    /\ UNCHANGED files

(* The program gives up on n, and so on everything below it. *)
Lose(n) ==
    /\ status[n] = "todo"
    /\ Named(n)
    /\ Settle(n, "lost")
    /\ UNCHANGED files

Next == \E n \in Node : Fetch(n) \/ Close(n) \/ Lose(n)

Spec == Init /\ [][Next]_vars
=============================================================================
