----------------------------- MODULE MCSession ------------------------------
(* Two logins for Session. *)
EXTENDS Session
CONSTANTS loginA, loginB, logout, page, click
Names == [q \in Login |-> IF q = loginA THEN "anna" ELSE "robert"]
=============================================================================
