--------------------------- MODULE MCAuthenticator --------------------------
(* Messages of three bytes, a counter of two digits, for Authenticator.    *)
EXTENDS Authenticator

(* The second identifier holds a byte equal to the command. *)
Two == <<<<7, 8>>, <<1, 7>>>>
(* One identifier registered again after another one. *)
Again == <<<<7, 8>>, <<1, 7>>, <<7, 8>>, <<8, 8>>>>
(* An identifier with a byte equal to EMPTY_VALUE. *)
Full == <<<<7, 255>>>>
One == <<<<7, 8>>>>
=============================================================================
