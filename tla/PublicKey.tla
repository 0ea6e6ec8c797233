----------------------------- MODULE PublicKey ------------------------------
(***************************************************************************)
(* Public keys: RSA and ElGamal of the revision directory, on keys of any  *)
(* size, and the RSA of the presentation (rsa.c), which puts a random salt *)
(* under the message.  Files and GMP integers are the numbers they hold;   *)
(* random primes, exponents and salts are parameters.                      *)
(***************************************************************************)
EXTENDS Arithmetic

NoKeys == [n |-> 0]

(* d is the inverse of e modulo phi_n, or there are no keys. *)
generation_keys_RSA(P, Q) ==
    LET d == inverse_modulaire(65537, (P - 1) * (Q - 1))
    IN  IF d = -1 THEN NoKeys ELSE [n |-> P * Q, e |-> 65537, d |-> d]
encryption_RSA(message, keys) == exponentiation_rapide(message, keys.e, keys.n)
decryption_RSA(cipher, keys) == exponentiation_rapide(cipher, keys.d, keys.n)

(* A field of q elements with a generator; drawn is what random_prime_-    *)
(* number returns.                                                         *)
generate_keys_Elgamal(field, drawn) ==
    LET x == (drawn % (field.q - 1)) + 1
    IN  [private |-> x, public |-> exponentiation_rapide(field.generator, x, field.q)]

encryption_Elgamal(message, public, field, drawn) ==
    LET k == (drawn % (field.q - 1)) + 1
    IN  [gen_power_k |-> exponentiation_rapide(field.generator, k, field.q),
         cipher |-> multiplication_modulaire(message, exponentiation_rapide(public, k, field.q), field.q)]

decryption_Elgamal(c, private, field) ==
    LET inverse == inverse_modulaire(exponentiation_rapide(c.gen_power_k, private, field.q), field.q)
    IN  IF inverse = -1 THEN -1 ELSE multiplication_modulaire(c.cipher, inverse, field.q)
-----------------------------------------------------------------------------
(* rsa.c: N comes from two different primes p and q, and E has an inverse. *)
E_VAL == 3
keyGenRSA(P, Q) ==
    LET phi == (P - 1) * (Q - 1)
    IN  IF P = Q \/ phi % E_VAL = 0 \/ inverse_modulaire(E_VAL, phi) = -1 THEN NoKeys
        ELSE [n |-> P * Q, d |-> inverse_modulaire(E_VAL, phi)]
chiffrer_RSA(M, N) == exponentiation_rapide(M, E_VAL, N)
dechiffrer_RSA(C, keys) == exponentiation_rapide(C, keys.d, keys.n)

(* Its salted messages have the size of a real key, so that they are known *)
(* by what is left of them.  A message M is its number of bytes and of the *)
(* zero bits its first byte begins with; N is its number of bits, and      *)
(* whether it is above the numbers of its own length that it is compared   *)
(* with.  A number made of M is its shift s: M * 2^s + salt from 0 on,     *)
(* M \div 2^-s below 0, and nothing of M once all its bits are gone.       *)
Length(message, s) == 8 * message.bytes - message.lead + s
Fits(message, s, N) == Length(message, s) < N.bits \/ (Length(message, s) = N.bits /\ N.above)
Gone(message) == -8 * message.bytes

Unsigned(n) == IF n < 0 THEN 2^30 ELSE n        \* a difference of unsigned long: huge below 0

(* A mutant: a salt that takes all that is left free. *)
FreeSalt(N_bits, bytes) == Larger(1, N_bits - 8 * bytes)

(* The bits of the salt: what the message leaves free in N, and at most    *)
(* N_bits / E^2 - 2.                                                       *)
calculer_taille_sel(N_bits, bytes) ==
    LET free == Unsigned(N_bits - 8 * bytes)
        bound == Unsigned((N_bits \div (E_VAL * E_VAL)) - 2)
        m == IF free <= 1 THEN 1 ELSE Smaller(free, bound)
    IN  IF m = 0 THEN 1 ELSE m

(* M * 2^m + r is encrypted; C stays 0 when the message is too long. *)
conversion_message_chiffrement_alea(message, N) ==
    IF Fits(message, 0, N) THEN calculer_taille_sel(N.bits, message.bytes) ELSE Gone(message)

(* The private key gives back a number below N, and another one, its       *)
(* remainder, for a larger one.                                            *)
Decrypted(message, s, N) == IF Fits(message, s, N) THEN s ELSE Gone(message)

(* The receiver has not read the message: it takes for its length that of  *)
(* a sentence, "Hello World! C'est le message a restaurer." with its       *)
(* accent on two bytes.                                                    *)
TAILLE_MESSAGE_CLAIRE == 43
desceller_message(s, N, bytes) == s - calculer_taille_sel(N.bits, bytes)

(* A file of that many bytes, the first of which are those of the message  *)
(* if the shift is one of whole bytes: after them comes what malloc left   *)
(* there.  A number of more than one byte more is written past the buffer: *)
(* nothing is said of its file.                                            *)
exporter_message(message, s, bytes) ==
    [bytes |-> bytes,
     begins |-> IF s % 8 = 0 /\ Length(message, s) \in 1..(8 * (bytes + 1))
                THEN Smaller(bytes, message.bytes + (Smaller(s, 0) \div 8)) ELSE 0]

Descelle(message, N) ==
    desceller_message(Decrypted(message, conversion_message_chiffrement_alea(message, N), N), N, TAILLE_MESSAGE_CLAIRE)

(* The decryption mode of the program: the file it writes for a message    *)
(* that was encrypted under the same key.                                  *)
Dechiffre(message, N) == exporter_message(message, Descelle(message, N), TAILLE_MESSAGE_CLAIRE)
=============================================================================
