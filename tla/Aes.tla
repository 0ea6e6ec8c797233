-------------------------------- MODULE Aes ---------------------------------
(***************************************************************************)
(* The block cipher of aes.c, with 4 rounds for keys of 128 bits, the      *)
(* integral attack on these 4 rounds (attaque_integrale.c), and the two    *)
(* programs on Boolean functions (calcul_ddt.c, transforme_Mobius.c).  A   *)
(* block is the sequence of its 16 bytes in memory: byte r + 4c + 1 is     *)
(* state[r][c], and tab[c][r] of a message.                                *)
(***************************************************************************)
EXTENDS Integers, Sequences, SequencesExt, FiniteSets, FiniteSetsExt

Byte == 0..255

(* Exclusive or of bytes, by a table for its two halves. *)
XorHalf ==
    [a \in 0..15 |-> [b \in 0..15 |->
        MapThenSumSet(LAMBDA i : IF (a \div 2^i + b \div 2^i) % 2 = 1 THEN 2^i ELSE 0, 0..3)]]
a ^^ b == (16 * XorHalf[a \div 16][b \div 16]) + XorHalf[a % 16][b % 16]

(* Of a sequence of bytes: bit i is set when an odd number of them have it.*)
XorAll(s) ==
    MapThenSumSet(LAMBDA i : 2^i * (Cardinality({k \in DOMAIN s : (s[k] \div 2^i) % 2 = 1}) % 2), 0..7)
XorWord(v, w) == <<v[1] ^^ w[1], v[2] ^^ w[2], v[3] ^^ w[3], v[4] ^^ w[4]>>

(* Of 16 bytes, from 0; the empty sequence has TLC compute them at once. *)
Block(byte(_)) == [i \in 1..16 |-> byte(i - 1)] \o <<>>

sbox == <<
    99, 124, 119, 123, 242, 107, 111, 197, 48, 1, 103, 43, 254, 215, 171, 118, 202, 130, 201, 125, 250,
    89, 71, 240, 173, 212, 162, 175, 156, 164, 114, 192, 183, 253, 147, 38, 54, 63, 247, 204, 52, 165,
    229, 241, 113, 216, 49, 21, 4, 199, 35, 195, 24, 150, 5, 154, 7, 18, 128, 226, 235, 39, 178, 117,
    9, 131, 44, 26, 27, 110, 90, 160, 82, 59, 214, 179, 41, 227, 47, 132, 83, 209, 0, 237, 32, 252,
    177, 91, 106, 203, 190, 57, 74, 76, 88, 207, 208, 239, 170, 251, 67, 77, 51, 133, 69, 249, 2, 127,
    80, 60, 159, 168, 81, 163, 64, 143, 146, 157, 56, 245, 188, 182, 218, 33, 16, 255, 243, 210, 205,
    12, 19, 236, 95, 151, 68, 23, 196, 167, 126, 61, 100, 93, 25, 115, 96, 129, 79, 220, 34, 42, 144,
    136, 70, 238, 184, 20, 222, 94, 11, 219, 224, 50, 58, 10, 73, 6, 36, 92, 194, 211, 172, 98, 145,
    149, 228, 121, 231, 200, 55, 109, 141, 213, 78, 169, 108, 86, 244, 234, 101, 122, 174, 8, 186, 120,
    37, 46, 28, 166, 180, 198, 232, 221, 116, 31, 75, 189, 139, 138, 112, 62, 181, 102, 72, 3, 246, 14,
    97, 53, 87, 185, 134, 193, 29, 158, 225, 248, 152, 17, 105, 217, 142, 148, 155, 30, 135, 233, 206,
    85, 40, 223, 140, 161, 137, 13, 191, 230, 66, 104, 65, 153, 45, 15, 176, 84, 187, 22>>

rsbox == <<
    82, 9, 106, 213, 48, 54, 165, 56, 191, 64, 163, 158, 129, 243, 215, 251, 124, 227, 57, 130, 155,
    47, 255, 135, 52, 142, 67, 68, 196, 222, 233, 203, 84, 123, 148, 50, 166, 194, 35, 61, 238, 76,
    149, 11, 66, 250, 195, 78, 8, 46, 161, 102, 40, 217, 36, 178, 118, 91, 162, 73, 109, 139, 209, 37,
    114, 248, 246, 100, 134, 104, 152, 22, 212, 164, 92, 204, 93, 101, 182, 146, 108, 112, 72, 80, 253,
    237, 185, 218, 94, 21, 70, 87, 167, 141, 157, 132, 144, 216, 171, 0, 140, 188, 211, 10, 247, 228,
    88, 5, 184, 179, 69, 6, 208, 44, 30, 143, 202, 63, 15, 2, 193, 175, 189, 3, 1, 19, 138, 107, 58,
    145, 17, 65, 79, 103, 220, 234, 151, 242, 207, 206, 240, 180, 230, 115, 150, 172, 116, 34, 231,
    173, 53, 133, 226, 249, 55, 232, 28, 117, 223, 110, 71, 241, 26, 113, 29, 41, 197, 137, 111, 183,
    98, 14, 170, 24, 190, 27, 252, 86, 62, 75, 198, 210, 121, 32, 154, 219, 192, 254, 120, 205, 90,
    244, 31, 221, 168, 51, 136, 7, 199, 49, 177, 18, 16, 89, 39, 128, 236, 95, 96, 81, 127, 169, 25,
    181, 74, 13, 45, 229, 122, 159, 147, 201, 156, 239, 160, 224, 59, 77, 174, 42, 245, 176, 200, 235,
    187, 60, 131, 83, 153, 97, 23, 43, 4, 126, 186, 119, 214, 38, 225, 105, 20, 99, 85, 33, 12, 125>>

rcon == <<0, 1, 2, 4, 8, 16, 32, 64, 128, 27, 54>>      \* as many as the keys need

S(b) == sbox[b + 1]
InvS(b) == rsbox[b + 1]
-----------------------------------------------------------------------------
word_rotate_left(w) == <<w[2], w[3], w[4], w[1]>>
Substituted(w) == <<S(w[1]), S(w[2]), S(w[3]), S(w[4])>>
key_schedule_core(w, iteration) ==
    XorWord(Substituted(word_rotate_left(w)), <<rcon[iteration + 1], 0, 0, 0>>)

(* The key has nk words; n are wanted. *)
RECURSIVE Expanded(_, _, _)
Expanded(words, nk, n) ==
    LET i == Len(words)
        temp == CASE i % nk = 0 -> key_schedule_core(words[i], i \div nk)
                  [] nk = 8 /\ i % nk = 4 -> Substituted(words[i])
                  [] OTHER -> words[i]
    IN  IF i >= n THEN words ELSE Expanded(Append(words, XorWord(words[i + 1 - nk], temp)), nk, n)

aes_expand_key(key, n) ==
    Expanded([i \in 1..(Len(key) \div 4) |-> SubSeq(key, 4 * i - 3, 4 * i)], Len(key) \div 4, n)

sub_bytes(s) == Block(LAMBDA i : S(s[i + 1]))
inv_sub_bytes(s) == Block(LAMBDA i : InvS(s[i + 1]))

(* Row r moves by k * r columns. *)
Shifted(s, k) == Block(LAMBDA i : s[(i % 4) + 4 * ((i \div 4 + k * (i % 4)) % 4) + 1])
shift_rows(s) == Shifted(s, 1)
inv_shift_rows(s) == Shifted(s, -1)

RECURSIVE Product(_, _, _)
Product(a, b, i) ==
    IF i = 8 THEN 0
    ELSE (IF b % 2 = 1 THEN a ELSE 0)
         ^^ Product(((2 * a) % 256) ^^ (IF a >= 128 THEN 27 ELSE 0), b \div 2, i + 1)
galois_mul(a, b) == Product(a, b, 0)

(* Each column times the circulant of first row m. *)
Mixed(s, m) ==
    LET cell(r, c) == XorAll([k \in 1..4 |-> galois_mul(s[k + 4 * c], m[((k - 1 - r) % 4) + 1])] \o <<>>)
    IN  Block(LAMBDA i : cell(i % 4, i \div 4))
mix_columns(s) == Mixed(s, <<2, 3, 1, 1>>)
inv_mix_columns_transposed(s) == Mixed(s, <<14, 9, 13, 11>>)     \* a column read as a row
inv_mix_columns(s) == Mixed(s, <<14, 11, 13, 9>>)

add_round_key(s, words, round) ==
    Block(LAMBDA i : s[i + 1] ^^ words[4 * round + (i \div 4) + 1][(i % 4) + 1])

(* Asking for its length has TLC compute a block before the next turn. *)
RECURSIVE Encrypted(_, _, _, _)
Encrypted(s, words, i, n) ==
    IF i = n \/ Len(s) # 16 THEN s
    ELSE Encrypted(add_round_key(mix_columns(shift_rows(sub_bytes(s))), words, i), words, i + 1, n)

cipher_encrypt_block(s, words, n) ==
    LET mixed == Encrypted(add_round_key(s, words, 0), words, 1, n)
    IN  add_round_key(shift_rows(sub_bytes(mixed)), words, n)

RECURSIVE Decrypted(_, _, _)
Decrypted(s, words, i) ==
    IF i = 0 \/ Len(s) # 16 THEN s
    ELSE Decrypted(inv_mix_columns(add_round_key(inv_sub_bytes(inv_shift_rows(s)), words, i)), words, i - 1)

cipher_decrypt_block(s, words, n) ==
    LET mixed == Decrypted(add_round_key(s, words, n), words, n - 1)
    IN  add_round_key(inv_sub_bytes(inv_shift_rows(mixed)), words, 0)

Unsupported == <<>>
Rounds(key) == CASE Len(key) = 16 -> 4 [] Len(key) = 24 -> 12 [] Len(key) = 32 -> 14 [] OTHER -> 0

aes_encrypt(block, key) ==
    LET n == Rounds(key)
    IN  IF n = 0 THEN Unsupported ELSE cipher_encrypt_block(block, aes_expand_key(key, 4 * (n + 1)), n)
aes_decrypt(block, key) ==
    LET n == Rounds(key)
    IN  IF n = 0 THEN Unsupported ELSE cipher_decrypt_block(block, aes_expand_key(key, 4 * (n + 1)), n)
-----------------------------------------------------------------------------
(* The attack: 256 messages that differ in one byte only, their ciphers    *)
(* under the key, and the last round key byte by byte.                     *)
gen_alea_messages(constante) == [i \in 1..256 |-> <<i - 1>> \o [j \in 1..15 |-> constante]]
chiffre_gen_alea_messages(messages, key) == [i \in DOMAIN messages |-> aes_encrypt(messages[i], key)] \o <<>>

(* The bytes for which the column before the last substitution sums to 0. *)
trouver_4_ieme_cle_octet_octet(chiffres, i) ==
    {k \in Byte : XorAll([c \in DOMAIN chiffres |-> InvS(k ^^ chiffres[c][i])] \o <<>>) = 0}

intersection_deux_ensemble(P, Q) == P \cap Q

NoKey == <<-1>>

(* Other messages are encrypted when the first ones leave several          *)
(* candidates; no candidate is a NULL, and so is an intersection of        *)
(* another size than 1.                                                    *)
trouver_integralite_de_k_4(chiffres, key) ==
    LET first == [i \in 1..16 |-> trouver_4_ieme_cle_octet_octet(chiffres, i)] \o <<>>
        others == chiffre_gen_alea_messages(gen_alea_messages(1), key)
        left(i) == IF Cardinality(first[i]) = 1 THEN first[i]
                   ELSE intersection_deux_ensemble(first[i], trouver_4_ieme_cle_octet_octet(others, i))
        found == [i \in 1..16 |-> left(i)] \o <<>>
    IN  IF \E i \in 1..16 : Cardinality(found[i]) # 1 THEN NoKey
        ELSE [i \in 1..16 |-> CHOOSE k \in found[i] : TRUE]

calculer_core_from_zero(w, iteration) == key_schedule_core(w, iteration - 1)
calculer_core_inverse(w, iteration) == key_schedule_core(w, iteration)

(* The words 16..19 are the rows of K_4, each other word is found from the *)
(* third and the fourth after it; the words 0..3 are columns of the result.*)
trouver_cle_maitre(k4) ==
    LET w[i \in 0..19] ==
            IF i >= 16 THEN SubSeq(k4, 4 * i - 63, 4 * i - 60)
            ELSE XorWord(w[i + 4], IF i % 4 = 0 THEN calculer_core_inverse(w[i + 3], i \div 4 + 1) ELSE w[i + 3])
    IN  Block(LAMBDA i : w[i % 4][(i \div 4) + 1])
-----------------------------------------------------------------------------
(* The table of calcul_ddt.c has 0x19 where sbox has 0xf9. *)
Sbox == [sbox EXCEPT ![106] = 25]

calcule_ddt(table) ==
    LET X == 0..(Len(table) - 1)
        ddt == [a \in X |-> [d \in X |-> Cardinality({x \in X : table[x + 1] ^^ table[(x ^^ a) + 1] = d})]]
    IN  [ddt |-> ddt, max_delta |-> Max({ddt[a][d] : a \in X \ {0}, d \in X})]

(* In step k the right half of every block of 2^k adds the left one. *)
Step(u, k, n) ==
    [x \in 1..2^n |-> IF ((x - 1) \div 2^(k - 1)) % 2 = 1 THEN (u[x - 2^(k - 1)] + u[x]) % 2 ELSE u[x]] \o <<>>
transfe_mobius_short(v, n) == FoldLeft(LAMBDA u, k : Step(u, k, n), v, [k \in 1..(n - 1) |-> k])
transfe_mobius(v, n) == FoldLeft(LAMBDA u, k : Step(u, k, n), v, [k \in 1..n |-> k])
=============================================================================
