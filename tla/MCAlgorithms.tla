---------------------------- MODULE MCAlgorithms ----------------------------
(***************************************************************************)
(* The programs that compute one result from their arguments.  A state is  *)
(* a call of one of them on small arguments; each invariant compares what  *)
(* the programs of a family return with a reference definition.            *)
(***************************************************************************)
EXTENDS PublicKey, TLC

Cipher == INSTANCE Aes
Field2 == INSTANCE FieldContract WITH p <- 2
Field3 == INSTANCE FieldContract WITH p <- 3
Field5 == INSTANCE FieldContract WITH p <- 5
Machine == INSTANCE Processor WITH MAX_LABELS <- 2, MAX_INSTRUCTIONS <- 3, MEM_WORDS <- 8

VARIABLE call
vars == <<call>>

Prime(n) == n > 1 /\ \A i \in 2..(n - 1) : n % i # 0
OddPrimes(n) == {i \in 3..n : Prime(i)}
Bytes(n, a, b) == [i \in 1..n |-> (a * i + b) % 256]

MaxInteger == 36        \* of the operands of the arithmetic
MaxDigits == 4          \* of the binary strings
MaxModulus == 73        \* of the square roots
MaxTested == 190        \* of the primality tests
MaxGroup == 19          \* of the discrete logarithms
MaxExponent == 9        \* of the powers in a field
MaxBytes == 130         \* of the messages under a key of KEY_SIZE_BITS = 1024
-----------------------------------------------------------------------------
Idle == [family |-> "idle"]
Init == call = Idle

CallIntegers == call = Idle /\ \E a, b \in 0..MaxInteger : call' = [family |-> "integers", a |-> a, b |-> b]
CallStrings ==
    /\ call = Idle
    /\ \E m, n \in 0..MaxDigits : \E s \in [1..m -> {0, 1}], t \in [1..n -> {0, 1}] :
          call' = [family |-> "strings", s |-> s, t |-> t]
CallRoot ==
    call = Idle /\ \E q \in OddPrimes(MaxModulus) : \E a \in 0..(q - 1) : call' = [family |-> "root", q |-> q, a |-> a]
CallTest == call = Idle /\ \E n \in 0..MaxTested : call' = [family |-> "test", n |-> n]
CallLogarithm ==
    /\ call = Idle
    /\ \E q \in OddPrimes(MaxGroup) : \E g, h \in 1..(q - 1) :
          call' = [family |-> "logarithm", q |-> q, g |-> g, h |-> h]
CallRsa ==
    call = Idle /\ \E P, Q \in OddPrimes(23) : P # Q /\ call' = [family |-> "rsa", P |-> P, Q |-> Q]
CallSaltedRsa ==
    /\ call = Idle
    /\ \E bytes \in 0..MaxBytes, lead \in 0..7, bits \in {1023, 1024}, above \in BOOLEAN :
          call' = [family |-> "salted", message |-> [bytes |-> bytes, lead |-> lead],
                   N |-> [bits |-> bits, above |-> above]]
CallElgamal ==
    /\ call = Idle
    /\ \E q \in {7, 11, 13} : \E g \in 1..(q - 1), drawn \in 1..q :
          call' = [family |-> "elgamal", q |-> q, g |-> g, drawn |-> drawn]
CallAes ==
    /\ call = Idle
    /\ \E n \in {16, 20, 24, 32}, a \in {1, 37}, b \in {0, 11} :
          call' = [family |-> "aes", key |-> Bytes(n, a, b), block |-> Bytes(16, b, a)]
CallAttack == call = Idle /\ call' = [family |-> "attack", key |-> Bytes(16, 43, 7)]
CallTransform == call = Idle /\ \E v \in [1..8 -> {0, 1}] : call' = [family |-> "transform", v |-> v]
CallPolynomials ==
    /\ call = Idle
    /\ \/ \E A, B \in Field2!Polynomial(4) : call' = [family |-> "polynomials", p |-> 2, A |-> A, B |-> B]
       \/ \E A, B \in Field3!Polynomial(3) : call' = [family |-> "polynomials", p |-> 3, A |-> A, B |-> B]
       \/ \E A, B \in Field5!Polynomial(2) : call' = [family |-> "polynomials", p |-> 5, A |-> A, B |-> B]
(* X^3 + X + 1, X^2 + 1 and X^2 + 2 have no divisor over F_2, F_3 and F_5. *)
Modulus == [q \in {2, 3, 5} |-> IF q = 2 THEN <<1, 1, 0, 1>> ELSE IF q = 3 THEN <<1, 0, 1>> ELSE <<2, 0, 1>>]
CallField ==
    /\ call = Idle
    /\ \E e \in 0..MaxExponent :
          \/ \E x \in Field2!Polynomial(3) : call' = [family |-> "field", p |-> 2, x |-> x, e |-> e]
          \/ \E x \in Field3!Polynomial(2) : call' = [family |-> "field", p |-> 3, x |-> x, e |-> e]
          \/ \E x \in Field5!Polynomial(2) : call' = [family |-> "field", p |-> 5, x |-> x, e |-> e]
-----------------------------------------------------------------------------
(* Sources of at most three lines, or four of three kinds, on two registers and two words of data. *)
R(n) == [reg |-> n]
K(n) == [cst |-> n]
Label == [label |-> "L"]
Line ==
    {[op |-> "addi", args |-> <<R(1), R(1), K(5)>>], [op |-> "addi", args |-> <<R(2), R(1), K(-3)>>],
     [op |-> "subi", args |-> <<R(1), R(2), K(4)>>], [op |-> "div", args |-> <<R(2), R(1), R(2)>>],
     [op |-> "mul", args |-> <<R(1), R(1), R(1)>>], [op |-> "xor", args |-> <<R(2), R(1), R(2)>>],
     [op |-> "sw", args |-> <<R(1), K(20), R(0)>>], [op |-> "lw", args |-> <<R(2), K(15), R(1)>>],
     [op |-> "bne", args |-> <<R(1), R(2), [name |-> "L"]>>], [op |-> "blt", args |-> <<R(1), R(0), [name |-> "L"]>>],
     Label, [blank |-> TRUE]}
Short == {[op |-> "addi", args |-> <<R(1), R(1), K(5)>>], Label, [blank |-> TRUE]}
Source == UNION {[1..n -> Line] : n \in 0..3} \cup [1..4 -> Short]

CallProgram == call = Idle /\ \E s \in Source : call' = [family |-> "program", source |-> s]

Return == call # Idle /\ call' = Idle

Next ==
    \/ CallIntegers \/ CallStrings \/ CallRoot \/ CallTest \/ CallLogarithm
    \/ CallRsa \/ CallSaltedRsa \/ CallElgamal \/ CallAes \/ CallAttack \/ CallTransform
    \/ CallPolynomials \/ CallField \/ CallProgram \/ Return

Spec == Init /\ [][Next]_vars
-----------------------------------------------------------------------------
Family(f) == call.family = f

CommonDivisors(a, b) == {d \in 1..Larger(1, Larger(a, b)) : a % d = 0 /\ b % d = 0}
Gcd(a, b) == IF a = 0 /\ b = 0 THEN 0 ELSE Max(CommonDivisors(a, b))
IsBezout(e, a, b) == e.pgcd = Gcd(a, b) /\ e.x * a + e.y * b = e.pgcd
IsInverse(x, a, m) == IF Gcd(a, m) = 1 THEN x \in 0..(m - 1) /\ (a * x) % m = 1 ELSE x = -1
Value(s) == MapThenSumSet(LAMBDA i : s[i] * 2^(Len(s) - i), DOMAIN s)
Canonical(s) == Len(s) < 2 \/ s[1] = 1

(* Every version of Euclid's algorithm finds the greatest common divisor,  *)
(* also when the accelerated ones cross zero.  The extended ones find its  *)
(* coefficients and the inverses are inverses, for the arguments in any    *)
(* order; those of TD1 only for the larger argument first, and its Chinese *)
(* remainders are only known to be refused exactly when two moduli have a  *)
(* divisor in common (its header says more: see TD1InverseIsInverse and    *)
(* the two claims after it).  Karatsuba's products, with halves of         *)
(* different sizes, are products; and the operations on binary strings,    *)
(* empty or with leading zeros, are those on their values.                 *)
ArithmeticIsExact ==
    /\ Family("integers") =>
          LET a == call.a
              b == call.b
          IN  /\ {euclideStandard(a, -b), euclide_accelere(-a, b), algo_Euclide(a, b),
                   algo_Euclide_accelerer(a, b)} = {Gcd(a, b)}
              /\ \A e \in {euclideEtendu(a, b), euclideEtendu_RSA(a, b), euclide_etendu_TD6(a, b)} : IsBezout(e, a, b)
              /\ a # 0 /\ b # 0 => IsBezout(euclide_etendu_TD1(a, b), Larger(a, b), Smaller(a, b))
              /\ a > b /\ b > 1 => IsInverse(inverse_mod_TD1(a, b), a, b)
              /\ a > 1 /\ b > 1 => (solution_TR_Chinois(<<1, 2>>, <<a, b>>) = -1 <=> Gcd(a, b) # 1)
              /\ b > 1 => IsInverse(inverse_modulaire(a, b), a, b) /\ IsInverse(inverse_mod_TD6(a, b), a, b)
              /\ {karatsuba(a, b), karatsuba_TD1(a, b)} = {a * b}
    /\ Family("strings") =>
          LET s == call.s
              t == call.t
              Is(r, value) == Value(r) = value /\ Canonical(r)
          IN  /\ Is(addition_binaire(s, t), Value(s) + Value(t))
              /\ Is(multiplication_naive_binaire(s, t), Value(s) * Value(t))
              /\ IF Value(s) < Value(t) THEN soustraction_naive(s, t) = Null
                 ELSE Is(soustraction_naive(s, t), Value(s) - Value(t))
              /\ Value(soustraction_avec_cpmt_deux(s, t))
                     = (Value(s) - Value(t)) % 2^Larger(Len(s), Len(t))

(* Both square roots modulo a prime return a root of every square, and     *)
(* never one of another number; baby steps and giant steps find every      *)
(* logarithm that exists, whatever the number of baby steps; and Pollard's *)
(* walks, which may give up, never return a wrong one.                     *)
Generated(g, q) == {exponentiation_rapide_log(g, i, q) : i \in 0..(q - 2)}
SolversAreRight ==
    /\ Family("root") =>
          LET q == call.q
              a == call.a
              roots == {r \in 0..(q - 1) : (r * r) % q = a}
          IN  /\ symbole_legendre(a, q) = (IF a = 0 THEN 0 ELSE IF roots = {} THEN -1 ELSE 1)
              /\ algo_Shanks_Tonelli(a, q) \in (IF roots = {} THEN {-1} ELSE roots)
              /\ shanks_tonelli(a, q) \in (IF roots = {} THEN {0} ELSE roots)
    /\ Family("logarithm") =>
          LET q == call.q
              g == call.g
              h == call.h
              order == Cardinality(Generated(g, q))
              Is(x) == x >= 0 /\ exponentiation_rapide_log(g, x, q) = h
          IN  /\ \A t \in 1..5 :
                     LET x == compute_giant_step(h, t, g, order, q)
                     IN  IF h \in Generated(g, q) THEN Is(x) /\ x < order ELSE x = -1
              /\ \A x \in {attaque_Rho_Pollard(g, h, order, q), attaque_Rho_Pollard_TD6(g, h, q)} : x = -1 \/ Is(x)

(* No test refuses a prime, whatever it draws; the one for Mersenne's is   *)
(* right from the exponent 3 (it takes 1 and refuses 2); on a composite    *)
(* the rounds of Miller and Rabin are wrong for a quarter of the draws at  *)
(* most, and those of Solovay and Strassen for half.                       *)
Liars(n, Round(_, _)) == Cardinality({a \in Drawn(n) : Round(n, a)})
PrimesPass ==
    Family("test") =>
        LET n == call.n
        IN  /\ is_prime(n) <=> Prime(n)
            /\ n \in 3..15 => (is_mersenne_prime(n) <=> Prime(2^n - 1))
            /\ Prime(n) => is_prime_fermat(n) \cup is_prime_solovay_strasseu(n) \cup is_prime_miller_rabin(n) = {TRUE}
            /\ ~Prime(n) /\ n > 3 => 4 * Liars(n, MillerRound) <= n /\ 2 * Liars(n, SolovayRound) <= n

(* What is encrypted under a public key is decrypted by its private key:   *)
(* every message below the modulus for both RSA and for ElGamal whatever   *)
(* is drawn; every block for the three sizes of the keys of AES, any other *)
(* being refused.  Under the salt of rsa.c, whose length the receiver      *)
(* computes from its own 43 bytes and the sender from the message, the     *)
(* message comes out up to 113 bytes, and its file begins with it up to    *)
(* the 43 bytes the file has.                                              *)
DecryptionUndoesEncryption ==
    /\ Family("rsa") =>
          LET keys == generation_keys_RSA(call.P, call.Q)
          IN  keys # NoKeys =>
                 \A m \in 0..(keys.n - 1) : decryption_RSA(encryption_RSA(m, keys), keys) = m
    /\ Family("rsa") =>
          LET keys == keyGenRSA(call.P, call.Q)
          IN  keys # NoKeys => \A m \in 0..(keys.n - 1) : dechiffrer_RSA(chiffrer_RSA(m, keys.n), keys) = m
    /\ Family("elgamal") =>
          LET field == [q |-> call.q, generator |-> call.g]
              keys == generate_keys_Elgamal(field, call.drawn)
          IN  \A k \in 1..call.q, m \in 0..(call.q - 1) :
                 decryption_Elgamal(encryption_Elgamal(m, keys.public, field, k), keys.private, field) = m
    /\ Family("salted") =>
          LET M == call.message
              file == Dechiffre(M, call.N)
          IN  /\ M.bytes \in 1..113 => Descelle(M, call.N) = 0
              /\ M.bytes \in 1..43 => file.begins = M.bytes
              /\ M.bytes = 43 => file.bytes = M.bytes
    /\ Family("aes") =>
          LET c == Cipher!aes_encrypt(call.block, call.key)
          IN  IF Len(call.key) \in {16, 24, 32} THEN c # call.block /\ Cipher!aes_decrypt(c, call.key) = call.block
              ELSE c = Cipher!Unsupported /\ Cipher!aes_decrypt(call.block, call.key) = Cipher!Unsupported

(* The two libraries of finite fields, one with an extended Euclid and one *)
(* with Fermat's theorem for its inverses, keep FieldContract in F_2, F_3, *)
(* F_5 and the fields of 8, 9 and 25 elements; an older version of the     *)
(* first has the same sums and products.                                   *)
FieldLibrariesAgree ==
    /\ Family("polynomials") =>
          CASE call.p = 2 -> Field2!PolynomialsKeep(call.A, call.B) /\ Field2!TD2Keeps(call.A, call.B)
            [] call.p = 3 -> Field3!PolynomialsKeep(call.A, call.B) /\ Field3!TD2Keeps(call.A, call.B)
            [] call.p = 5 -> Field5!PolynomialsKeep(call.A, call.B) /\ Field5!TD2Keeps(call.A, call.B)
    /\ Family("field") =>
          CASE call.p = 2 -> Field2!FieldKeeps(call.x, call.e, Modulus[2])
            [] call.p = 3 -> Field3!FieldKeeps(call.x, call.e, Modulus[3])
            [] call.p = 5 -> Field5!FieldKeeps(call.x, call.e, Modulus[5])

(* The integral attack on 4 rounds finds the last round key from 512       *)
(* chosen messages, and the master key from it, laid out in columns.       *)
AttackFindsTheKey ==
    Family("attack") =>
        LET chiffres == Cipher!chiffre_gen_alea_messages(Cipher!gen_alea_messages(0), call.key)
            k4 == Cipher!trouver_integralite_de_k_4(chiffres, call.key)
            master == Cipher!trouver_cle_maitre(k4)
        IN  \A r, c \in 0..3 : master[4 * r + c + 1] = call.key[4 * c + r + 1]

(* The Moebius transform gives the coefficients of the algebraic normal    *)
(* form (the sum of the values below u) and is its own inverse; a row of   *)
(* the difference table counts each pair twice and sums to the size.       *)
Below(x, u) == \A i \in 0..2 : (x \div 2^i) % 2 <= (u \div 2^i) % 2
BooleanAnalysisIsRight ==
    Family("transform") =>
        LET a == Cipher!transfe_mobius(call.v, 3)
            d == Cipher!calcule_ddt(call.v)
        IN  /\ \A u \in 0..7 : a[u + 1] = MapThenSumSet(LAMBDA x : call.v[x + 1], {x \in 0..7 : Below(x, u)}) % 2
            /\ Cipher!transfe_mobius(a, 3) = call.v
            /\ \A x \in 1..7 : d.ddt[x][0] + d.ddt[x][1] = 8 /\ d.ddt[x][0] % 2 = 0 /\ d.ddt[x][0] <= d.max_delta

(* The tools of the analysis of block ciphers: the integral attack breaks  *)
(* four rounds, and the tables it could be compared with are exact.        *)
CryptanalysisIsRight == AttackFindsTheKey /\ BooleanAnalysisIsRight

-----------------------------------------------------------------------------
(* What the sources say of themselves and their programs do not do: each   *)
(* of these is violated (MCAlgorithms_claims.cfg).                         *)

(* A division of TD2 by a polynomial with a degree returns its result      *)
(* (operation_corps_finis.c:327-411).                                      *)
DivisionReturns ==
    Family("polynomials") =>
        CASE call.p = 2 -> Field2!TD2DivisionReturns(call.A, call.B)
          [] call.p = 3 -> Field3!TD2DivisionReturns(call.A, call.B)
          [] call.p = 5 -> Field5!TD2DivisionReturns(call.A, call.B)

(* The inverse of TD1 is one, or -1 (operations_binaires.h:101-106): the   *)
(* coefficient it takes is that of the larger argument, which a number     *)
(* below its modulus is not.                                               *)
TD1InverseIsInverse ==
    Family("integers") /\ call.a > 0 /\ call.b > 1 => IsInverse(inverse_mod_TD1(call.a, call.b), call.a, call.b)

(* The coefficients of TD1 come in the order of its arguments              *)
(* (operations_binaires.h:79-93, and the line 482 that prints them).       *)
TD1CoefficientsInOrder ==
    Family("integers") /\ call.a > 0 /\ call.b > 0 => IsBezout(euclide_etendu_TD1(call.a, call.b), call.a, call.b)

(* The Chinese remainders of TD1 solve the system                          *)
(* (operations_binaires.h:119-123).                                        *)
TD1RemaindersSolve ==
    Family("integers") /\ call.a > 1 /\ call.b > 1 /\ Gcd(call.a, call.b) = 1 =>
        LET x == solution_TR_Chinois(<<1, 2>>, <<call.a, call.b>>)
        IN  x % call.a = 1 % call.a /\ x % call.b = 2 % call.b

(* The decrypted file of rsa.c is the message it encrypted, "la taille     *)
(* originale du message" (rsa.c:325-332).                                  *)
FileIsTheMessage ==
    Family("salted") /\ Fits(call.message, 0, call.N) =>
        Dechiffre(call.message, call.N) = [bytes |-> call.message.bytes, begins |-> call.message.bytes]
-----------------------------------------------------------------------------
(* The meaning of a source: its instructions one after the other on        *)
(* registers and on a memory that the program is not part of.  A jump goes *)
(* to the first line after the label; one that has none does nothing.      *)
Code(s) == Machine!Instructions(s)
Labels(s) == {i \in DOMAIN s : Machine!IsLabel(s[i])}
Target(s) == Len(Code(SubSeq(s, 1, Min(Labels(s)))))

Means(m, s) ==
    LET line == Code(s)[m.pc + 1]
        reg(i) == m.R[line.args[i].reg]
        next == [m EXCEPT !.pc = @ + 1]
        set(v) == [next EXCEPT !.R[line.args[1].reg] = v]
        at(a) == IF a % 4 = 0 /\ a \in 0..31 THEN a \div 4 ELSE -1
        trunc(a, b) == IF b = 0 THEN 0 ELSE IF a * b < 0 THEN -(Abs(a) \div Abs(b)) ELSE Abs(a) \div Abs(b)
        goto(taken) == IF taken /\ Labels(s) # {} THEN [m EXCEPT !.pc = Target(s)] ELSE next
        halt == [m EXCEPT !.pc = Len(Code(s))]
    IN  IF m.pc >= Len(Code(s)) THEN m
        ELSE CASE line.op = "addi" -> set(reg(2) + line.args[3].cst)
               [] line.op = "subi" -> set(reg(2) - line.args[3].cst)
               [] line.op = "mul" -> set(reg(2) * reg(3))
               [] line.op = "div" -> set(trunc(reg(2), reg(3)))
               [] line.op = "xor" -> set(Machine!Xor(reg(2), reg(3)))
               [] line.op = "sw" -> [next EXCEPT !.data[at(reg(3) + line.args[2].cst)] = reg(1)]
               [] line.op = "lw" -> LET a == at(reg(3) + line.args[2].cst) IN IF a = -1 THEN halt ELSE set(m.data[a])
               [] line.op = "bne" -> goto(reg(1) # reg(2))
               [] line.op = "blt" -> goto(reg(1) < reg(2))

RECURSIVE Meaning(_, _, _)
Meaning(m, s, n) == IF n = 0 THEN m ELSE Meaning(Means(m, s), s, n - 1)

(* An assembled source that fits the tables leaves in the registers and in *)
(* the words after it what its instructions mean, for as many steps as it  *)
(* runs and past its end, where the memory is zeros and data; a source of  *)
(* too many rows or labels assembles to nothing.  The operations are those *)
(* on which the two programs agree about the codes.                        *)
ProgramsRunAsWritten ==
    Family("program") =>
        LET s == call.source
            words == Machine!second_pass(s)
            start == Machine!Loaded(words)
            source == [pc |-> 0, R |-> [r \in 0..2 |-> 0], data |-> start.mem]
            rows == Cardinality({i \in DOMAIN s : s[i] # [blank |-> TRUE]})
        IN  /\ rows > 3 \/ Cardinality(Labels(s)) > 2 => words = <<>>
            /\ words # <<>> =>
                  \A n \in {2, 4, 9} :
                     LET c == Machine!run(start, n)
                         m == Meaning(source, s, n)
                     IN  c.R[1] = m.R[1] /\ c.R[2] = m.R[2] /\ \A i \in 4..7 : c.mem[i] = m.data[i]
=============================================================================
