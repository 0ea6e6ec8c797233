----------------------------- MODULE Arithmetic -----------------------------
(***************************************************************************)
(* The programs of number theory: greatest common divisors, products,      *)
(* inverses, powers, square roots modulo a prime, tests of primality and   *)
(* discrete logarithms.  A loop is a recursive operator on its variables;  *)
(* what a program draws at random is a parameter of the round it is for.   *)
(***************************************************************************)
EXTENDS Integers, Sequences, SequencesExt, FiniteSets, FiniteSetsExt, Functions

Larger(m, n) == IF m < n THEN n ELSE m
Smaller(m, n) == IF m < n THEN m ELSE n
Abs(n) == IF n < 0 THEN -n ELSE n

(* The bits of n > 0: 32 - __builtin_clz(n). *)
RECURSIVE BitLength(_)
BitLength(n) == IF n = 0 THEN 0 ELSE 1 + BitLength(n \div 2)
-----------------------------------------------------------------------------
(* Greatest common divisors.  The C quotient truncates: the operands are   *)
(* not negative here, except in the accelerated version, which takes abs.  *)
RECURSIVE Standard(_, _)
Standard(r0, r1) == IF r1 = 0 THEN r0 ELSE Standard(r1, r0 % r1)
euclideStandard(a, b) == Standard(Abs(a), Abs(b))

(* The remainder nearest to zero, on either side. *)
RECURSIVE Nearest(_, _)
Nearest(r0, r1) ==
    IF r1 = 0 THEN r0 ELSE Nearest(r1, Smaller(r0 % r1, r1 - (r0 % r1)))
euclide_accelere(a, b) == Nearest(Abs(a), Abs(b))

RECURSIVE algo_Euclide(_, _)
algo_Euclide(a, b) ==
    IF a = 0 \/ b = 0 THEN a + b ELSE algo_Euclide(Smaller(a, b), Larger(a, b) % Smaller(a, b))

RECURSIVE algo_Euclide_accelerer(_, _)
algo_Euclide_accelerer(a, b) ==
    LET min == Smaller(a, b)
        reste == Larger(a, b) % min
    IN  IF a = 0 \/ b = 0 THEN a + b
        ELSE algo_Euclide_accelerer(min, Smaller(reste, min - reste))

(* An order of the updates that takes the new x1 for the old one. *)
RECURSIVE Overwritten(_, _, _, _, _, _)
Overwritten(r0, r1, x0, x1, y0, y1) ==
    IF r1 = 0 THEN [pgcd |-> r0, x |-> x0, y |-> y0]
    ELSE LET q == r0 \div r1 IN Overwritten(r1, r0 - q * r1, x0 - q * x1, x0 - q * x1, y1, y0 - q * y1)

(* The remainders r0, r1 are x * a + y * b. *)
RECURSIVE Bezout(_, _, _, _, _, _)
Bezout(r0, r1, x0, x1, y0, y1) ==
    IF r1 = 0 THEN [pgcd |-> r0, x |-> x0, y |-> y0]
    ELSE LET q == r0 \div r1
         IN  Bezout(r1, r0 - q * r1, x1, x0 - q * x1, y1, y0 - q * y1)

euclideEtendu(a, b) == Bezout(a, b, 1, 0, 0, 1)           \* of the exercises on complexity
euclideEtendu_RSA(a, b) == Bezout(a, b, 1, 0, 0, 1)
euclide_etendu_TD6(a, b) == Bezout(a, b, 1, 0, 0, 1)

(* TD1: the coefficients are those of the larger and of the smaller, and   *)
(* the smaller is not zero.                                                *)
euclide_etendu_TD1(a, b) == Bezout(Larger(a, b), Smaller(a, b), 1, 0, 0, 1)

inverse_modulaire(a, m) ==
    LET e == euclideEtendu_RSA(a, m) IN IF e.pgcd # 1 THEN -1 ELSE e.x % m

inverse_mod_TD6(a, m) ==
    LET e == euclide_etendu_TD6(a % m, m) IN IF e.pgcd # 1 THEN -1 ELSE e.x % m

(* x is taken for the coefficient of a even when a is the smaller. *)
inverse_mod_TD1(a, m) ==
    LET e == euclide_etendu_TD1(a, m)
    IN  IF e.pgcd # 1 THEN -1 ELSE IF e.x < 0 THEN e.x + m ELSE e.x

(* The system x = a[i] mod n[i], for n[i] > 1. *)
solution_TR_Chinois(a, n) ==
    LET N == FoldFunction(LAMBDA x, y : x * y, 1, n)
        term(i) == (a[i] % n[i]) * (N \div n[i]) * inverse_mod_TD1((N \div n[i]) % n[i], n[i])
    IN  IF \E i, j \in DOMAIN n : i < j /\ algo_Euclide_accelerer(n[i], n[j]) # 1 THEN -1
        ELSE FoldFunction(+, 0, [i \in DOMAIN n |-> term(i)]) % N

(* Three products of halves; the lower half has k \div 2 bits, k the bits  *)
(* of the larger.                                                          *)
split_entier(a, k) == [high |-> a \div 2^(k \div 2), low |-> a % 2^(k \div 2)]

RECURSIVE karatsuba(_, _)
karatsuba(a, b) ==
    LET k == BitLength(Larger(a, b))
        m == k \div 2
        s == split_entier(a, k)
        t == split_entier(b, k)
        high == karatsuba(s.high, t.high)
        low == karatsuba(s.low, t.low)
        middle == karatsuba(s.high + s.low, t.high + t.low) - high - low
    IN  CASE a = 0 \/ b = 0 -> 0
          [] a = 1 /\ b # 0 -> b
          [] b = 1 /\ a > 1 -> a
          [] OTHER -> high * 2^(2 * m) + middle * 2^m + low

karatsuba_TD1(a, b) == karatsuba(a, b)          \* k = 1 is met by the cases of 0 and 1
-----------------------------------------------------------------------------
(* Powers, symbols and square roots. *)
multiplication_modulaire(a, b, m) == (a * b) % m

RECURSIVE Raised(_, _, _, _)
Raised(result, base, e, m) ==
    IF e = 0 THEN result
    ELSE Raised(IF e % 2 = 1 THEN multiplication_modulaire(result, base, m) ELSE result,
                multiplication_modulaire(base, base, m), e \div 2, m)
exponentiation_rapide(base, e, m) == Raised(1, base % m, e, m)
exponentiation_rapide_TP1(base, e, m) == Raised(1, base % m, e, m)
exponentiation_rapide_log(base, e, m) == Raised(1, base % m, e, m)

RECURSIVE symbole_legendre(_, _)
symbole_legendre(n, q) ==
    LET a == n % q
    IN  CASE a = 1 -> 1
          [] a = 0 -> 0
          [] a = 2 -> IF q % 8 \in {1, 7} THEN 1 ELSE -1
          [] a > 2 /\ a = q - 1 /\ q % 2 = 1 -> IF q % 4 = 1 THEN 1 ELSE -1
          [] a > 2 /\ a % 2 = 0 /\ (a # q - 1 \/ q % 2 = 0) ->
                 symbole_legendre(a \div 2, q) * symbole_legendre(2, q)
          [] OTHER -> symbole_legendre(q % a, a) * (IF a % 4 = 3 /\ q % 4 = 3 THEN -1 ELSE 1)

(* n = t * 2^s, t odd. *)
RECURSIVE Dyadic(_, _)
Dyadic(t, s) == IF t % 2 = 1 THEN [t |-> t, s |-> s] ELSE Dyadic(t \div 2, s + 1)

(* The squarings that take t to 1, at most m of them. *)
RECURSIVE Squarings(_, _, _, _)
Squarings(t, k, m, q) == IF t = 1 \/ k = m THEN k ELSE Squarings((t * t) % q, k + 1, m, q)

trouver_non_residu(q) == Min({i \in 2..(q - 1) : symbole_legendre(i, q) = -1})

(* r^2 = a * t in every turn, and the order of t divides 2^(m - 1). *)
RECURSIVE Refined(_, _, _, _, _)
Refined(r, t, b, m, q) ==
    LET k == Squarings(t, 0, m, q)
        L == exponentiation_rapide(b, 2^(m - k - 1), q)
        c == (L * L) % q
    IN  IF t = 1 THEN r ELSE IF k = m THEN -1 ELSE Refined((r * L) % q, (t * c) % q, c, k, q)

algo_Shanks_Tonelli(a, q) ==
    LET d == Dyadic(q - 1, 0)
    IN  CASE a % q = 0 -> 0
          [] a % q # 0 /\ symbole_legendre(a, q) # 1 -> -1
          [] OTHER -> Refined(exponentiation_rapide(a, (d.t + 1) \div 2, q),
                              exponentiation_rapide(a, d.t, q),
                              exponentiation_rapide(trouver_non_residu(q), d.t, q), d.s, q)

(* TP1: Euler's criterion, a shortcut for q = 3 mod 4; 0 is "no root". *)
shanks_tonelli(a, q) ==
    LET d == Dyadic(q - 1, 0)
        power(x, e) == exponentiation_rapide_TP1(x, e, q)
        z == Min({i \in 2..(q - 1) : power(i, (q - 1) \div 2) = q - 1})
    IN  CASE q = 2 -> a % 2
          [] q > 2 /\ power(a, (q - 1) \div 2) # 1 -> 0
          [] q % 4 = 3 /\ power(a, (q - 1) \div 2) = 1 -> power(a, (q + 1) \div 4)
          [] OTHER -> Refined(power(a, (d.t + 1) \div 2), power(a, d.t), power(z, d.t), d.s, q)
-----------------------------------------------------------------------------
(* Tests of primality.  For n > 3 a test is k rounds, each with an a drawn *)
(* from 2..(n - 2); it answers false at the first round that refuses.      *)
Drawn(n) == 2..(n - 2)
Outcomes(n, Round(_, _)) ==     \* what a test with at least one round may answer
    IF n <= 1 THEN {FALSE} ELSE IF n <= 3 THEN {TRUE} ELSE {Round(n, a) : a \in Drawn(n)}

FermatRound(n, a) == exponentiation_rapide(a, n - 1, n) = 1
is_prime_fermat(n) == Outcomes(n, FermatRound)

SolovayRound(n, a) ==
    /\ euclideEtendu(a, n).pgcd = 1
    /\ (symbole_legendre(a, n) + n) % n = exponentiation_rapide(a, (n - 1) \div 2, n)
is_prime_solovay_strasseu(n) == Outcomes(n, SolovayRound)

decompose(n) == IF n <= 1 THEN [t |-> n - 1, s |-> 0] ELSE Dyadic(n - 1, 0)

(* x is squared until it is -1, at most s - 1 times; a loop that squares   *)
(* before it looks misses the first -1.                                    *)
MillerRoundSquaring(n, a) ==
    LET d == decompose(n)
        x(i) == exponentiation_rapide(a, d.t * 2^i, n)
    IN  /\ euclideEtendu(a, n).pgcd = 1
        /\ x(0) = 1 \/ \E i \in 1..(d.s - 1) : x(i) = n - 1

MillerRound(n, a) ==
    LET d == decompose(n)
        x(i) == exponentiation_rapide(a, d.t * 2^i, n)
    IN  /\ euclideEtendu(a, n).pgcd = 1
        /\ x(0) = 1 \/ \E i \in 0..(d.s - 1) : x(i) = n - 1
is_prime_miller_rabin(n) == Outcomes(n, MillerRound)

RECURSIVE LucasLehmer(_, _, _)
LucasLehmer(S, turns, M) == IF turns <= 0 THEN S ELSE LucasLehmer((S * S - 2) % M, turns - 1, M)
is_mersenne_prime(e) == e >= 1 /\ (e = 1 \/ LucasLehmer(4, e - 2, 2^e - 1) = 0)

is_prime(n) == n > 1 /\ \A i \in 2..(n - 1) : i * i <= n => n % i # 0
-----------------------------------------------------------------------------
(* Discrete logarithms: x with gen^x = elem modulo m, in a group of the    *)
(* given order.  The baby steps are in a table of 2t entries with linear   *)
(* probing.                                                                *)
Empty == [key |-> -1]

RECURSIVE Probe(_, _, _)
Probe(table, i, key) ==         \* the entry of key, or the first free one
    IF table[i].key \in {-1, key} THEN i ELSE Probe(table, (i + 1) % Cardinality(DOMAIN table), key)

RECURSIVE FirstFree(_, _)
FirstFree(table, i) ==
    IF table[i].key = -1 THEN i ELSE FirstFree(table, (i + 1) % Cardinality(DOMAIN table))

RECURSIVE BabySteps(_, _, _, _, _, _)
BabySteps(table, value, i, t, gen, m) ==
    IF i = t THEN table
    ELSE BabySteps([table EXCEPT ![FirstFree(table, value % (2 * t))] = [key |-> value, exponent |-> i]],
                   (value * gen) % m, i + 1, t, gen, m)
compute_baby_steps(t, gen, m) == BabySteps([i \in 0..(2 * t - 1) |-> Empty], 1, 0, t, gen, m)

LastFullStep(order, t) == order \div t - 1        \* what q < order / t would do
LastGiantStep(order, t) == order \div t + 1

RECURSIVE GiantSteps(_, _, _, _, _, _, _)
GiantSteps(table, gamma, q, t, step, order, m) ==
    LET e == table[Probe(table, gamma % (2 * t), gamma)]
    IN  IF q > LastGiantStep(order, t) THEN -1
        ELSE IF e.key = gamma THEN (q * t + e.exponent) % order
        ELSE GiantSteps(table, (gamma * step) % m, q + 1, t, step, order, m)
compute_giant_step(elem, t, gen, order, m) ==
    GiantSteps(compute_baby_steps(t, gen, m), elem % m, 0, t,
               inverse_modulaire(exponentiation_rapide(gen, t, m), m), order, m)

decompose_x(x, t) == [q |-> x \div t, r |-> x % t]      \* x is not negative

(* Pollard's rho: y = gen^alpha * elem^beta walks by its class modulo 3. *)
fonction_pseudo_aleatoire(s, gen, elem, order, m) ==
    CASE s.y % 3 = 0 -> [y |-> (s.y * s.y) % m, alpha |-> (2 * s.alpha) % order, beta |-> (2 * s.beta) % order]
      [] s.y % 3 = 1 -> [s EXCEPT !.y = (elem * @) % m, !.beta = (@ + 1) % order]
      [] s.y % 3 = 2 -> [s EXCEPT !.y = (gen * @) % m, !.alpha = (@ + 1) % order]

Etat == [y |-> 1, alpha |-> 0, beta |-> 0]

RECURSIVE Met(_, _, _, _, _, _)
Met(slow, fast, gen, elem, order, m) ==     \* Floyd: one step and two until they agree
    LET f(e) == fonction_pseudo_aleatoire(e, gen, elem, order, m)
        s == f(slow)
        d == f(f(fast))
    IN  IF s.y = d.y THEN <<s, d>> ELSE Met(s, d, gen, elem, order, m)

attaque_Rho_Pollard(gen, elem, order, m) ==
    LET pair == Met(Etat, Etat, gen, elem, order, m)
        diff_beta == (pair[1].beta - pair[2].beta) % order
        diff_alpha == (pair[2].alpha - pair[1].alpha) % order
        d == euclideEtendu_RSA(diff_beta, order).pgcd
        part == order \div d
        x0 == ((diff_alpha \div d) * inverse_modulaire(diff_beta \div d, part)) % part
        good == {k \in 0..(d - 1) : exponentiation_rapide(gen, x0 + k * part, m) = elem}
    IN  IF diff_alpha % d # 0 \/ good = {} THEN -1 ELSE x0 + Min(good) * part

(* TD6: the exponents modulo m - 1, a first step before the loop, and no   *)
(* second try when the difference has no inverse.                          *)
fonction_pseudo_aleatoire_TD6(s, gen, elem, m) == fonction_pseudo_aleatoire(s, gen, elem, m - 1, m)

attaque_Rho_Pollard_TD6(gen, elem, m) ==
    LET f(s) == fonction_pseudo_aleatoire_TD6(s, gen, elem, m)
        pair == Met(f(Etat), f(f(Etat)), gen, elem, m - 1, m)
        inverse == inverse_mod_TD6(pair[1].beta - pair[2].beta, m - 1)
    IN  IF inverse = -1 THEN -1 ELSE ((pair[2].alpha - pair[1].alpha) * inverse) % (m - 1)
-----------------------------------------------------------------------------
(* Integers written as strings of binary digits, most significant first,   *)
(* and the schoolbook operations on them (operations_binaires.c).  A       *)
(* string is a sequence of bits, possibly empty or with leading zeros.     *)
Null == <<-1>>          \* the NULL of a function that fails
Longest(s, t) == Larger(Len(s), Len(t))
Zeros(n) == [i \in 1..n |-> 0]
Bit(s, i) == IF i < Len(s) THEN s[Len(s) - i] ELSE 0            \* of weight 2^i
Written(n, bit(_)) == [k \in 1..n |-> bit(n - k)]               \* n bits, bit(i) of weight 2^i

(* Leading zeros are skipped while another digit follows. *)
Stripped(s) ==
    LET ones == {i \in DOMAIN s : s[i] = 1}
    IN  IF s = <<>> THEN s ELSE SubSeq(s, Min(ones \cup {Len(s)}), Len(s))

(* The last carry is dropped. *)
AdditionWithoutCarry(s, t) ==
    LET carry[i \in Nat] == IF i = 0 THEN 0 ELSE (Bit(s, i - 1) + Bit(t, i - 1) + carry[i - 1]) \div 2
    IN  Stripped(Written(Longest(s, t), LAMBDA i : (Bit(s, i) + Bit(t, i) + carry[i]) % 2))

addition_binaire(s, t) ==
    LET n == Longest(s, t)
        carry[i \in Nat] == IF i = 0 THEN 0 ELSE (Bit(s, i - 1) + Bit(t, i - 1) + carry[i - 1]) \div 2
    IN  Stripped(Written(n + carry[n], LAMBDA i : (Bit(s, i) + Bit(t, i) + carry[i]) % 2))

(* The last w digits, or zeros on the left. *)
padding_left(s, w) == Written(w, LAMBDA i : Bit(s, i))

(* Inverted and incremented within w digits; the carry out is dropped. *)
complement_a_deux(s, w) ==
    padding_left(addition_binaire(Written(w, LAMBDA i : 1 - Bit(s, i)), <<1>>), w)

soustraction_avec_cpmt_deux(s, t) ==
    LET w == Longest(s, t)
    IN  padding_left(addition_binaire(padding_left(s, w), complement_a_deux(padding_left(t, w), w)), w)

soustraction_naive(s, t) ==
    LET n == Longest(s, t)
        borrow[i \in Nat] ==
            IF i = 0 THEN 0 ELSE IF Bit(s, i - 1) - Bit(t, i - 1) - borrow[i - 1] < 0 THEN 1 ELSE 0
    IN  IF borrow[n] = 1 THEN Null
        ELSE Stripped(Written(n, LAMBDA i : (Bit(s, i) - Bit(t, i) - borrow[i]) % 2))

(* s is added with i zeros behind it for each digit 1 of weight i in t. *)
multiplication_naive_binaire(s, t) ==
    IF s = <<>> \/ t = <<>> THEN <<0>>
    ELSE FoldLeft(LAMBDA sum, i : IF Bit(t, i) = 1 THEN addition_binaire(sum, s \o Zeros(i)) ELSE sum,
                  <<0>>, [i \in 1..Len(t) |-> i - 1])
=============================================================================
