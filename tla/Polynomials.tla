---------------------------- MODULE Polynomials -----------------------------
(***************************************************************************)
(* Polynomials over F_p and the field F_p[X]/(f), as operations_corps_-    *)
(* finis.c of the revision directory computes them.  A field_F_q is the    *)
(* sequence of its coefficients, from the constant one to that of degree   *)
(* deg: the array beyond deg is zero and the size n is not modelled.       *)
(***************************************************************************)
EXTENDS Integers, Sequences, FiniteSets, FiniteSetsExt, Functions

CONSTANT p      \* the characteristic, a prime

Zero == <<>>
One == <<1>>
None == <<0>>                   \* the NULL of a function that fails
deg(P) == Len(P) - 1
Lead(P) == P[Len(P)]
Coef(P, i) == IF i \in 0..deg(P) THEN P[i + 1] ELSE 0
Larger(m, n) == IF m < n THEN n ELSE m

(* The degree is looked for from the top: that of the last coefficient     *)
(* that is not zero.                                                       *)
Trimmed(s) == SubSeq(s, 1, Max({0} \cup {i \in DOMAIN s : s[i] # 0}))

(* The polynomial of degree d at most with coefficient c(i) mod p.         *)
Poly(d, c(_)) == Trimmed([i \in 1..(d + 1) |-> c(i - 1) % p])
Monomial(c, k) == Poly(k, LAMBDA i : IF i = k THEN c ELSE 0)

addition_F_p(P, Q) == Poly(Larger(deg(P), deg(Q)), LAMBDA i : Coef(P, i) + Coef(Q, i))
soustraction_F_p(P, Q) == Poly(Larger(deg(P), deg(Q)), LAMBDA i : Coef(P, i) - Coef(Q, i))
multiplication_F_p(P, Q) ==
    Poly(deg(P) + deg(Q), LAMBDA k :
         FoldFunction(+, 0, [i \in 0..k |-> Coef(P, i) * Coef(Q, k - i)]))
-----------------------------------------------------------------------------
(* x * a + y * b = pgcd along the remainders r0, r1. *)
RECURSIVE Bezout(_, _, _, _, _, _)
Bezout(r0, r1, x0, x1, y0, y1) ==
    IF r1 = 0 THEN [pgcd |-> r0, x |-> x0, y |-> y0]
    ELSE LET q == r0 \div r1
         IN  Bezout(r1, r0 - q * r1, x1, x0 - q * x1, y1, y0 - q * y1)

euclide_etendu(a, b) == Bezout(a, b, 1, 0, 0, 1)

inverse_mod(a, m) ==
    LET e == euclide_etendu(a, m)
    IN  IF e.pgcd # 1 THEN -1 ELSE IF e.x < 0 THEN e.x + m ELSE e.x

LeadInverse(P) == inverse_mod(Lead(P), p)

(* R_partiel loses its leading term in each turn. *)
RECURSIVE Divided(_, _, _)
Divided(Q, R, B) ==
    IF deg(R) < deg(B) THEN [quotient |-> Q, reste |-> R]
    ELSE LET term == Monomial(Lead(R) * LeadInverse(B), deg(R) - deg(B))
         IN  Divided(addition_F_p(Q, term), soustraction_F_p(R, multiplication_F_p(term, B)), B)

division_eucliduenne(A, B) == IF B = Zero THEN None ELSE Divided(Zero, A, B)

multiplication_F_q(P, Q, f) == division_eucliduenne(multiplication_F_p(P, Q), f).reste

Scaled(P, c) == Poly(deg(P), LAMBDA i : Coef(P, i) * c)

RECURSIVE BezoutPoly(_, _, _, _, _, _)
BezoutPoly(R0, R1, U0, U1, V0, V1) ==
    IF R1 = Zero THEN [PGCD |-> R0, U |-> U0, V |-> V0]
    ELSE LET d == division_eucliduenne(R0, R1)
             next(S0, S1) == soustraction_F_p(S0, multiplication_F_p(d.quotient, S1))
         IN  BezoutPoly(R1, d.reste, U1, next(U0, U1), V1, next(V0, V1))

(* The common divisor is made monic, and U and V follow; they could be     *)
(* forgotten.                                                              *)
ScaledPgcd(e, c) == [e EXCEPT !.PGCD = Scaled(@, c)]
ScaledAll(e, c) == [PGCD |-> Scaled(e.PGCD, c), U |-> Scaled(e.U, c), V |-> Scaled(e.V, c)]

MonicAlone(e) == IF e.PGCD = Zero THEN e ELSE ScaledPgcd(e, LeadInverse(e.PGCD))
Monic(e) == IF e.PGCD = Zero \/ Lead(e.PGCD) = 1 THEN e ELSE ScaledAll(e, LeadInverse(e.PGCD))

euclide_etendu_poly(A, B) == Monic(BezoutPoly(A, B, One, Zero, Zero, One))

Cofactor(e) == IF e.PGCD # One THEN None ELSE e.U
inverse_dans_F_q(P, f) == IF P = Zero THEN None ELSE Cofactor(euclide_etendu_poly(P, f))

RECURSIVE SquareAndMultiply(_, _, _, _)
SquareAndMultiply(reste, base, e, f) ==
    IF e = 0 THEN reste
    ELSE SquareAndMultiply(IF e % 2 = 1 THEN multiplication_F_q(reste, base, f) ELSE reste,
                           IF e > 1 THEN multiplication_F_q(base, base, f) ELSE base,
                           e \div 2, f)

Raised(base, e, f) == IF base = None THEN None ELSE SquareAndMultiply(One, base, e, f)

puissance_dans_F_q(P, e, f) ==
    LET base == division_eucliduenne(P, f).reste
    IN  IF e >= 0 THEN Raised(base, e, f) ELSE Raised(inverse_dans_F_q(base, f), -e, f)

(* The divisors i are tried up to the root of what is left of n, which is  *)
(* then the last prime unless it is 1.                                     *)
RECURSIVE Factors(_, _)
Factors(d, i) ==
    CASE d % i = 0 /\ d > 1 -> {i} \cup Factors(d \div i, i)
      [] d % i # 0 /\ i * i <= d -> Factors(d, i + 1)
      [] OTHER -> IF d > 1 THEN {d} ELSE {}

trouver_diviseurs_premiers(n) == Factors(n, 2)

est_generateur(P, f) ==
    LET n == p^deg(f) - 1
    IN  /\ P # Zero
        /\ \A k \in trouver_diviseurs_premiers(n) : puissance_dans_F_q(P, n \div k, f) # One
-----------------------------------------------------------------------------
(* The first version of the operations (TDs/TD2): those above, but for     *)
(* what an array of no element, or of a negative number of them, gives     *)
(* (NULL), and for the inverse, which is the coefficient of the larger of  *)
(* the two arguments.  A caller has at least one element in each array.    *)
Never == <<-1>>                 \* the outcome of a loop that does not end

init_polynom_TD2(P, n) == IF n <= 0 THEN None ELSE P

addition_F_p_TD2(P, Q) == addition_F_p(P, Q)
soustraction_F_p_TD2(P, Q) == soustraction_F_p(P, Q)
multiplication_F_p_TD2(P, Q) ==
    init_polynom_TD2(multiplication_F_p(P, Q), deg(P) + deg(Q) + 1)
copy_polynom_TD2(P) == P

euclide_etendu_TD2(a, b) == Bezout(Larger(a, b), IF a > b THEN b ELSE a, 1, 0, 0, 1)

inverse_mod_TD2(a, m) ==
    LET e == euclide_etendu_TD2(a, m)
    IN  IF e.pgcd # 1 THEN -1 ELSE IF e.x < 0 THEN e.x + m ELSE e.x

(* The leading coefficient of R is multiplied by 1 - Lead(B) * inverse in  *)
(* each turn: when it is not lost in the first it never is.                *)
RECURSIVE DividedTD2(_, _)
DividedTD2(R, B) ==
    LET term == Monomial(Lead(R) * inverse_mod_TD2(Lead(B), p), deg(R) - deg(B))
        next == soustraction_F_p_TD2(R, multiplication_F_p(term, B))
    IN  IF deg(R) < deg(B) THEN R ELSE IF deg(next) = deg(R) THEN Never ELSE DividedTD2(next, B)

(* The arrays of the quotient and of the remainder come first, so that a   *)
(* dividend of smaller degree is refused like a constant divisor.  The     *)
(* degree of the quotient stays -1.                                        *)
division_eucliduenne_TD2(A, B) ==
    IF init_polynom_TD2(One, deg(A) - deg(B) + 1) = None \/ init_polynom_TD2(One, deg(B)) = None THEN None
    ELSE IF DividedTD2(A, B) = Never THEN Never
    ELSE [quotient |-> Zero, reste |-> DividedTD2(A, B)]
=============================================================================
