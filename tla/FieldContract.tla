--------------------------- MODULE FieldContract ----------------------------
(***************************************************************************)
(* What the two libraries of finite fields promise, on one pair of         *)
(* polynomials over F_p and on one element of F_p[X]/(f).                  *)
(***************************************************************************)
EXTENDS FiniteField

Polynomial(d) == {Trimmed(s) : s \in [1..d -> 0..(p - 1)]}      \* of degree below d

Divides(B, A) == poly_divmod(A, B).r = Zero

(* The two libraries compute the same sums, products, quotients and common *)
(* divisors; a remainder is smaller than its divisor, and the coefficients *)
(* of Bezout give a monic common divisor.                                  *)
PolynomialsKeep(A, B) ==
    /\ poly_add(A, B) = addition_F_p(A, B)
    /\ poly_sub(A, B) = soustraction_F_p(A, B)
    /\ poly_mul(A, B) = multiplication_F_p(A, B)
    /\ B # Zero =>
          LET d == division_eucliduenne(A, B)
          IN  /\ poly_divmod(A, B) = [q |-> d.quotient, r |-> d.reste]
              /\ deg(d.reste) < deg(B)
              /\ A = addition_F_p(multiplication_F_p(B, d.quotient), d.reste)
    /\ A # Zero \/ B # Zero =>
          LET e == euclide_etendu_poly(A, B)
              g == poly_egcd(A, B)
          IN  /\ e.PGCD = g.g /\ e.PGCD = poly_gcd(A, B)
              /\ Lead(e.PGCD) = 1 /\ Divides(e.PGCD, A) /\ Divides(e.PGCD, B)
              /\ e.PGCD = addition_F_p(multiplication_F_p(e.U, A), multiplication_F_p(e.V, B))
              /\ g.g = poly_add(poly_mul(g.u, A), poly_mul(g.v, B))

(* The version of TD2 has the same sums and products, but for the NULL of  *)
(* a product of zero with a constant.                                      *)
TD2Keeps(A, B) ==
    /\ addition_F_p_TD2(A, B) = poly_add(A, B) /\ soustraction_F_p_TD2(A, B) = poly_sub(A, B)
    /\ multiplication_F_p_TD2(A, B) = (IF deg(A) + deg(B) < 0 THEN None ELSE copy_polynom_TD2(poly_mul(A, B)))

(* "retourne a la fois le quotient et le reste": operation_corps_finis.h   *)
(* of TD2 promises a result of the division by a polynomial with a degree. *)
TD2DivisionReturns(A, B) == deg(B) >= 1 => division_eucliduenne_TD2(A, B) \notin {None, Never}

(* The power of x by as many products as the exponent says. *)
RECURSIVE Repeated(_, _, _)
Repeated(x, e, f) == IF e = 0 THEN One ELSE multiplication_F_q(x, Repeated(x, e - 1, f), f)

(* Powers are repeated products, a negative one of the inverse; only zero  *)
(* has no inverse; a generator is an element whose powers are all but zero.*)
FieldKeeps(x, e, f) ==
    LET F == fqctx_make(f)
        order == F.q - 1
    IN  /\ puissance_dans_F_q(x, e, f) = Repeated(x, e, f)
        /\ fq_pow(F, x, e) = Repeated(x, e, f)
        /\ IF x = Zero THEN inverse_dans_F_q(x, f) = None
           ELSE /\ multiplication_F_q(inverse_dans_F_q(x, f), x, f) = One
                /\ fq_mul(F, x, fq_inv(F, x)) = One /\ fq_div(F, x, x) = One
                /\ multiplication_F_q(puissance_dans_F_q(x, -e, f), Repeated(x, e, f), f) = One
        /\ fq_sub(fq_add(x, One), One) = x /\ fq_from_coeffs(F, x) = x
        /\ LET generates == Cardinality({Repeated(x, i, f) : i \in 1..order} \ {Zero}) = order
           IN  /\ est_generateur(x, f) <=> generates
               /\ fq_is_generator(F, x) <=> generates
=============================================================================
