---------------------------- MODULE FiniteField -----------------------------
(***************************************************************************)
(* The library of finite fields (ff_util.c, fp.c, fq.c): the same          *)
(* mathematics as Polynomials, with other algorithms.  Inverses come from  *)
(* Fermat's theorem, products are accumulated, the division works in place *)
(* on the array of the remainder.  An FqElem is its representative.        *)
(***************************************************************************)
EXTENDS Polynomials

RECURSIVE Power(_, _, _)
Power(res, base, e) ==
    IF e = 0 THEN res
    ELSE Power(IF e % 2 = 1 THEN (res * base) % p ELSE res, (base * base) % p, e \div 2)

inv_modp(a) == Power(1, a % p, p - 2)

poly_trim(c) == Trimmed(c)
poly_from_coeffs(c) == poly_trim([i \in DOMAIN c |-> c[i] % p])
poly_add(A, B) == poly_from_coeffs([i \in 1..Larger(Len(A), Len(B)) |-> Coef(A, i - 1) + Coef(B, i - 1)])
poly_sub(A, B) == poly_from_coeffs([i \in 1..Larger(Len(A), Len(B)) |-> Coef(A, i - 1) - Coef(B, i - 1)])
poly_scalar_mul(A, s) == poly_from_coeffs([i \in DOMAIN A |-> A[i] * s])
poly_shift(A, k) == IF A = Zero THEN Zero ELSE [i \in 1..k |-> 0] \o A

(* Row i of the schoolbook product is added to the rows before it. *)
RECURSIVE Rows(_, _, _)
Rows(A, B, i) ==
    IF i < 0 THEN Zero
    ELSE poly_add(Rows(A, B, i - 1), poly_shift(poly_scalar_mul(B, Coef(A, i)), i))

poly_mul(A, B) == Rows(A, B, deg(A))

RECURSIVE Reduced(_, _, _)
Reduced(q, r, B) ==
    IF deg(r) < deg(B) THEN [q |-> q, r |-> r]
    ELSE LET k == deg(r) - deg(B)
             coeff == (Lead(r) * inv_modp(Lead(B))) % p
         IN  Reduced(poly_add(q, poly_shift(<<coeff>>, k)),
                     poly_sub(r, poly_shift(poly_scalar_mul(B, coeff), k)), B)

poly_divmod(A, B) == Reduced(Zero, A, B)        \* exits when B is zero

poly_make_monic(G) == IF G = Zero THEN Zero ELSE poly_scalar_mul(G, inv_modp(Lead(G)))

RECURSIVE Egcd(_, _, _, _, _, _)
Egcd(r0, r1, s0, s1, t0, t1) ==
    IF r1 = Zero
    THEN [g |-> poly_make_monic(r0), u |-> poly_scalar_mul(s0, inv_modp(Lead(r0))),
          v |-> poly_scalar_mul(t0, inv_modp(Lead(r0)))]
    ELSE LET d == poly_divmod(r0, r1)
         IN  Egcd(r1, d.r, s1, poly_sub(s0, poly_mul(d.q, s1)), t1, poly_sub(t0, poly_mul(d.q, t1)))

poly_egcd(A, B) == Egcd(A, B, One, Zero, Zero, One)      \* not of two zeros
poly_gcd(A, B) == poly_egcd(A, B).g
-----------------------------------------------------------------------------
fqctx_make(c) == [f |-> poly_from_coeffs(c), q |-> p^deg(poly_from_coeffs(c))]
fq_from_poly(F, A) == poly_divmod(A, F.f).r
fq_from_coeffs(F, c) == fq_from_poly(F, poly_from_coeffs(c))
fq_add(x, y) == poly_add(x, y)
fq_sub(x, y) == poly_sub(x, y)
fq_mul(F, x, y) == fq_from_poly(F, poly_mul(x, y))
fq_inv(F, x) == fq_from_poly(F, poly_egcd(x, F.f).u)
fq_div(F, x, y) == fq_mul(F, x, fq_inv(F, y))

RECURSIVE Pow(_, _, _, _)
Pow(F, r, base, e) ==
    IF e = 0 THEN r
    ELSE Pow(F, IF e % 2 = 1 THEN fq_mul(F, r, base) ELSE r,
             IF e > 1 THEN fq_mul(F, base, base) ELSE base, e \div 2)

fq_pow(F, base, e) == Pow(F, One, base, e)

(* The prime divisors of phi, and 1 refused before they are looked for. *)
fq_is_generator(F, g) ==
    /\ g \notin {Zero, One}
    /\ \A ell \in Factors(F.q - 1, 2) : fq_pow(F, fq_from_poly(F, g), (F.q - 1) \div ell) # One
=============================================================================
