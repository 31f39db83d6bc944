------------------------------ MODULE Pairing -------------------------------
(***************************************************************************)
(* The optimal Ate pairing (gfp2.go, gfp6.go, gfp12.go, twist.go,          *)
(* optate.go), over a small curve of the same family: p and r are          *)
(* 36u^4+36u^3+24u^2+6u+1 and 36u^4+36u^3+18u^2+6u+1, and xi is i plus a   *)
(* number (9 in the code).  Only products are reduced modulo p, as in the  *)
(* code; their factors are reduced first to stay small, which changes no   *)
(* result.  Temporaries from the pool and the destination are one value.   *)
(***************************************************************************)
EXTENDS Integers, Sequences, SequencesExt, Folds

CONSTANTS u,            \* the parameter of the curve
          p, r,         \* the field and the order of the group
          xiReal,       \* xi is i + xiReal
          twistB,       \* the twist is y^2 = x^3 + twistB
          twistGen,     \* affine generator of G2
          curveGen,     \* affine generator of G1
          NAFs,         \* signed digits of 6u+2, or of a number equal to it modulo r
          Scalars       \* multiples of the generators that are paired

ASSUME PairingAssumption ==
    /\ p = 36*u^4 + 36*u^3 + 24*u^2 + 6*u + 1
    /\ r = 36*u^4 + 36*u^3 + 18*u^2 + 6*u + 1
    /\ \A naf \in NAFs :
          FoldRight(LAMBDA d, n : 2*n + d, naf, 0) % r = (6*u + 2) % r

Inverses == [a \in 1..(p - 1) |-> CHOOSE b \in 1..(p - 1) : (a * b) % p = 1]
ModInverse(a) == IF a % p = 0 THEN 0 ELSE Inverses[a % p]
Times(a, b) == ((a % p) * (b % p)) % p

(* Op(a); TLC evaluates the argument and the result here and only here.    *)
Once(Op(_), a) == CHOOSE v \in {Op(x) : x \in {a}} : TRUE

(* The bits of a scalar, the highest first. *)
Bits[n \in Nat] == IF n = 0 THEN <<>> ELSE Append(Bits[n \div 2], n % 2)

-----------------------------------------------------------------------------
(* gfP2: <<x, y>> is xi + y with i^2 = -1 *)

Zero2 == <<0, 0>>
One2 == <<0, 1>>
Minimal2(a) == <<a[1] % p, a[2] % p>>
IsZero2(a) == a = Zero2
IsOne2(a) == a = One2
Conjugate2(a) == <<-a[1], a[2]>>
Negative2(a) == <<-a[1], -a[2]>>
Add2(a, b) == <<a[1] + b[1], a[2] + b[2]>>
Sub2(a, b) == <<a[1] - b[1], a[2] - b[2]>>
Double2(a) == <<2 * a[1], 2 * a[2]>>

Mul2(a, b) == <<(Times(a[1], b[2]) + Times(b[1], a[2])) % p,
                (Times(a[2], b[2]) - Times(a[1], b[1])) % p>>

MulScalar2(a, n) == <<a[1] * n, a[2] * n>>
MulXi2(a) == <<xiReal * a[1] + a[2], xiReal * a[2] - a[1]>>

Square2(a) == <<(2 * Times(a[1], a[2])) % p, Times(a[2] - a[1], a[1] + a[2])>>

Invert2(a) ==
    LET inv == ModInverse(Times(a[1], a[1]) + Times(a[2], a[2]))
    IN  <<Times(-a[1], inv), Times(a[2], inv)>>

Exp2(a, power) ==
    FoldLeft(LAMBDA sum, bit : IF bit = 1 THEN Mul2(Square2(sum), a) ELSE Square2(sum),
             One2, Bits[power])

(* constants.go: powers of xi *)
xi == <<1, xiReal>>
xiToPMinus1Over6 == Exp2(xi, (p - 1) \div 6)
xiToPMinus1Over3 == Exp2(xi, (p - 1) \div 3)
xiToPMinus1Over2 == Exp2(xi, (p - 1) \div 2)
xiTo2PMinus2Over3 == Exp2(xi, (2*p - 2) \div 3)
xiToPSquaredMinus1Over3 == Exp2(xi, (p*p - 1) \div 3)[2]
xiTo2PSquaredMinus2Over3 == Exp2(xi, (2*p*p - 2) \div 3)[2]
xiToPSquaredMinus1Over6 == Exp2(xi, (p*p - 1) \div 6)[2]

-----------------------------------------------------------------------------
(* gfP6: <<x, y, z>> is x tau^2 + y tau + z with tau^3 = xi *)

Zero6 == <<Zero2, Zero2, Zero2>>
One6 == <<Zero2, Zero2, One2>>
Minimal6(a) == <<Minimal2(a[1]), Minimal2(a[2]), Minimal2(a[3])>>
Negative6(a) == <<Negative2(a[1]), Negative2(a[2]), Negative2(a[3])>>
Add6(a, b) == <<Add2(a[1], b[1]), Add2(a[2], b[2]), Add2(a[3], b[3])>>
Sub6(a, b) == <<Sub2(a[1], b[1]), Sub2(a[2], b[2]), Sub2(a[3], b[3])>>
Double6(a) == <<Double2(a[1]), Double2(a[2]), Double2(a[3])>>

Frobenius6(a) == <<Mul2(Conjugate2(a[1]), xiTo2PMinus2Over3),
                   Mul2(Conjugate2(a[2]), xiToPMinus1Over3), Conjugate2(a[3])>>

FrobeniusP26(a) == <<MulScalar2(a[1], xiTo2PSquaredMinus2Over3),
                     MulScalar2(a[2], xiToPSquaredMinus1Over3), a[3]>>

(* Three products and three more of sums (Karatsuba), put together *)
Karatsuba6(v0, v1, v2, xy, yz, xz) ==
    <<Sub2(Add2(Sub2(xz, v0), v1), v2),
      Add2(Sub2(Sub2(yz, v0), v1), MulXi2(v2)),
      Add2(MulXi2(Sub2(Sub2(xy, v1), v2)), v0)>>

Mul6(a, b) ==
    Karatsuba6(Mul2(a[3], b[3]), Mul2(a[2], b[2]), Mul2(a[1], b[1]),
               Mul2(Add2(a[1], a[2]), Add2(b[1], b[2])),
               Mul2(Add2(a[2], a[3]), Add2(b[2], b[3])),
               Mul2(Add2(a[1], a[3]), Add2(b[1], b[3])))

MulScalar6(a, b) == <<Mul2(a[1], b), Mul2(a[2], b), Mul2(a[3], b)>>
MulGFP6(a, n) == <<MulScalar2(a[1], n), MulScalar2(a[2], n), MulScalar2(a[3], n)>>
MulTau6(a) == <<a[2], a[3], MulXi2(a[1])>>

Square6(a) ==
    Karatsuba6(Square2(a[3]), Square2(a[2]), Square2(a[1]),
               Square2(Add2(a[1], a[2])), Square2(Add2(a[2], a[3])), Square2(Add2(a[1], a[3])))

(* Invert: by the norm F *)
Invert6(a) ==
    LET A == Sub2(Square2(a[3]), MulXi2(Mul2(a[1], a[2])))
        B == Sub2(MulXi2(Square2(a[1])), Mul2(a[2], a[3]))
        C == Sub2(Square2(a[2]), Mul2(a[1], a[3]))
        F == Add2(Add2(MulXi2(Mul2(C, a[2])), Mul2(A, a[3])), MulXi2(Mul2(B, a[1])))
        inv == Invert2(F)
    IN  <<Mul2(C, inv), Mul2(B, inv), Mul2(A, inv)>>

-----------------------------------------------------------------------------
(* gfP12: <<x, y>> is x omega + y with omega^2 = tau *)

One12 == <<Zero6, One6>>
Minimal12(a) == <<Minimal6(a[1]), Minimal6(a[2])>>
IsOne12(a) == Minimal12(a) = One12
Conjugate12(a) == <<Negative6(a[1]), a[2]>>

Frobenius12(a) == <<MulScalar6(Frobenius6(a[1]), xiToPMinus1Over6), Frobenius6(a[2])>>
FrobeniusP212(a) == <<MulGFP6(FrobeniusP26(a[1]), xiToPSquaredMinus1Over6), FrobeniusP26(a[2])>>

Mul12(a, b) == <<Add6(Mul6(a[1], b[2]), Mul6(b[1], a[2])),
                 Add6(Mul6(a[2], b[2]), MulTau6(Mul6(a[1], b[1])))>>

MulScalar12(a, b) == <<Mul6(a[1], b), Mul6(a[2], b)>>

(* Square: the complex squaring *)
Square12(a) ==
    LET complex(v0, ty) == <<Double6(v0), Sub6(Sub6(ty, v0), MulTau6(v0))>>
    IN  complex(Mul6(a[1], a[2]), Mul6(Add6(a[1], a[2]), Add6(a[2], MulTau6(a[1]))))

Exp12(a, power) ==
    FoldLeft(LAMBDA sum, bit :
                Once(LAMBDA x : IF bit = 1 THEN Mul12(Square12(x), a) ELSE Square12(x), sum),
             One12, Bits[power])

Invert12(a) ==
    LET norm == Sub6(Square6(a[2]), MulTau6(Square6(a[1])))
    IN  MulScalar12(Conjugate12(a), Invert6(norm))

-----------------------------------------------------------------------------
(* twistPoint: Jacobian coordinates; t = z^2 when valid, which it is not   *)
(* after Add and Double                                                    *)

Infinity == [x |-> Zero2, y |-> Zero2, z |-> Zero2, t |-> Zero2]
IsInfinity(a) == IsZero2(a.z)
Affine(xy) == [x |-> xy[1], y |-> xy[2], z |-> One2, t |-> One2]

IsOnCurve(a) ==
    Minimal2(Sub2(Sub2(Square2(a.y), Mul2(Square2(a.x), a.x)), twistB)) = Zero2

DoublePoint(a) ==
    LET A == Square2(a.x)
        B == Square2(a.y)
        C == Square2(B)
        d == Double2(Sub2(Sub2(Square2(Add2(a.x, B)), A), C))
        e == Add2(Double2(A), A)
        x == Sub2(Square2(e), Double2(d))
    IN  [x |-> x, z |-> Double2(Mul2(a.y, a.z)), t |-> Zero2,
         y |-> Sub2(Mul2(e, Sub2(d, x)), MulScalar2(C, 8))]

\* Mutant: points with the same x are taken for one point.
SamePointX(h, s) == IsZero2(h)

(* xEqual and yEqual: the integers are compared, not their classes. *)
SamePoint(h, s) == IsZero2(h) /\ IsZero2(s)

(* Add: equal points are doubled; opposite points give z = 0 *)
AddPoint(a, b) ==
    LET z1z1 == Square2(a.z)
        z2z2 == Square2(b.z)
        u1 == Mul2(a.x, z2z2)
        s1 == Mul2(a.y, Mul2(b.z, z2z2))
        s2 == Mul2(b.y, Mul2(a.z, z1z1))
        h == Sub2(Mul2(b.x, z1z1), u1)
        i == Square2(Add2(h, h))
        j == Mul2(h, i)
        rr == Double2(Sub2(s2, s1))
        v == Mul2(u1, i)
        x == Sub2(Sub2(Square2(rr), j), Double2(v))
    IN  IF IsInfinity(a) THEN b
        ELSE IF IsInfinity(b) THEN a
        ELSE IF SamePoint(h, Sub2(s2, s1)) THEN DoublePoint(a)
        ELSE [x |-> x, y |-> Sub2(Mul2(rr, Sub2(v, x)), Double2(Mul2(s1, j))), t |-> Zero2,
              z |-> Mul2(Sub2(Sub2(Square2(Add2(a.z, b.z)), z1z1), z2z2), h)]

MulPoint(a, scalar) ==
    FoldLeft(LAMBDA sum, bit : IF bit = 1 THEN AddPoint(DoublePoint(sum), a) ELSE DoublePoint(sum),
             Infinity, <<0>> \o Bits[scalar])

MakeAffine(a) ==
    LET zInv == Invert2(a.z)
        zInv2 == Square2(zInv)
    IN  IF IsOne2(a.z) THEN a
        ELSE [x |-> Mul2(a.x, zInv2), y |-> Mul2(Mul2(a.y, zInv), zInv2), z |-> One2, t |-> One2]

NegativePoint(a) == [a EXCEPT !.y = Sub2(Zero2, @), !.t = Zero2]

-----------------------------------------------------------------------------
(* optate.go: a line is <<a, b, c>>, and the point the loop goes on with *)

lineFunctionAdd(R, Q, c, r2) ==
    LET B == Mul2(Q.x, R.t)
        D == Mul2(Sub2(Sub2(Square2(Add2(Q.y, R.z)), r2), R.t), R.t)
        H == Sub2(B, R.x)
        I == Square2(H)
        E == MulScalar2(I, 4)
        J == Mul2(H, E)
        L1 == Sub2(Sub2(D, R.y), R.y)
        V == Mul2(R.x, E)
        x == Sub2(Sub2(Sub2(Square2(L1), J), V), V)
        z == Sub2(Sub2(Square2(Add2(R.z, H)), R.t), I)
        y == Sub2(Mul2(Sub2(V, x), L1), Double2(Mul2(R.y, J)))
        t == Square2(z)
    IN  [out |-> [x |-> x, y |-> y, z |-> z, t |-> t],
         line |-> <<Sub2(Double2(Mul2(L1, Q.x)), Sub2(Sub2(Square2(Add2(Q.y, z)), r2), t)),
                    Double2(MulScalar2(Negative2(L1), c.x)),
                    Double2(MulScalar2(z, c.y))>>]

lineFunctionDouble(R, c) ==
    LET A == Square2(R.x)
        B == Square2(R.y)
        C == Square2(B)
        D == Double2(Sub2(Sub2(Square2(Add2(R.x, B)), A), C))
        E == Add2(Double2(A), A)
        G == Square2(E)
        x == Sub2(Sub2(G, D), D)
        z == Sub2(Sub2(Square2(Add2(R.y, R.z)), B), R.t)
    IN  [out |-> [x |-> x, y |-> Sub2(Mul2(Sub2(D, x), E), MulScalar2(C, 8)),
                  z |-> z, t |-> Square2(z)],
         line |-> <<Sub2(Sub2(Sub2(Square2(Add2(R.x, E)), A), G), MulScalar2(B, 4)),
                    MulScalar2(Negative2(Double2(Mul2(E, R.t))), c.x),
                    MulScalar2(Double2(Mul2(z, R.t)), c.y)>>]

mulLine(ret, line) ==
    LET a2 == Mul6(<<Zero2, line[1], line[2]>>, ret[1])
        t3 == MulScalar6(ret[2], line[3])
        t2 == <<Zero2, line[1], Add2(line[2], line[3])>>
    IN  <<Sub6(Sub6(Mul6(Add6(ret[1], ret[2]), t2), a2), t3), Add6(t3, MulTau6(a2))>>

(* The Frobenius of a point, brought back to the twist, and its negated    *)
(* square.                                                                 *)
Q1(a) == [a EXCEPT !.x = Mul2(Conjugate2(@), xiToPMinus1Over3),
                   !.y = Mul2(Conjugate2(@), xiToPMinus1Over2)]
MinusQ2(a) == [a EXCEPT !.x = MulScalar2(@, xiToPSquaredMinus1Over3)]

(* The point and the line of a step, applied to what the loop carries. *)
Stepped(d, ret) == [R |-> d.out, ret |-> mulLine(ret, d.line)]

(* One round of the loop: the first one has nothing to square. *)
AfterDouble(s, c, first) ==
    Stepped(lineFunctionDouble(s.R, c), IF first THEN s.ret ELSE Square12(s.ret))

AfterAdd(s, Q, c) == Stepped(lineFunctionAdd(s.R, Q, c, Square2(Q.y)), s.ret)

AfterDigit(d, a, c, digit) ==
    IF digit = 0 THEN d ELSE AfterAdd(d, IF digit = 1 THEN a ELSE NegativePoint(a), c)

millerLoop(a, c, naf) ==
    FoldLeft(LAMBDA s, k : Once(LAMBDA x : AfterDigit(AfterDouble(x, c, k = 1), a, c, naf[Len(naf) - k]), s),
             [R |-> a, ret |-> One12], [k \in 1..(Len(naf) - 1) |-> k])

millerAffine(a, c, naf) == AfterAdd(AfterAdd(millerLoop(a, c, naf), Q1(a), c), MinusQ2(a), c).ret

(* c, of G1, is affine: curvePoint is not among these files. *)
miller(Q, c, naf) == millerAffine(MakeAffine(Q), c, naf)

(* The easy part, to the power (p^6-1)(p^2+1) *)
TimesFrobeniusP2(t1) == Mul12(t1, FrobeniusP212(t1))
EasyPart(in) == TimesFrobeniusP2(Mul12(Conjugate12(in), Invert12(in)))

(* The hard part, to the power (p^4-p^2+1)/r, by an addition chain *)
ChainEnd(f, t2, fp2) ==
    Mul12(Square12(Mul12(t2, Conjugate12(f))),
          Mul12(t2, Mul12(Mul12(Frobenius12(f), fp2), Frobenius12(fp2))))
ChainMiddle(f, t0, fu, fu2) ==
    ChainEnd(f, Square12(Mul12(Square12(Mul12(Mul12(Conjugate12(Frobenius12(fu)), Conjugate12(fu2)), t0)),
                               Mul12(t0, FrobeniusP212(fu2)))),
             FrobeniusP212(f))
ChainStart(f, fu, fu2, fu3) ==
    ChainMiddle(f, Mul12(Mul12(Square12(Conjugate12(Mul12(fu3, Frobenius12(fu3)))),
                               Conjugate12(Mul12(fu, Frobenius12(fu2)))),
                         Conjugate12(fu2)),
                fu, fu2)
ChainPowers(f, fu, fu2) == ChainStart(f, fu, fu2, Exp12(fu2, u))
ChainPower(f, fu) == ChainPowers(f, fu, Exp12(fu, u))
HardPart(f) == ChainPower(f, Exp12(f, u))

finalExponentiation(in) == Once(HardPart, Once(EasyPart, in))

optimalAte(Q, c, naf) ==
    IF IsInfinity(Q) \/ c.inf THEN One12 ELSE finalExponentiation(miller(Q, c, naf))

-----------------------------------------------------------------------------
(* Reference: polynomials in omega over the field, with omega^12 replaced  *)
(* by 2 xiReal omega^6 - (xiReal^2 + 1), of which i + xiReal = omega^6 is  *)
(* a root; a polynomial is the function of its coefficients.               *)

Poly(a) ==
    LET at(k) == LET six == IF k % 2 = 1 THEN a[1] ELSE a[2]
                 IN  six[3 - (k \div 2)]
        low(k) == (at(k)[2] - xiReal * at(k)[1]) % p
        high(k) == at(k)[1] % p
    IN  <<low(0), low(1), low(2), low(3), low(4), low(5),
          high(0), high(1), high(2), high(3), high(4), high(5)>>

PolyMul(f, g) ==
    LET sum[k \in 0..12, n \in 0..22] ==
            IF k = 0 THEN 0
            ELSE (sum[k - 1, n] + IF n - k \in -1..10 THEN f[k] * g[n - k + 2] ELSE 0) % p
        top(n) == IF n <= 22 THEN sum[12, n] ELSE 0
        mid(n) == top(n) + 2 * xiReal * top(n + 6)
        low(n) == (top(n) - (xiReal * xiReal + 1) * mid(n + 12)) % p
        high(n) == (top(n) + 2 * xiReal * mid(n + 6) - (xiReal * xiReal + 1) * top(n + 12)) % p
    IN  <<low(0), low(1), low(2), low(3), low(4), low(5),
          high(6), high(7), high(8), high(9), high(10), high(11)>>

PolyOne == <<1, 0, 0, 0, 0, 0, 0, 0, 0, 0, 0, 0>>
PolyExp(f, power) ==
    LET raised(g) ==
            FoldLeft(LAMBDA sum, bit :
                        Once(LAMBDA a : IF bit = 1 THEN PolyMul(PolyMul(a, a), g) ELSE PolyMul(a, a), sum),
                     PolyOne, Bits[power])
    IN  Once(raised, f)

(* Chord and tangent in affine coordinates; <<>> is the point at infinity. *)
RefAdd(P, Q) ==
    LET slope == IF P[1] = Q[1] THEN Mul2(MulScalar2(Square2(P[1]), 3), Invert2(Double2(P[2])))
                 ELSE Mul2(Sub2(Q[2], P[2]), Invert2(Sub2(Q[1], P[1])))
        x == Minimal2(Sub2(Sub2(Square2(slope), P[1]), Q[1]))
    IN  IF P = <<>> THEN Q
        ELSE IF Q = <<>> THEN P
        ELSE IF P[1] = Q[1] /\ P[2] # Q[2] THEN <<>>
        ELSE <<x, Minimal2(Sub2(Mul2(slope, Sub2(P[1], x)), P[2]))>>

(* The multiples 0..r-1 of a point *)
Multiples(P) == FoldLeft(LAMBDA s, k : Append(s, RefAdd(Last(s), P)), << <<>> >>, [k \in 1..(r - 1) |-> k])
TwistMultiples == Multiples(twistGen)
CurveMultiples == Multiples(<< <<0, curveGen[1]>>, <<0, curveGen[2]>> >>)
PointMultiples == [k \in 0..r |-> MulPoint(Affine(twistGen), k)]

Reduced(a) == IF IsInfinity(a) THEN <<>>
              ELSE LET b == MakeAffine(a) IN <<Minimal2(b.x), Minimal2(b.y)>>

OfG1(k) == LET P == CurveMultiples[k + 1]
           IN  IF P = <<>> THEN [inf |-> TRUE, x |-> 0, y |-> 0]
               ELSE [inf |-> FALSE, x |-> P[1][2], y |-> P[2][2]]

Paired == [naf \in NAFs |-> Minimal12(optimalAte(PointMultiples[1], OfG1(1), naf))]

-----------------------------------------------------------------------------
VARIABLE probe      \* what is computed: <<what, first, second, digits>>

PairingInit == probe = <<"none", 0, 0, <<>> >>

Field(i, j) ==
    /\ probe[1] = "none" /\ probe' = <<"field", i, j, <<>> >>
Group(k, l) ==
    /\ probe[1] = "none" /\ probe' = <<"group", k, l, <<>> >>
Pair(k, l, naf) ==
    /\ probe[1] = "none" /\ probe' = <<"pair", k, l, naf>>

PairingNext ==
    \/ \E i, j \in 0..11 : Field(i, j)
    \/ \E k, l \in 0..r : Group(k, l)
    \/ \E k, l \in Scalars, naf \in NAFs : Pair(k, l, naf)

(* Unit(n, c): c times the n-th of twelve generators of gfP12 over GF(p) *)
Unit(n, c) ==
    LET two(k) == IF n \div 2 = k THEN (IF n % 2 = 0 THEN <<0, c>> ELSE <<c, 0>>) ELSE Zero2
    IN  << <<two(0), two(1), two(2)>>, <<two(3), two(4), two(5)>> >>

Add12(a, b) == <<Add6(a[1], b[1]), Add6(a[2], b[2])>>
Sample(i, j) == FoldFunctionOnSet(Add12, One12, [n \in 0..11 |-> Unit(n, i * n * n + j * n - 40)], 0..11)

(* gfP12's Mul, Square and Invert, which go through four levels of         *)
(* Karatsuba and complex products over integers that are not reduced, are  *)
(* those of the polynomials in omega: Mul and Square for all elements,     *)
(* because they are bilinear and quadratic and agree on the generators.    *)
TowerIsField ==
    probe[1] = "field" =>
        LET a == Unit(probe[2], -1)
            b == Unit(probe[3], p + 2)
            s == Add12(a, b)
            e == Sample(probe[2], probe[3])
        IN  /\ Poly(Mul12(a, b)) = PolyMul(Poly(a), Poly(b))
            /\ Poly(Square12(s)) = PolyMul(Poly(s), Poly(s))
            /\ PolyMul(Poly(Invert12(e)), Poly(e)) = PolyOne

(* Frobenius and FrobeniusP2, linear maps by precomputed powers of xi, are *)
(* the powers p and p^2.                                                   *)
FrobeniusIsPower ==
    probe[1] = "field" =>
        LET a == Unit(probe[2], probe[3] + 1)
        IN  /\ Poly(Frobenius12(a)) = PolyExp(Poly(a), p)
            /\ Poly(FrobeniusP212(a)) = PolyExp(Poly(a), p * p)

(* finalExponentiation is the power (p^12-1)/r, as its comment says: the   *)
(* Frobenius maps and the addition chain together.                         *)
FinalExponentiationIsPower ==
    probe[1] = "field" /\ probe[2] = probe[3] =>
        LET e == Sample(probe[2], 5)
            easy == Once(EasyPart, e)
            raised == PolyExp(Poly(e), p * p + 1)
        IN  /\ PolyMul(Poly(easy), raised)
                 = FoldLeft(LAMBDA f, k : PolyExp(f, p), raised, <<1, 2, 3, 4, 5, 6>>)
            /\ Poly(finalExponentiation(e)) = PolyExp(Poly(easy), (p^4 - p^2 + 1) \div r)

(* Add, Double and Mul on Jacobian coordinates that are not reduced are    *)
(* the group of the twist, for all pairs of multiples of the generator:    *)
(* also for equal and for opposite points and for infinity, which are      *)
(* recognised by comparing integers.                                       *)
TwistIsGroup ==
    probe[1] = "group" =>
        LET a == PointMultiples[probe[2]]
            b == PointMultiples[probe[3]]
            sum == AddPoint(a, b)
        IN  /\ Reduced(sum) = TwistMultiples[((probe[2] + probe[3]) % r) + 1]
            /\ IsInfinity(sum) \/ IsOnCurve(MakeAffine(sum))

(* A power of an element whose order is r *)
IsPower(value, e, n) ==
    /\ Minimal12(value) = Minimal12(Exp12(e, n % r))
    /\ n = 1 => ~IsOne12(e) /\ IsOne12(Exp12(e, r))

(* The pairing is bilinear and not degenerate: paired multiples are powers *)
(* of the paired generators, of order r, and one for the point at          *)
(* infinity.                                                               *)
Bilinear ==
    probe[1] = "pair" =>
        IsPower(optimalAte(PointMultiples[probe[2]], OfG1(probe[3]), probe[4]),
                Paired[probe[4]], probe[2] * probe[3])

(* Every layer of the pairing is what the mathematics says.                *)
PairingExact ==
    TowerIsField /\ FrobeniusIsPower /\ FinalExponentiationIsPower /\ TwistIsGroup /\ Bilinear
=============================================================================
