------------------------------ MODULE BitCurve ------------------------------
(***************************************************************************)
(* BitCurve (curve.go): the group of y^2 = x^3 + B by way of Jacobian      *)
(* coordinates, and the encoding of its points, on the small curve of      *)
(* Pairing.  Products are reduced as they are made; ScalarMult is C code.  *)
(***************************************************************************)
EXTENDS Pairing

CONSTANTS curveB,       \* B
          Base,         \* the base of a digit: 256 in the code
          byteLen       \* digits of a coordinate: 32 in the code

NoAffine == <<"panic">>

IsOnBitCurve(x, y) == Times(y, y) = (Times(Times(x, x), x) + curveB) % p

(* affineFromJacobian: ModInverse gives nil for zero, and Mul panics.      *)
affineFromJacobian(j) ==
    LET zinv == ModInverse(j[3])
        zinvsq == Times(zinv, zinv)
    IN  IF j[3] = 0 THEN NoAffine
        ELSE <<Times(j[1], zinvsq), Times(j[2], Times(zinvsq, zinv))>>

addJacobian(x1, y1, z1, x2, y2, z2) ==
    LET z1z1 == Times(z1, z1)
        z2z2 == Times(z2, z2)
        u1 == Times(x1, z2z2)
        h == (Times(x2, z1z1) - u1) % p
        i == Times(2 * h, 2 * h)
        j == Times(h, i)
        s1 == Times(Times(y1, z2), z2z2)
        s2 == Times(Times(y2, z1), z1z1)
        rr == 2 * ((s2 - s1) % p)
        v == Times(u1, i)
        x3 == (Times(rr, rr) - j - v - v) % p
    IN  <<x3, (Times(rr, v - x3) - 2 * Times(s1, j)) % p,
          Times(Times(z1 + z2, z1 + z2) - z1z1 - z2z2, h)>>

\* Mutant: four times the square of y squared.
doubleJacobianFour(x, y, z) ==
    LET a == Times(x, x)
        b == Times(y, y)
        c == Times(b, b)
        d == 2 * (Times(x + b, x + b) - a - c)
        e == 3 * a
        x3 == (Times(e, e) - 2 * d) % p
    IN  <<x3, (Times(e, d - x3) - 4 * c) % p, Times(2 * y, z)>>

doubleJacobian(x, y, z) ==
    LET a == Times(x, x)
        b == Times(y, y)
        c == Times(b, b)
        d == 2 * (Times(x + b, x + b) - a - c)
        e == 3 * a
        x3 == (Times(e, e) - 2 * d) % p
    IN  <<x3, (Times(e, d - x3) - 8 * c) % p, Times(2 * y, z)>>

AddOnCurve(P, Q) == affineFromJacobian(addJacobian(P[1], P[2], 1, Q[1], Q[2], 1))
DoubleOnCurve(P) == affineFromJacobian(doubleJacobian(P[1], P[2], 1))

-----------------------------------------------------------------------------
(* Digits of a coordinate, the highest first; as big.Int gives them, there *)
(* are no leading zeros.                                                   *)
DigitsOf[n \in Nat] == IF n = 0 THEN <<>> ELSE Append(DigitsOf[n \div Base], n % Base)
NumberOf(digits) == FoldLeft(LAMBDA n, d : Base * n + d, 0, digits)

Padded(digits) == [k \in 1..(byteLen - Len(digits)) |-> 0] \o digits

Marshal(P) == <<4>> \o Padded(DigitsOf[P[1]]) \o Padded(DigitsOf[P[2]])

Unmarshal(bytes) ==
    IF Len(bytes) # 1 + 2 * byteLen \/ bytes[1] # 4 THEN <<>>
    ELSE <<NumberOf(SubSeq(bytes, 2, byteLen + 1)), NumberOf(SubSeq(bytes, byteLen + 2, Len(bytes)))>>

-----------------------------------------------------------------------------
PointOf(k) == LET P == CurveMultiples[k + 1] IN IF P = <<>> THEN <<>> ELSE <<P[1][2], P[2][2]>>

(* Add, of points with different x, and Double are those of the group, and *)
(* the points are on the curve.  Add of a point and itself or its opposite *)
(* has z = 0 and panics: of a point and itself in spite of Add's comment,  *)
(* "Add returns the sum of (x1,y1) and (x2,y2)".                           *)
CurveIsGroup ==
    probe[1] = "group" =>
        LET k == probe[2] % r
            l == probe[3] % r
            P == PointOf(k)
            Q == PointOf(l)
        IN  k # 0 /\ l # 0 =>
                /\ IsOnBitCurve(P[1], P[2])
                /\ P[1] # Q[1] => AddOnCurve(P, Q) = PointOf((k + l) % r)
                /\ DoubleOnCurve(P) = PointOf((2 * k) % r)

(* Unmarshal gives back the point that Marshal was given, whose            *)
(* coordinates may have leading zeros.                                     *)
MarshalInverse ==
    probe[1] = "group" /\ probe[2] % r # 0 =>
        Unmarshal(Marshal(PointOf(probe[2] % r))) = PointOf(probe[2] % r)

(* The curve is a group whose elements survive their encoding.             *)
CurveExact == CurveIsGroup /\ MarshalInverse
=============================================================================
