------------------------------- MODULE Cheetah ------------------------------
(* The field, its sextic extension and the curve that vesl-signing computes    *)
(* with (math/belt.rs, bpoly.rs and cheetah.rs), at any width: a word is two   *)
(* halves, of 32 bits in the code, and the prime is p = 2^2h - 2^h + 1. The    *)
(* arithmetic wraps, borrows and carries as the code's does. The functions of  *)
(* the field are TLA+ functions, so TLC tabulates each of them once.           *)
EXTENDS Integers, Sequences, SequencesExt

CONSTANTS HalfBits,    \* bits of a half word: 32
          Half,        \* one more than the largest half word
          WordSize,    \* and than the largest word
          PRIME,
          GenX, GenY,  \* the coordinates of the generator
          GOrder,      \* its order, an odd prime
          CurveError   \* a division by zero, or bytes that are no point

ASSUME FieldAssumption ==
  Half = 2 ^ HalfBits /\ WordSize = Half * Half /\ PRIME = WordSize - Half + 1

Words == 0 .. WordSize - 1
Belts == 0 .. PRIME - 1

WrappingSub(a, b) == (a - b) % WordSize

\* A difference that borrowed is put right by the low half's worth of ones.
SubAdjusted(a, b) ==
  WrappingSub(WrappingSub(a, b), IF a < b THEN Half - 1 ELSE 0)

badd == [a, b \in Words |-> SubAdjusted(a, WrappingSub(PRIME, b))]
bsub == [a, b \in Words |-> SubAdjusted(a, b)]
bneg == [a \in Belts |-> IF a # 0 THEN PRIME - a ELSE 0]

\* A sum that carried, and one that reached the prime.
Uncarried(sum) == IF sum >= WordSize THEN WrappingSub(sum % WordSize, PRIME) ELSE sum
Canonical(result) == IF result >= PRIME THEN result - PRIME ELSE result

\* Wrong variant of reduce_159: the borrow is left as it wrapped.
reduce_159_wrapped(low, mid, high) ==
  Canonical(Uncarried(mid * Half - mid + WrappingSub(low, high)))

reduce_159(low, mid, high) ==
  Canonical(Uncarried(mid * Half - mid
    + (IF low < high THEN (low - high + PRIME) % WordSize ELSE low - high)))

reduce(n) == reduce_159(n % WordSize, (n \div WordSize) % Half, n \div (WordSize * Half))

bmul == [a, b \in Words |-> reduce(a * b)]

\* The low half goes into the middle one; what that carries goes off with the
\* multiple of the prime.
MontDifference(x2, d) == IF x2 >= d THEN x2 - d ELSE x2 + PRIME - d
MontMultiple(x1, c) == c - (x1 + (c \div WordSize) * PRIME)
MontMiddle(x0, x1) == MontMultiple(x1, (x0 + x1) * Half)
mont_reduction(a) ==
  MontDifference(a \div WordSize, MontMiddle(a % Half, (a \div Half) % Half))

montiply == [a, b \in Words |-> mont_reduction(a * b)]
montify == [a \in Words |-> mont_reduction(a * ((WordSize * WordSize) % PRIME))]

montwopow(a, b) == FoldLeft(LAMBDA r, i : montiply[r, r], a, [i \in 1 .. b |-> i])

\* a ^ (p - 2): the addition chain goes over y ^ (2^31 - 1), h - 1 ones.
AllOnes(y) ==
  FoldLeft(LAMBDA r, i : montiply[y, montiply[r, r]], y, [i \in 1 .. HalfBits - 2 |-> i])
Doubled(ones) == montiply[montwopow(ones, HalfBits), ones]
Closed(y, dup) == mont_reduction(montiply[y, montiply[dup, dup]])
Inverted(y) == Closed(y, Doubled(AllOnes(y)))
binv == [a \in Belts |-> Inverted(montify[a])]

RECURSIVE PowBy(_, _, _)
PowBy(a, b, c) ==
  IF b <= 1 THEN reduce(c * a)
  ELSE PowBy(reduce(a * a), b \div 2, IF b % 2 = 0 THEN c ELSE reduce(c * a))

bpow(a, b) == IF b = 0 THEN 1 ELSE PowBy(a, b, 1)

-----------------------------------------------------------------------------
(* Polynomials: the sequence of the coefficients, the constant one first.      *)

Zeros(n) == [i \in 1 .. n |-> 0]

\* The polynomial with the coefficients c, evaluated at once.
Poly(n, c(_)) == [i \in 1 .. n |-> c(i)] \o <<>>

AllZero(f) == \A i \in DOMAIN f : f[i] = 0

\* The index of the leading coefficient from zero; zero has degree zero.
Degree(f) == IF AllZero(f) THEN 0 ELSE (CHOOSE i \in DOMAIN f :
               f[i] # 0 /\ \A j \in i + 1 .. Len(f) : f[j] = 0) - 1

RECURSIVE SumOf(_, _)
SumOf(s, n) == IF n = 0 THEN 0 ELSE badd[SumOf(s, n - 1), s[n]]

bpmul(f, g) ==
  Poly(Len(f) + Len(g) - 1,
       LAMBDA k : SumOf([i \in 1 .. Len(f) |->
         IF k - i + 1 \in 1 .. Len(g) THEN bmul[f[i], g[k - i + 1]] ELSE 0], Len(f)))

bpsub(f, g) ==
  Poly(IF Len(f) >= Len(g) THEN Len(f) ELSE Len(g),
       LAMBDA k : IF k > Len(f) THEN bneg[g[k]]
                  ELSE IF k > Len(g) THEN f[k] ELSE bsub[f[k], g[k]])

bpscal(s, f) == Poly(Len(f), LAMBDA i : bmul[s, f[i]])

\* What is left of r when coeff times g is taken off at the degree d.
LessMultiple(r, g, coeff, d) ==
  Poly(Len(r), LAMBDA k :
    IF k - 1 \in d - Degree(g) .. d
    THEN bsub[r[k], bmul[coeff, g[k - d + Degree(g)]]] ELSE r[k])

\* The rounds of the long division of r by g: d is the degree to be cancelled.
RECURSIVE Divided(_, _, _, _)
Onward(less, g, more, lower) ==
  IF lower = 0 /\ less[1] = 0 THEN [q |-> more, r |-> <<0>>] ELSE Divided(less, g, more, lower)
Cancelled(r, g, q, d, coeff) ==
  Onward(LessMultiple(r, g, coeff, d), g, [q EXCEPT ![d - Degree(g) + 1] = coeff],
         IF d = 0 THEN 0 ELSE d - 1)
Divided(r, g, q, d) ==
  IF d < Degree(g) THEN [q |-> q, r |-> SubSeq(r, 1, d + 1)]
  ELSE Cancelled(r, g, q, d, bmul[r[d + 1], binv[g[Degree(g) + 1]]])

\* The quotient and the remainder of f by g, which is not zero.
bpdvr(f, g) ==
  IF AllZero(f) THEN [q |-> <<0>>, r |-> <<0>>]
  ELSE Divided(SubSeq(f, 1, Degree(f) + 1), g,
               Zeros((IF Degree(f) >= Degree(g) THEN Degree(f) - Degree(g) ELSE 0) + 1),
               Degree(f))

\* Euclid's rounds on f and g, with the cofactor of the first polynomial; that
\* of the second is computed alike and read by nobody.
RECURSIVE EuclidFrom(_, _, _, _)
EuclidNext(g, older, newer, qr) ==
  EuclidFrom(g, qr.r, newer, bpsub(older, bpmul(qr.q, newer)))
EuclidFrom(f, g, older, newer) ==
  IF AllZero(g) THEN [d |-> f, u |-> older] ELSE EuclidNext(g, older, newer, bpdvr(f, g))

bpegcd(f, g) == EuclidFrom(f, g, <<1>>, <<0>>)

-----------------------------------------------------------------------------
(* The extension: polynomials of degree below six, modulo x^6 - 7.             *)

F6_ZERO == Zeros(6)
F6_ONE == <<1, 0, 0, 0, 0, 0>>

f6_add(f, g) == Poly(6, LAMBDA i : badd[f[i], g[i]])
f6_neg(f) == Poly(6, LAMBDA i : bneg[f[i]])
f6_sub(f, g) == f6_add(f, f6_neg(g))
f6_scal(s, f) == Poly(6, LAMBDA i : bmul[f[i], s])

\* Of the products m of the coefficients, and of the mixed ones.
KaratMixed(a, b, m, i, j) ==
  bsub[bmul[badd[a[i], a[j]], badd[b[i], b[j]]], badd[m[i], m[j]]]
KaratOrdered(m, mixed) == <<m[1], mixed[1], badd[mixed[2], m[2]], mixed[3], m[3]>>
KaratSums(a, b, m) ==
  KaratOrdered(m, Poly(3, LAMBDA k : KaratMixed(a, b, m, <<1, 1, 2>>[k], <<2, 3, 3>>[k])))
karat3(a, b) == KaratSums(a, b, Poly(3, LAMBDA i : bmul[a[i], b[i]]))

\* The low half of x, the high half and their sum.
Part(x, k) ==
  Poly(3, LAMBDA i : CASE k = 1 -> x[i] [] k = 2 -> x[i + 3] [] k = 3 -> badd[x[i], x[i + 3]])

\* x^6 is 7: what lies beyond the fifth power is folded back.
At(x, i) == IF i \in 1 .. 5 THEN x[i] ELSE 0
Folded(low, high, cross) ==
  Poly(6, LAMBDA i :
    badd[badd[At(low, i), At(cross, i - 3)], bmul[7, badd[At(cross, i + 3), At(high, i)]]])
Crossed(foil) ==
  Folded(foil[1], foil[2], Poly(5, LAMBDA i : bsub[foil[3][i], badd[foil[1][i], foil[2][i]]]))

f6_mul(f, g) == Crossed(Poly(3, LAMBDA k : karat3(Part(f, k), Part(g, k))))

f6_square(f) == f6_mul(f, f)

\* The inverse of f, which is not zero.
Padded(u) == Poly(6, LAMBDA i : IF i \in DOMAIN u THEN u[i] ELSE 0)
Scaled(bezout) == Padded(bpscal(binv[bezout.d[1]], bezout.u))
f6_inv(f) == Scaled(bpegcd(f, <<bneg[7], 0, 0, 0, 0, 0, 1>>))

f6_div(f, g) == f6_mul(f, f6_inv(g))

-----------------------------------------------------------------------------
(* The curve y^2 = x^3 + x + b: no operation reads b.                          *)

Point(x, y) == [x |-> x, y |-> y, inf |-> FALSE]
A_GEN == Point(GenX, GenY)
A_ID == [x |-> F6_ZERO, y |-> F6_ONE, inf |-> TRUE]

\* The line through p and q, the tangent if they are one: its slope, and its
\* third point, mirrored.
Slope(p, q) ==
  f6_div(IF p = q THEN f6_add(f6_scal(3, f6_square(p.x)), F6_ONE) ELSE f6_sub(p.y, q.y),
         IF p = q THEN f6_scal(2, p.y) ELSE f6_sub(p.x, q.x))

MirroredAt(p, slope, x_out) == Point(x_out, f6_sub(f6_mul(slope, f6_sub(p.x, x_out)), p.y))
ThirdAlong(p, q, slope) == MirroredAt(p, slope, f6_sub(f6_square(slope), f6_add(p.x, q.x)))
Third(p, q) == ThirdAlong(p, q, Slope(p, q))

ch_double(p) == IF p.inf \/ p.y = F6_ZERO THEN A_ID ELSE Third(p, p)

ch_neg(p) == [p EXCEPT !.y = f6_neg(p.y)]

ch_add(p, q) ==
  IF p.inf THEN q
  ELSE IF q.inf THEN p
  ELSE IF p = ch_neg(q) THEN A_ID
  ELSE IF p # q /\ p.x = q.x THEN CurveError
  ELSE Third(p, q)

\* Double and add, from the lowest bit.
RECURSIVE ScalBy(_, _, _)
ScalNext(n, p, sum) ==
  IF sum = CurveError THEN CurveError ELSE ScalBy(n \div 2, ch_double(p), sum)
ScalBy(n, p, acc) ==
  IF n = 0 THEN acc ELSE ScalNext(n, p, IF n % 2 = 1 THEN ch_add(acc, p) ELSE acc)

ch_scal_big(n, p) == ScalBy(n, p, A_ID)

in_curve(p) == p = A_ID \/ ch_scal_big(GOrder, p) = A_ID

\* Base58 text stands for its bytes: a tag, and the limbs from the highest of y
\* down to the lowest of x.
into_base58(p) == IF p.inf THEN CurveError ELSE <<1>> \o Reverse(p.x \o p.y)

CurveChecked(p) == IF in_curve(p) THEN p ELSE CurveError
PointOf(limbs) == Point(SubSeq(limbs, 1, 6), SubSeq(limbs, 7, 12))
from_base58(bytes) ==
  IF Len(bytes) # 13 THEN CurveError ELSE CurveChecked(PointOf(Reverse(Tail(bytes))))

\* A digest of four limbs or more, read to the base p and reduced to a scalar.
trunc_g_order(a) ==
  (a[1] + PRIME * (a[2] + PRIME * (a[3] + PRIME * a[4]))) % GOrder

=============================================================================
