------------------------------- MODULE Number -------------------------------
(***************************************************************************)
(* cfl_number.c: decimal numbers, a sign, a magnitude and the number of    *)
(* digits after the point.  A text is its sign and the digits before and   *)
(* after the point.                                                        *)
(***************************************************************************)
EXTENDS NumBits

CONSTANTS Ten,          \* the base of the texts
          BlockDigits,  \* the scale grows by blocks of this many digits: 9 in the code
          MaxInt,       \* bound on the integers entered,
          MaxSize,      \* on the bits of a result
          MaxScale      \* and on its scale

VARIABLES x, y,         \* what clients compute with
          was, op       \* the last operation, and x before it

vars == <<x, y, was, op>>

Num(sign, scale, mag) == [sign |-> sign, scale |-> scale, mag |-> mag]
Zero == Num(0, 0, <<>>)

NormalizeZero(n) == IF n.mag = <<>> THEN Zero ELSE n

TrimZeros(n) ==
  LET Once(m, i) ==
        LET d == DivSmall(m.mag, Ten)
        IN  IF m.mag # <<>> /\ d.rest = 0 THEN Num(m.sign, m.scale - 1, d.quo) ELSE m
  IN  NormalizeZero(FoldLeft(Once, n, Upto(n.scale)))

ScaledUp(mag, k) == FoldLeft(LAMBDA m, i : MulSmall(m, Ten), mag, Upto(k))
InBlocks(mag, k) ==
  ScaledUp(FoldLeft(LAMBDA m, i : MulSmall(m, Ten ^ BlockDigits), mag, Upto(k \div BlockDigits)),
           k % BlockDigits)

-----------------------------------------------------------------------------
(* Conversions                                                             *)

FromInt(v) == IF v = 0 THEN Zero ELSE IF v < 0 THEN Num(-1, 0, FromNat(-v)) ELSE Num(1, 0, FromNat(v))

\* The digits are taken in one by one.
FromText(t) ==
  LET Digit(mag, d) == IF d > 0 THEN AddSmall(MulSmall(mag, Ten), d) ELSE MulSmall(mag, Ten)
      mag == FoldLeft(Digit, <<>>, t.int \o t.frac)
  IN  IF mag = <<>> THEN Zero ELSE TrimZeros(Num(t.sign, Len(t.frac), mag))

\* The digits come out the lowest first; the fraction is filled up with zeros.
Digits(mag) ==
  LET Take(s, i) ==
        IF s.mag = <<>> THEN s
        ELSE LET d == DivSmall(s.mag, Ten) IN [mag |-> d.quo, out |-> <<d.rest>> \o s.out]
  IN  FoldLeft(Take, [mag |-> mag, out |-> <<>>], Upto(SizeOf(mag))).out

ToText(n) ==
  LET d == Digits(n.mag)
      int == Most(Len(d) - n.scale, 0)
      pad == [i \in 1 .. Most(n.scale - Len(d), 0) |-> 0]
  IN  IF n.sign = 0 \/ n.mag = <<>> THEN [sign |-> 1, int |-> <<0>>, frac |-> <<>>]
      ELSE [sign |-> n.sign, int |-> IF int = 0 THEN <<0>> ELSE SubSeq(d, 1, int),
            frac |-> pad \o SubSeq(d, int + 1, Len(d))]

\* A double is given in halves, rounded to the scale.
FromDouble(halves, scale) ==
  LET v == IF halves < 0 THEN -halves ELSE halves
  IN  IF v = 0 THEN Zero
      ELSE Num(IF halves < 0 THEN -1 ELSE 1, scale, FromNat((v * Ten ^ scale + 1) \div 2))

-----------------------------------------------------------------------------
(* Arithmetic                                                              *)

\* align_scales gives zero the scale of the other number.
AddUp(a, b) ==
  LET scale == IF a.sign = 0 THEN b.scale ELSE IF b.sign = 0 THEN a.scale ELSE Most(a.scale, b.scale)
      m == ScaledUp(a.mag, scale - a.scale)
      n == ScaledUp(b.mag, scale - b.scale)
  IN  IF a.sign = 0 THEN b
      ELSE IF b.sign = 0 THEN a
      ELSE IF a.sign = b.sign THEN TrimZeros(Num(a.sign, scale, Add(m, n)))
      ELSE IF Cmp(m, n) = 0 THEN TrimZeros(Num(0, scale, <<>>))
      ELSE IF Cmp(m, n) > 0 THEN TrimZeros(Num(a.sign, scale, Sub(m, n)))
      ELSE TrimZeros(Num(b.sign, scale, Sub(n, m)))

Subtract(a, b) == AddUp(a, [b EXCEPT !.sign = -@])

Multiply(a, b) ==
  IF a.sign = 0 \/ b.sign = 0 THEN Zero
  ELSE TrimZeros(Num(IF a.sign = b.sign THEN 1 ELSE -1, a.scale + b.scale, Mul(a.mag, b.mag)))

Numerator(a, b, scale) == InBlocks(a.mag, Most(b.scale + scale - a.scale, 0))
Denominator(a, b, scale) == InBlocks(b.mag, Most(a.scale - b.scale - scale, 0))

\* Rounded half up.
Divide(a, b, scale) ==
  LET den == Denominator(a, b, scale)
      d == DivMod(Numerator(a, b, scale), den)
      up == d.rest # <<>> /\ Cmp(MulSmall(d.rest, 2), den) >= 0
  IN  IF a.sign = 0 \/ a.mag = <<>> THEN Zero
      ELSE NormalizeZero(Num(IF a.sign = b.sign THEN 1 ELSE -1, scale,
                             IF up THEN Add(d.quo, FromNat(1)) ELSE d.quo))

-----------------------------------------------------------------------------
(* A client's computation                                                  *)

Init == x = Zero /\ y = Zero /\ was = Zero /\ op = <<"none">>

Digit == 0 .. Ten - 1
Texts == [sign : {1, -1}, int : [1 .. 1 -> Digit], frac : {<<>>} \cup [1 .. MaxScale -> Digit]]

Enter(n) == op[1] = "none" /\ y = Zero /\ y' = n /\ UNCHANGED <<x, was, op>>

\* The client starts with the number it has entered.
Load == op[1] = "none" /\ x' = y /\ y' = Zero /\ UNCHANGED <<was, op>>

\* The client goes on with the result, and another number.
GoOn == op[1] # "none" /\ op' = <<"none">> /\ was' = Zero /\ y' = Zero /\ UNCHANGED x

Fits(n) == n.scale <= MaxScale /\ SizeOf(n.mag) <= MaxSize
Operate(o, n) == op[1] = "none" /\ Fits(n) /\ x' = n /\ was' = x /\ op' = o /\ UNCHANGED y

Next ==
  \/ \E v \in -MaxInt .. MaxInt : Enter(FromInt(v)) \/ \E s \in 0 .. MaxScale : Enter(FromDouble(v, s))
  \/ \E t \in Texts : Enter(FromText(t))
  \/ Load \/ GoOn
  \/ Operate(<<"add">>, AddUp(x, y))
  \/ Operate(<<"sub">>, Subtract(x, y))
  \/ Operate(<<"mul">>, Multiply(x, y))
  \/ /\ y.sign # 0 /\ y.mag # <<>>
     /\ \E scale \in 0 .. 1 : Operate(<<"div", scale>>, Divide(x, y, scale))

Spec == Init /\ [][Next]_vars

-----------------------------------------------------------------------------
(* Properties                                                              *)

\* A number in units of Ten ^ -scale.
Exact(n, scale) == n.sign * NatOf(n.mag) * Ten ^ (scale - n.scale)

\* Sums, differences and products are exact, whatever carries, borrows and
\* scales meet.
ArithmeticExact ==
  LET s == 2 * MaxScale
  IN  /\ op[1] = "add" => Exact(x, s) = Exact(was, s) + Exact(y, s)
      /\ op[1] = "sub" => Exact(x, s) = Exact(was, s) - Exact(y, s)
      /\ op[1] = "mul" => Exact(x, s) * Ten ^ s = Exact(was, s) * Exact(y, s)

\* The text of a number, with its point, sign and zeros, reads back as the
\* number it was made of.
TextsKeep == FromText(ToText(x)) = TrimZeros(x)

\* cfl_number_div, to the scale asked for, with halves rounded away from zero.
RoundedQuotient ==
  LET num == NatOf(Numerator(was, y, op[2]))
      den == NatOf(Denominator(was, y, op[2]))
  IN  /\ NatOf(x.mag) = (2 * num + den) \div (2 * den)
      /\ x.mag = <<>> \/ (x.sign = was.sign * y.sign /\ x.scale = op[2])

Aligned == (SizeOf(Numerator(was, y, op[2])) - SizeOf(Denominator(was, y, op[2]))) % W = 0

\* The quotient is right when the divisor moves by whole words, or not at all.
QuotientRightWhenAligned == op[1] = "div" /\ Aligned => RoundedQuotient

\* "Divisao inteira A / B => Q e R. Garante: A = Q*B + R, 0 <= R < B"
\* (cfl_number.c:498), rounded half up: for every operand.
QuotientRight == op[1] = "div" => RoundedQuotient
=============================================================================
