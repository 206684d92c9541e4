----------------------------- MODULE HalfFloat -----------------------------
(***************************************************************************)
(* The three float widths of CBOR as bit patterns: sign, exponent, then    *)
(* mantissa.  decode and encode are cbor-core/src/half.rs; widening and    *)
(* narrowing between the other two are the language's own casts.           *)
(*                                                                         *)
(* The fields' widths are parameters so that every pattern can be checked. *)
(* The code's are 5 and 10 bits for a half, 8 and 23 for a single, 11 and  *)
(* 52 for a double.                                                        *)
(***************************************************************************)
EXTENDS Integers, Binding

CONSTANTS
  HalfExponent, HalfMantissa, SingleExponent, SingleMantissa,
  DoubleExponent, DoubleMantissa

(* A single is finer than a half at every magnitude a half can round to,   *)
(* its own subnormals included, and a double finer than a single.          *)
ASSUME FloatAssumption ==
  /\ {HalfExponent, HalfMantissa, SingleExponent, SingleMantissa,
      DoubleExponent, DoubleMantissa} \subseteq Nat \ {0, 1}
  /\ HalfMantissa < SingleMantissa /\ SingleMantissa < DoubleMantissa
  /\ HalfExponent < SingleExponent /\ SingleExponent <= DoubleExponent
  /\ 2 ^ (SingleExponent - 1) > 2 ^ (HalfExponent - 1) + HalfMantissa

Half == [exponent |-> HalfExponent, mantissa |-> HalfMantissa]
Single == [exponent |-> SingleExponent, mantissa |-> SingleMantissa]
Double == [exponent |-> DoubleExponent, mantissa |-> DoubleMantissa]

Bias(f) == 2 ^ (f.exponent - 1) - 1
Top(f) == 2 ^ f.exponent - 1                  \* exponent of infinity and NaN
Sign(f, bits) == (bits \div 2 ^ (f.exponent + f.mantissa)) % 2
Exponent(f, bits) == (bits \div 2 ^ f.mantissa) % 2 ^ f.exponent
Mantissa(f, bits) == bits % 2 ^ f.mantissa
Pack(f, sign, exponent, mantissa) ==
  (sign * 2 ^ f.exponent + exponent) * 2 ^ f.mantissa + mantissa
Patterns(f) == 0 .. 2 ^ (1 + f.exponent + f.mantissa) - 1

-----------------------------------------------------------------------------
(* decode: a subnormal half is shifted up to its implicit bit, each shift  *)
(* paid for out of the exponent.                                           *)
Shifts(mantissa) == HalfMantissa - CHOOSE k \in 0 .. HalfMantissa - 1 :
                      2 ^ k <= mantissa /\ mantissa < 2 ^ (k + 1)
Gap == SingleMantissa - HalfMantissa

decode(h) ==
  LET sign == Sign(Half, h)
      exp == Exponent(Half, h)
      mant == Mantissa(Half, h)
      wide(e, m) == Pack(Single, sign, e, m * 2 ^ Gap)
      rebias == Bias(Single) - Bias(Half)
  IN  CASE exp = 0 /\ mant = 0 -> wide(0, 0)
        [] exp = 0 /\ mant # 0 ->
             wide(rebias + 1 - Shifts(mant),
                  (mant * 2 ^ Shifts(mant)) % 2 ^ HalfMantissa)
        [] exp = Top(Half) -> wide(Top(Single), mant)
        [] OTHER -> wide(exp + rebias, mant)

(* The carry of a right shift that rounds to nearest, ties to even. *)
RoundUp_TiesUp(value, shift) ==
  IF value % 2 ^ shift >= 2 ^ (shift - 1) THEN 1 ELSE 0
RoundUp(value, shift) ==
  LET half == 2 ^ (shift - 1)
      rest == value % 2 ^ shift
      odd == (value \div 2 ^ shift) % 2 = 1
  IN  IF rest > half \/ (rest = half /\ odd) THEN 1 ELSE 0

(* encode: the carry of a normal half runs from its mantissa into its      *)
(* exponent; what falls below its normals is the whole significand shifted *)
(* by as much as the exponent falls short.                                 *)
QuietBit(mant) ==
  LET kept == mant \div 2 ^ Gap
      quiet == 2 ^ (HalfMantissa - 1)
  IN  IF mant = 0 THEN 0 ELSE IF kept < quiet THEN kept + quiet ELSE kept

encode(x) ==
  LET sign == Sign(Single, x)
      mant == Mantissa(Single, x)
      unbiased == Exponent(Single, x) - Bias(Single)
      shift == Gap + 1 - Bias(Half) - unbiased
      full == mant + 2 ^ SingleMantissa
  IN  CASE unbiased = Bias(Single) + 1 -> Pack(Half, sign, Top(Half), QuietBit(mant))
        [] unbiased > Bias(Half) /\ unbiased # Bias(Single) + 1 ->
             Pack(Half, sign, Top(Half), 0)
        [] unbiased \in 1 - Bias(Half) .. Bias(Half) ->
             Pack(Half, sign, unbiased + Bias(Half), mant \div 2 ^ Gap)
               + RoundUp(mant, Gap)
        [] unbiased < 1 - Bias(Half) ->
             IF shift > SingleMantissa + 1 THEN Pack(Half, sign, 0, 0)
             ELSE Pack(Half, sign, 0, full \div 2 ^ shift) + RoundUp(full, shift)

-----------------------------------------------------------------------------
(* What a pattern means, in units of the smallest double.                  *)
IsNaN(f, bits) == Exponent(f, bits) = Top(f) /\ Mantissa(f, bits) # 0
IsInfinite(f, bits) == Exponent(f, bits) = Top(f) /\ Mantissa(f, bits) = 0
IsFinite(f, bits) == Exponent(f, bits) # Top(f)
QuietNaN(f, sign) == Pack(f, sign, Top(f), 2 ^ (f.mantissa - 1))
Infinity(f, sign) == Pack(f, sign, Top(f), 0)

One == 2 ^ (Bias(Double) - 1 + DoubleMantissa)
Magnitude(f, bits) ==
  LET unit == One \div 2 ^ (Bias(f) - 1 + f.mantissa)
      exp == Exponent(f, bits)
      mant == Mantissa(f, bits)
  IN  IF exp = 0 THEN mant * unit ELSE (mant + 2 ^ f.mantissa) * unit * 2 ^ (exp - 1)

(* The finite pattern of the format nearest to a magnitude, ties to even,  *)
(* with what would be the next one standing for infinity.  Patterns are in *)
(* the order of their magnitudes.                                          *)
Nearest(f, sign, magnitude) ==
  LET top == Pack(f, 0, Top(f), 0)
      From(e) == Magnitude(f, Pack(f, 0, e, 0))
      Apart(e) == (From(e + 1) - From(e)) \div 2 ^ f.mantissa
      Binade(m) == CHOOSE e \in 0 .. Top(f) : From(e) <= m /\ (e = Top(f) \/ m < From(e + 1))
      Below(m) == With(Binade(m), LAMBDA e :
                    IF e = Top(f) THEN top ELSE Pack(f, 0, e, 0) + (m - From(e)) \div Apart(e))
      Rounded(m, below) ==
        LET down == m - Magnitude(f, below)
            up == Magnitude(f, below + 1) - m
            above == below # top /\ (up < down \/ (up = down /\ below % 2 = 1))
        IN  IF above THEN below + 1 ELSE below
  IN  With(magnitude, LAMBDA m :
        With(Below(m), LAMBDA below : Pack(f, sign, 0, 0) + Rounded(m, below)))

Convert(from, to, bits) ==
  IF IsNaN(from, bits) THEN QuietNaN(to, Sign(from, bits))
  ELSE IF IsInfinite(from, bits) THEN Infinity(to, Sign(from, bits))
  ELSE Nearest(to, Sign(from, bits), Magnitude(from, bits))

FromWhole(v) == IF v < 0 THEN Nearest(Double, 1, -v * One) ELSE Nearest(Double, 0, v * One)
=============================================================================
