----------------------------- MODULE CModelFp32 -----------------------------
(* The floating-point arithmetic of the C reference model for the BF16 core *)
(* (cmodel/csrc/attention_math.cpp), which it builds from integers the way  *)
(* the core does: a sum from significands with guard bits, products in the  *)
(* fixed-point format Q16.16, and the dot product of one score.             *)
(*                                                                          *)
(* A float is its three fields; their widths are parameters, so that TLC    *)
(* can try all pairs of numbers of a narrow format.                         *)
EXTENDS Integers

CONSTANTS
  ExpBits, FracBits,   \* 8 and 23
  QFrac, WordBits,     \* 16 fraction bits of Q16.16, in words of 32
  Operands             \* the elements of q and k

ASSUME FormatAssumption ==
  /\ {ExpBits, FracBits, QFrac, WordBits} \subseteq Nat \ {0}
  /\ QFrac <= FracBits /\ FracBits + 1 < WordBits

Bias   == 2^(ExpBits - 1) - 1
ExpMax == 2^ExpBits - 1
Hidden == 2^FracBits

Floats == [sign : BOOLEAN, exp : 0 .. ExpMax, frac : 0 .. Hidden - 1]
Float(sign, exp, frac) == [sign |-> sign, exp |-> exp, frac |-> frac]

Inf(sign)  == Float(sign, ExpMax, 0)
Zero(sign) == Float(sign, 0, 0)
QuietNan   == Float(FALSE, ExpMax, Hidden \div 2)

is_nan(x)  == x.exp = ExpMax /\ x.frac # 0
is_inf(x)  == x.exp = ExpMax /\ x.frac = 0
is_zero(x) == x.exp = 0 /\ x.frac = 0

exp_eff(x) == IF x.exp = 0 THEN 1 ELSE x.exp
sig(x)     == IF x.exp = 0 THEN x.frac ELSE Hidden + x.frac

fp32_neg_bits(x) == [x EXCEPT !.sign = ~@]

-----------------------------------------------------------------------------
(* The sum. Significands get three guard bits; the last one is sticky.      *)

SigBits == FracBits + 4

\* Mutant of shift_right_sticky_27: what is shifted out is forgotten.
shift_right_27(v, shamt) == v \div 2^shamt

\* v shifted right, its last bit set when a bit that is set was shifted out.
shift_right_sticky_27(v, shamt) ==
  IF shamt >= SigBits THEN (IF v # 0 THEN 1 ELSE 0)
  ELSE LET shifted == v \div 2^shamt
       IN  IF v % 2^shamt # 0 /\ shifted % 2 = 0 THEN shifted + 1 ELSE shifted

\* A significand with guard bits, rounded to the nearest, to even between two.
Rounded(s) == (s \div 8) + (IF s % 8 > 4 \/ (s % 8 = 4 /\ s % 16 >= 8) THEN 1 ELSE 0)

\* The float of a sign, an exponent and a significand with guard bits that is
\* normalised, or has exponent 1.
Packed(sign, exp, s) ==
  IF s < 2^(SigBits - 1)
  THEN IF Rounded(s) >= Hidden THEN Float(sign, 1, 0) ELSE Float(sign, 0, Rounded(s))
  ELSE IF Rounded(s) = 2 * Hidden
       THEN IF exp >= ExpMax - 1 THEN Inf(sign) ELSE Float(sign, exp + 1, 0)
       ELSE IF exp >= ExpMax THEN Inf(sign) ELSE Float(sign, exp, Rounded(s) - Hidden)

\* How far a difference of exponent exp is shifted left again.
Normalising(s, exp) ==
  LET far(n) == s * 2^n >= 2^(SigBits - 1) \/ exp - n = 1
  IN  CHOOSE n \in 0 .. exp - 1 : far(n) /\ \A k \in 0 .. n - 1 : ~far(k)

\* The finite numbers large and small, of which large has the larger magnitude.
AddedFinite(large, small) ==
  LET ext     == 8 * sig(large)
      shifted == shift_right_sticky_27(8 * sig(small), exp_eff(large) - exp_eff(small))
      sum     == ext + shifted
      diff    == ext - shifted
      n       == Normalising(diff, exp_eff(large))
  IN  IF large.sign = small.sign
      THEN IF sum >= 2^SigBits
           THEN Packed(large.sign, exp_eff(large) + 1, shift_right_sticky_27(sum, 1))
           ELSE Packed(large.sign, exp_eff(large), sum)
      ELSE IF diff = 0 THEN Zero(FALSE)
           ELSE Packed(large.sign, exp_eff(large) - n, diff * 2^n)

fp32_add_rtl_bits(a, b) ==
  LET a_is_large == \/ exp_eff(a) > exp_eff(b)
                    \/ exp_eff(a) = exp_eff(b) /\ sig(a) >= sig(b)
  IN  CASE is_nan(a) \/ is_nan(b) -> QuietNan
        [] is_inf(a) /\ is_inf(b) -> IF a.sign = b.sign THEN a ELSE QuietNan
        [] is_inf(a) /\ ~is_inf(b) /\ ~is_nan(b) -> a
        [] is_inf(b) /\ ~is_inf(a) /\ ~is_nan(a) -> b
        [] is_zero(a) /\ is_zero(b) -> Zero(a.sign /\ b.sign)
        [] OTHER -> IF a_is_large THEN AddedFinite(a, b) ELSE AddedFinite(b, a)

fp32_max_bits(a, b) ==
  LET Magnitude(x) == x.exp * Hidden + x.frac
      larger == IF a.sign # b.sign THEN (IF a.sign THEN b ELSE a)
                ELSE IF a.sign THEN (IF Magnitude(a) < Magnitude(b) THEN a ELSE b)
                ELSE (IF Magnitude(a) > Magnitude(b) THEN a ELSE b)
  IN  CASE is_nan(a) /\ is_nan(b) -> QuietNan
        [] is_nan(a) /\ ~is_nan(b) -> b
        [] is_nan(b) /\ ~is_nan(a) -> a
        [] is_zero(a) /\ is_zero(b) -> Zero(FALSE)
        [] OTHER -> larger

-----------------------------------------------------------------------------
(* Products. Both operands go to Q16.16, the product comes back from it.    *)

\* Rounded to the nearest, to even between two. What is shifted by a word or
\* more comes out as 1 and not as 0.
round_shift_right_rne_32(value, shamt) ==
  IF shamt <= 0 THEN value
  ELSE IF shamt >= WordBits THEN (IF value # 0 THEN 1 ELSE 0)
  ELSE LET base == value \div 2^shamt
           rest == value % 2^shamt
       IN  IF 2 * rest > 2^shamt \/ (2 * rest = 2^shamt /\ base % 2 = 1) THEN base + 1 ELSE base

\* Saturates. A shift by 64 or more, which C++ leaves undefined, needs a number
\* beyond 2^70.
fp32_to_q16_16_signed(x) ==
  LET shift_i == exp_eff(x) - Bias - (FracBits - QFrac)
      top     == 2^(WordBits - 1) - 1
      mag     == IF shift_i >= 0 THEN sig(x) * 2^shift_i
                                 ELSE round_shift_right_rne_32(sig(x), -shift_i)
      mag_q   == IF mag > top THEN top ELSE mag
  IN  IF x.sign THEN -mag_q ELSE mag_q

find_msb_idx_u32(v) == CHOOSE n \in 0 .. WordBits - 1 : 2^n <= v /\ v < 2^(n + 1)

\* The significand is cut to 24 bits before it is seen whether rounding has
\* made it longer.
q16_16_to_fp32_signed(q_val) ==
  LET mag_q == IF q_val < 0 THEN -q_val ELSE q_val
      msb   == find_msb_idx_u32(mag_q)
      sig24 == (IF msb > FracBits THEN round_shift_right_rne_32(mag_q, msb - FracBits)
                                  ELSE mag_q * 2^(FracBits - msb)) % (2 * Hidden)
  IN  IF mag_q = 0 THEN Zero(FALSE)
      ELSE Float(q_val < 0, msb - QFrac + Bias, sig24 % Hidden)

\* The product is cast to a word, so one that is too long wraps around.
fp32_mul_q16_bits(a, b) ==
  LET prod  == fp32_to_q16_16_signed(a) * fp32_to_q16_16_signed(b)
      half  == 2^(QFrac - 1)
      whole == (IF prod >= 0 THEN prod + half ELSE prod - half) \div 2^QFrac
      word  == 2^WordBits
  IN  q16_16_to_fp32_signed(((whole + word \div 2) % word) - word \div 2)

-----------------------------------------------------------------------------
(* The dot product of a query and a key.                                    *)

VARIABLE score_bits

Fp32Init == score_bits = Zero(FALSE)

AccumulateScore ==
  \E q, k \in Operands : score_bits' = fp32_add_rtl_bits(score_bits, fp32_mul_q16_bits(q, k))
=============================================================================
