----------------------------- MODULE FixedPoint -----------------------------
(* The fixed-point helpers the HLS kernels share: Q8.8 scores and values,   *)
(* exponentials in Q1.15, the reciprocal of a Q16.16 denominator.           *)
(*                                                                          *)
(* Numbers of 16 bits, and sums of them that stay within 32, are integers;  *)
(* the products of 32-bit numbers are words of Bytes.                       *)
EXTENDS Bytes

S16 == -32768 .. 32767
U32Max == Halves(65535, 65535)

\* static_cast<int16_t> of a wider integer.
ToS16(n) == ((n + 32768) % 65536) - 32768

sat_s16(v) == IF v > 32767 THEN 32767 ELSE IF v < -32768 THEN -32768 ELSE v

\* n shifted right by one byte. Half is added on the side of n's sign and the shift
\* rounds down, so a negative n comes out up to one below the nearest.
RoundShift8(n) == (IF n >= 0 THEN n + 128 ELSE n - 128) \div 256

q8_8_mul_sat(a, b) == sat_s16(RoundShift8(a * b))

\* (a * e) >> 15 for a Q1.15 factor e, without the 47-bit product.
ScaledQ1_15(a, e) == (a \div 2^15) * e + (((a % 2^15) * e) \div 2^15)

-----------------------------------------------------------------------------
(* Exponentials of x <= 0. *)

PwlTable == <<32767, 12055, 4431, 1631, 600, 221, 81, 30, 11>>

exp_pwl_q1_15(x_q8_8) ==
  LET u    == IF x_q8_8 > 0 THEN 0 ELSE IF x_q8_8 < -2048 THEN 2048 ELSE -x_q8_8
      seg  == IF u \div 256 >= 8 THEN 7 ELSE u \div 256
      frac == IF u \div 256 >= 8 THEN 255 ELSE u % 256
      y0   == PwlTable[seg + 1]
      y1   == PwlTable[seg + 2]
  IN  y0 - ((y0 - y1) * frac) \div 256

Exp2Table ==
  <<32768, 32066, 31379, 30706, 30048, 29405, 28774, 28158,
    27554, 26964, 26386, 25821, 25268, 24726, 24196, 23678,
    23170, 22674, 22188, 21713, 21247, 20792, 20347, 19911,
    19484, 19066, 18658, 18258, 17867, 17484, 17109, 16743>>

exp2_ctx_q1_15(x_q8_8) ==
  LET mag == IF x_q8_8 > 0 THEN 0 ELSE IF x_q8_8 < -4096 THEN 4096 ELSE -x_q8_8
      z   == (mag * 369 + 128) \div 256
  IN  IF z \div 256 >= 16 THEN 0
      ELSE Exp2Table[((z \div 8) % 32) + 1] \div 2^(z \div 256)

-----------------------------------------------------------------------------
(* The reciprocal: a table lookup and two Newton-Raphson steps in Q1.31.    *)

mul_q1_31(a, b) == SubSeq(Times(Zext(a, 8), Zext(b, 8)), 5, 8)

mul_q1_31_corr(a, b, corr_ov) ==
  IF corr_ov THEN a ELSE SubSeq(Shr(Times(Zext(a, 8), Zext(b, 8)), 31), 1, 4)

clz32_cpp(w) ==
  IF IsZero(w) THEN 32
  ELSE CHOOSE n \in 0 .. 31 : Shr(w, 31 - n) = Word(1, 4)

RecipLut ==
  <<<<64527, 49404>>, <<62601, 36192>>, <<60787, 950>>, <<59074, 46152>>,
    <<57456, 14364>>, <<55924, 3495>>, <<54471, 31491>>, <<53092, 29865>>,
    <<51781, 34791>>, <<50533, 51323>>, <<49344, 49345>>, <<48210, 25612>>,
    <<47127, 736>>, <<46091, 16564>>, <<45100, 2819>>, <<44150, 37252>>,
    <<43240, 16215>>, <<42366, 46339>>, <<41527, 49963>>, <<40721, 26087>>,
    <<39945, 49308>>, <<39199, 6737>>, <<38479, 55916>>, <<37786, 34244>>,
    <<37117, 48137>>, <<36472, 13677>>, <<35848, 49292>>, <<35246, 16522>>,
    <<34663, 43871>>, <<34100, 2131>>, <<33554, 28312>>, <<33026, 1032>>>>

\* A mutant of RefinedRecip: the steps are left out.
Unrefined(d_norm, r) == r

\* One Newton-Raphson step: r * (2 - d * r), with the correction 2 - d * r on
\* 33 bits and the step left out when that is 2.
RefinedRecip(d_norm, r) ==
  LET dr == mul_q1_31(d_norm, r)
  IN  mul_q1_31_corr(r, Negate(dr), IsZero(dr))

recip_nr_rtl_q16_16(x_q16_16) ==
  LET lz     == clz32_cpp(x_q16_16)
      d_norm == Shl(x_q16_16, lz)
      seed   == RecipLut[((d_norm[4] \div 4) % 32) + 1]
      r2     == RefinedRecip(d_norm, RefinedRecip(d_norm, Halves(seed[1], seed[2])))
  IN  IF lz >= 31 THEN U32Max ELSE Shr(r2, 31 - lz)   \* lz >= 31: x is 0 or 1

\* num * recip in Q32.32, rounded as in RoundShift8 and saturated to Q8.8; the
\* reciprocal is read as an int32_t.
NormalizedQ8_8(num, recip) ==
  LET mul  == Times(num, Sext(recip, Wide))
      half == Zext(Halves(32768, 0), Wide)
  IN  sat_s16(Low32(Sar(IF Negative(mul) THEN Minus(mul, half) ELSE Plus(mul, half), 32)))
=============================================================================
