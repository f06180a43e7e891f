------------------------------- MODULE CModel -------------------------------
(* The C reference model of the attention block (cmodel/csrc), the model    *)
(* the HLS kernel is compared with. It has its own copies of the fixed-     *)
(* point helpers, so they are translated from there and not shared with     *)
(* FixedPoint: a difference between the two sources is a difference here.   *)
(*                                                                          *)
(* Of its modes, those are modelled that the runs compare with: the two the *)
(* kernels implement, and the one that divides exactly.                     *)
EXTENDS Bytes, SequencesExt

Modes == {"RTL_STRICT", "RTL_CTX_STEP_ACC24", "FIXED_HIACC_QOUT"}

Between(low, n, high) == IF n < low THEN low ELSE IF n > high THEN high ELSE n

sat_s16(v) == Between(-32768, v, 32767)

\* The value of the low 16 bits as an int16_t.
AsInt16(n) == IF n % 65536 < 32768 THEN n % 65536 ELSE (n % 65536) - 65536

q8_8_mul_sat(a, b) ==
  LET prod == a * b
  IN  sat_s16((prod + IF prod >= 0 THEN 128 ELSE -128) \div 256)

-----------------------------------------------------------------------------
(* The exponentials of x <= 0 in Q1.15.                                     *)

PwlSegments == <<<<32767, 12055>>, <<12055, 4431>>, <<4431, 1631>>, <<1631, 600>>,
                 <<600, 221>>, <<221, 81>>, <<81, 30>>, <<30, 11>>>>

exp_pwl_q1_15(x_q8_8) ==
  LET u    == Between(0, -x_q8_8, 2048)
      last == u = 2048
      y    == PwlSegments[IF last THEN 8 ELSE (u \div 256) + 1]
  IN  y[1] - ((y[1] - y[2]) * (IF last THEN 255 ELSE u % 256)) \div 256

kCtxExp2Table ==
  <<32768, 32066, 31379, 30706, 30048, 29405, 28774, 28158,
    27554, 26964, 26386, 25821, 25268, 24726, 24196, 23678,
    23170, 22674, 22188, 21713, 21247, 20792, 20347, 19911,
    19484, 19066, 18658, 18258, 17867, 17484, 17109, 16743>>

\* -x * log2(e) in Q8.8.
ExponentOf(x_q8_8) == (369 * Between(0, -x_q8_8, 4096) + 128) \div 256

exp2_ctx_step_q1_15(x_q8_8) ==
  LET z == ExponentOf(x_q8_8)
  IN  IF z >= 16 * 256 THEN 0
      ELSE kCtxExp2Table[((z % 256) \div 8) + 1] \div 2^(z \div 256)

ExpOf(mode, x) ==
  IF mode = "RTL_CTX_STEP_ACC24" THEN exp2_ctx_step_q1_15(x) ELSE exp_pwl_q1_15(x)

-----------------------------------------------------------------------------
(* The reciprocal of a denominator in Q16.16, a word of four bytes.         *)

AllOnes == Halves(65535, 65535)

\* a * b, shifted right by s, in 32 bits.
Product(a, b, s) == SubSeq(Shr(Times(Zext(a, 8), Zext(b, 8)), s), 1, 4)

mul_q1_31(a, b) == Product(a, b, 32)
mul_q1_31_corr(a, b, corr_ov) == IF corr_ov THEN a ELSE Product(a, b, 31)

clz32_cpp(val) ==
  Cardinality({n \in 0 .. 31 : IsZero(Shr(val, n))})

lut ==
  <<<<64527, 49404>>, <<62601, 36192>>, <<60787, 950>>, <<59074, 46152>>,
    <<57456, 14364>>, <<55924, 3495>>, <<54471, 31491>>, <<53092, 29865>>,
    <<51781, 34791>>, <<50533, 51323>>, <<49344, 49345>>, <<48210, 25612>>,
    <<47127, 736>>, <<46091, 16564>>, <<45100, 2819>>, <<44150, 37252>>,
    <<43240, 16215>>, <<42366, 46339>>, <<41527, 49963>>, <<40721, 26087>>,
    <<39945, 49308>>, <<39199, 6737>>, <<38479, 55916>>, <<37786, 34244>>,
    <<37117, 48137>>, <<36472, 13677>>, <<35848, 49292>>, <<35246, 16522>>,
    <<34663, 43871>>, <<34100, 2131>>, <<33554, 28312>>, <<33026, 1032>>>>

recip_nr_rtl_q16_16(x) ==
  LET lz      == clz32_cpp(x)
      d_norm  == Shl(x, lz)
      entry   == lut[(Low32(Shr(d_norm, 26)) % 32) + 1]
      step(r) == LET corr_w == Minus(Shl(Word(1, 8), 32), Zext(mul_q1_31(d_norm, r), 8))
                 IN  mul_q1_31_corr(r, SubSeq(corr_w, 1, 4), corr_w[5] % 2 = 1)
      r2      == step(step(Halves(entry[1], entry[2])))
  IN  IF x \in {Word(0, 4), Word(1, 4)} THEN AllOnes ELSE Shr(r2, 31 - lz)

-----------------------------------------------------------------------------
(* online_rtl_like. The matrices are functions of row and column, with S    *)
(* rows and D columns; scale_q8_8 is 256 / sqrt(D), rounded.                *)

\* (a * e) >> 15 of a signed a.
Scaled(a, e) == LET hi == a \div 32768 IN hi * e + ((a - hi * 32768) * e) \div 32768

\* The accumulators have 16 fraction bits in RTL_CTX_STEP_ACC24, 24 otherwise.
PvTerm(mode, exp_new, v) ==
  IF mode = "RTL_CTX_STEP_ACC24" THEN (exp_new * v) \div 128 ELSE exp_new * v * 2

KeyStep(mode, old, score, v) ==
  LET step(row) ==
        LET m_new   == IF score > row.m THEN score ELSE row.m
            exp_old == ExpOf(mode, AsInt16(row.m - m_new))
            exp_new == ExpOf(mode, AsInt16(score - m_new))
        IN  [m |-> m_new, l |-> Scaled(row.l, exp_old) + exp_new * 2,
             acc |-> [d \in DOMAIN v |-> Scaled(row.acc[d], exp_old) + PvTerm(mode, exp_new, v[d])]]
  IN  Evaluated(Applied(step, old))

ScoreQ8_8(q, k, scale) ==
  LET dp == MapThenSumSet(LAMBDA d : q[d] * k[d], DOMAIN q)
  IN  q8_8_mul_sat(AsInt16(dp \div 256), scale)

\* num * recip, from Q.40 to Q8.8 (num has 24 fraction bits): half is added on the
\* side of the product's sign, and the shift rounds down.
RoundedProduct(num, recip) ==
  LET mul  == Times(num, Sext(recip, Wide))
      bias == Shl(Word(1, Wide), 31)
  IN  sat_s16(Low32(Sar(IF Negative(mul) THEN Minus(mul, bias) ELSE Plus(mul, bias), 32)))

\* num / den, rounded half away from zero.
div_round_sat_s16(num, den) ==
  LET mag == (IF num < 0 THEN -num ELSE num) + den \div 2
      q   == IF num < 0 THEN -(mag \div den) ELSE mag \div den
  IN  IF den = 0 THEN (IF num >= 0 THEN 32767 ELSE -32768) ELSE sat_s16(q)

\* The output of a row whose keys have all been taken.
Normalized(mode, row) ==
  LET num(acc) == IF mode = "RTL_STRICT" THEN Word(acc, Wide) ELSE Shl(Word(acc, Wide), 8)
      times(recip) == [d \in DOMAIN row.acc |-> RoundedProduct(num(row.acc[d]), recip)]
  IN  IF mode = "FIXED_HIACC_QOUT"
      THEN [d \in DOMAIN row.acc |-> div_round_sat_s16(row.acc[d], row.l)]
      ELSE Evaluated(Applied(times, recip_nr_rtl_q16_16(Word(row.l, 4))))

\* A key that is masked has the score neg_large, or is passed over (hard_mask).
\* Rows beyond the last whole tile of queries stay 0, and keys beyond the last
\* whole tile are not looked at.
online_rtl_like(Q, K, V, S, TQ, TK, scale, causal, mode, neg_large, hard_mask) ==
  LET keys == [n \in 1 .. (S \div TK) * TK |-> n - 1]
      masked(i, j) == causal /\ j > i
      fresh == [m |-> neg_large, l |-> 0, acc |-> [d \in DOMAIN Q[0] |-> 0]]
      row(i) ==
        FoldLeft(LAMBDA r, j :
                   IF masked(i, j) /\ hard_mask THEN r
                   ELSE KeyStep(mode, r, IF masked(i, j) THEN neg_large
                                                         ELSE ScoreQ8_8(Q[i], K[j], scale), V[j]),
                 fresh, keys)
      normalized(r) == Normalized(mode, r)
  IN  [i \in 0 .. S - 1 |-> IF i < (S \div TQ) * TQ THEN Applied(normalized, row(i))
                                                    ELSE [d \in DOMAIN Q[0] |-> 0]]
=============================================================================
