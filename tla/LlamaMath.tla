----------------------------- MODULE LlamaMath -----------------------------
(* The arithmetic of the llama programs. A float is abstracted to one of 17 *)
(* numbers: sums and products wrap around, which keeps apart what is        *)
(* computed from different operands; the functions of the C library are     *)
(* fixed functions of such numbers. What is kept of exp is that it grows    *)
(* and turns sums into products: it is a power of two. Vectors are          *)
(* functions from indices that start at 0.                                  *)
EXTENDS Evaluation, Integers, Sequences, SequencesExt, FiniteSetsExt

CONSTANTS
  ScoreUnit,         \* what a dot product is divided by: sqrt(head_size)
  Q8_8Min, Q8_8Max   \* the range of q8_8_t: -128.0 to 127.996

ASSUME ScoreUnitAssumption == ScoreUnit \in Nat \ {0}

ASSUME Q8_8Assumption == Q8_8Min \in Int /\ Q8_8Max \in Int /\ Q8_8Min <= 0 /\ 0 <= Q8_8Max

Num(n) == ((n + 8) % 17) - 8
Numbers == -8 .. 8

Larger(a, b) == IF a > b THEN a ELSE b

\* n / d as a number, d > 0: cut off towards 0.
Quotient(n, d) == IF n < 0 THEN -((-n) \div d) ELSE n \div d

\* v * exp(d) for d <= 0, where 2^16 stands for 1.
One == 65536
TimesExp(v, d) == IF d < -16 THEN 0 ELSE v \div 2^(-d)

DotProduct(a, b, n) == MapThenSumSet(LAMBDA i : a[i] * b[i], 0 .. n - 1)

\* W (d, n) @ x (n,): row i of W starts at w + i * n of the weights.
matmul(x, weights, w, n, d) ==
  LET product(in) ==
        [i \in 0 .. in.d - 1 |->
           Num(MapThenSumSet(LAMBDA j : weights[in.w + i * in.n + j] * in.x[j], 0 .. in.n - 1))]
  IN  Evaluated(Applied(product, [x |-> x, w |-> w, n |-> n, d |-> d]))

\* The inverse root of the mean square is a function of the sum of squares.
rmsnorm(x, weights, w, size) ==
  LET scaled(in) == [j \in DOMAIN in.x |-> Num(weights[in.w + j] * in.ss * in.x[j])]
  IN  Evaluated(Applied(scaled, [x |-> x, w |-> w, ss |-> Num(3 * DotProduct(x, x, size) + 1)]))

\* exp of the differences to the maximum; the quotients by their sum are left
\* to the caller.
softmax(x, size) ==
  LET summed(e) == [exp |-> e, sum |-> MapThenSumSet(LAMBDA i : e[i], DOMAIN e)]
      exps(in) == [i \in 0 .. in.size - 1 |-> TimesExp(One, in.x[i] - in.max_val)]
  IN  Applied(summed, Applied(exps, [x |-> x, size |-> size,
                                     max_val |-> Max({x[i] : i \in 0 .. size - 1})]))

\* cos and sin of the angle of a position and a dimension.
fcr(pos, head_dim) == ((3 * pos + 5 * head_dim) % 7) - 3
fci(pos, head_dim) == ((2 * pos * pos + head_dim) % 5) - 2

\* The rotation of every head of a vector of n heads.
RoPE(x, pos, n, head_size) ==
  LET rotated(in) ==
        [e \in 0 .. n * in.size - 1 |->
           LET half == in.size \div 2
               d == e % in.size
               a == IF d < half THEN d ELSE d - half
           IN  IF d < half THEN Num(in.x[e] * fcr(in.pos, a) - in.x[e + half] * fci(in.pos, a))
                           ELSE Num(in.x[e - half] * fci(in.pos, a) + in.x[e] * fcr(in.pos, a))]
  IN  Evaluated(Applied(rotated, [x |-> x, pos |-> pos, size |-> head_size]))

\* silu(hb) * hb2.
SwiGLU(hb, hb2) ==
  LET product(h) == [i \in DOMAIN h[1] |-> Num((h[1][i] * h[1][i] + 2 * h[1][i]) * h[2][i])]
  IN  Evaluated(Applied(product, <<hb, hb2>>))

Sum(x, y) ==
  LET sum(v) == [i \in DOMAIN v[1] |-> Num(v[1][i] + v[2][i])]
  IN  Evaluated(Applied(sum, <<x, y>>))

-----------------------------------------------------------------------------
(* The attention of one head over the cache: the loops of run.c, which keep *)
(* every score (Score, Weighted), and flash_attn.c, which goes through the  *)
(* keys once with operands cut to Q8.8 (fa_core_q8_8). The caches are flat, *)
(* one row of kv_dim numbers per position; kv_mul query heads share a kv    *)
(* head.                                                                    *)

float_to_q8_8(val) ==
  IF val > Q8_8Max THEN Q8_8Max ELSE IF val < Q8_8Min THEN Q8_8Min ELSE val

\* The score of the key at position t for a head, whose query is q.
Score(q, k_cache, t, head, head_size, kv_mul, kv_dim) ==
  LET k == t * kv_dim + (head \div kv_mul) * head_size
  IN  MapThenSumSet(LAMBDA i : q[i] * k_cache[k + i], 0 .. head_size - 1) \div ScoreUnit

\* The sum of the values of the positions up to pos, weighted by the softmax of
\* the scores.
Weighted(att, v_cache, pos, head, head_size, kv_mul, kv_dim) ==
  LET v(t) == t * kv_dim + (head \div kv_mul) * head_size
  IN  [i \in 0 .. head_size - 1 |->
         Quotient(MapThenSumSet(LAMBDA t : att.exp[t] * v_cache[v(t) + i], 0 .. pos), att.sum)]

\* One pass over the keys, with the running maximum m, the sum l of the weights
\* and the weighted sum of the values o. No score is below -1e20.
NoScore == -1000

fa_core_q8_8(q, k_cache, v_cache, seq_len, head_size, head_idx, kv_mul, kv_dim) ==
  LET v(t) == t * kv_dim + (head_idx \div kv_mul) * head_size
      updated(prev, score, t) ==
        LET m_curr  == Larger(score, prev.m)
            exp_val == TimesExp(One, score - m_curr)
        IN  [m |-> m_curr,
             l |-> TimesExp(prev.l, prev.m - m_curr) + exp_val,
             o |-> [i \in 0 .. head_size - 1 |->
                      TimesExp(prev.o[i], prev.m - m_curr) + exp_val * v_cache[v(t) + i]]]
      key(old, t) ==
        Applied(LAMBDA prev :
                  Applied(LAMBDA score : updated(prev, score, t),
                          Score(q, k_cache, t, head_idx, head_size, kv_mul, kv_dim)), old)
      normalized(row) == [i \in 0 .. head_size - 1 |-> float_to_q8_8(Quotient(row.o[i], row.l))]
  IN  Applied(normalized,
              FoldLeft(key, [m |-> NoScore, l |-> 0, o |-> [i \in 0 .. head_size - 1 |-> 0]],
                       [n \in 1 .. seq_len + 1 |-> n - 1]))

\* The part of the work that is one head's: quantise, run the core, dequantise.
flash_attention_forward(q, k_cache, v_cache, seq_len, head, head_size, kv_mul, kv_dim) ==
  LET hw(x) == [e \in DOMAIN x |-> float_to_q8_8(x[e])]
      core(in) == fa_core_q8_8(in.q, in.k, in.v, seq_len, head_size, head, kv_mul, kv_dim)
  IN  Applied(core, [q |-> Applied(hw, q), k |-> Applied(hw, k_cache), v |-> Applied(hw, v_cache)])
=============================================================================
