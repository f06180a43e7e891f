---------------------------- MODULE HlsAttention ----------------------------
(* What the HLS attention kernel computes with: scores, the online softmax  *)
(* of a row, its normalisation, and the strict kernel, which is a loop over *)
(* rows and keys (run_attention_strict). TiledKernel is the kernel the FPGA *)
(* runs.                                                                    *)
(*                                                                          *)
(* Memory is a function from element indices to Q8.8 numbers; row r of a    *)
(* matrix starts at element r * stride_elems. A call is a record with the   *)
(* arguments of the kernel.                                                 *)
EXTENDS FixedPoint, SequencesExt

CONSTANTS
  HeadDim,      \* kHeadDim: 64
  DotLanes,     \* kDotLanes: 8 partial sums of the dot product
  TileQ,        \* kTileQ: 32 rows of Q in a tile
  TileK,        \* kTileK: 64 keys in a tile
  SoftmaxCtxs,  \* kSoftmaxCtxs: 4 row pairs in a batch
  MaxSeqLen     \* kMaxSeqLen: 256

RowPar == 2                              \* kRowPar: the rows of a pair
QPairBatchRows == RowPar * SoftmaxCtxs
QPairBatchCount == TileQ \div QPairBatchRows

ASSUME HlsShape ==
  /\ {HeadDim, DotLanes, TileQ, TileK, SoftmaxCtxs, MaxSeqLen} \subseteq Nat \ {0}
  /\ TileQ % QPairBatchRows = 0

Dims == 0 .. HeadDim - 1

\* The arguments of a kernel whose matrices are in Memory; null says that one
\* of the pointers is null.
Arguments(Memory) ==
  [q : Memory, k : Memory, v : Memory, null : BOOLEAN, seq_len : Int, stride_bytes : Nat,
   scale : S16, neg_large : S16, causal : BOOLEAN]

Clamped(seq_len) == IF seq_len < 0 THEN 0 ELSE IF seq_len > MaxSeqLen THEN MaxSeqLen ELSE seq_len

StrideElems(c) == IF c.stride_bytes \div 2 < HeadDim THEN HeadDim ELSE c.stride_bytes \div 2

Tiles(seq_len, tile) == (seq_len + tile - 1) \div tile

ClearedProfile ==
  [seq_len |-> 0, q_tiles |-> 0, k_tiles |-> 0, score_evals |-> 0, norm_rows |-> 0,
   valid_score_evals |-> 0, load_q_elems |-> 0, load_kv_elems |-> 0, store_o_elems |-> 0,
   init_rows |-> 0, normalize_rows |-> 0, kv_tile_iters |-> 0]

\* Row r of a matrix in memory, or of zeros when it is not one of the valid ones.
Row(memory, r, stride, valid) ==
  [d \in Dims |-> IF valid THEN memory[r * stride + d] ELSE 0]

-----------------------------------------------------------------------------
(* Scores. *)

\* Product i of two vectors is added into partial sum i modulo DotLanes.
dotprod_q8_8_single(lhs, rhs, dim) ==
  LET lane(n) == MapThenSumSet(LAMBDA i : lhs[i] * rhs[i], {i \in 0 .. dim - 1 : i % DotLanes = n})
  IN  MapThenSumSet(lane, 0 .. DotLanes - 1)

\* That of two rows (dotprod_q8_8_pair does it for two queries at a time).
dotprod_q8_8(lhs, rhs) == dotprod_q8_8_single(lhs, rhs, HeadDim)

\* A mutant of Masked: a row sees the key after its own.
MaskedTooLate(c, i, j) == c.causal /\ j > i + 1
Masked(c, i, j) == c.causal /\ j > i

\* The score of key j for row i, from their dot product: its low 16 bits in
\* Q8.8, scaled.
ScoreOf(c, dp, i, j) ==
  IF Masked(c, i, j) THEN c.neg_large
                     ELSE q8_8_mul_sat(ToS16(dp \div 256), c.scale)

-----------------------------------------------------------------------------
(* One row: its maximum, its denominator in Q16.16 and its accumulators.    *)

FreshRow(neg_large) == [m |-> neg_large, l |-> 0, acc |-> [d \in Dims |-> 0]]

\* The tiled kernel's accumulators hold 16 fraction bits, the strict one's 24.
WeighQ16_16(exp_new, v) == (exp_new * v) \div 128
WeighQ8_24(exp_new, v)  == 2 * exp_new * v

\* One key into a row. The differences to the new maximum are cast to 16 bits;
\* the strict kernel takes its exponentials from another table.
RowStep(old, score, v, strict) ==
  LET Exp(diff)   == IF strict THEN exp_pwl_q1_15(diff) ELSE exp2_ctx_q1_15(diff)
      Weigh(e, n) == IF strict THEN WeighQ8_24(e, n) ELSE WeighQ16_16(e, n)
      step(row) ==
        LET m_new   == IF score > row.m THEN score ELSE row.m
            exp_old == Exp(ToS16(row.m - m_new))
            exp_new == Exp(ToS16(score - m_new))
        IN  [m   |-> m_new,
             l   |-> ScaledQ1_15(row.l, exp_old) + 2 * exp_new,
             acc |-> [d \in Dims |-> ScaledQ1_15(row.acc[d], exp_old) + Weigh(exp_new, v[d])]]
  IN  Evaluated(Applied(step, old))

online_softmax_ctx_acc_row_step(row, score, v) == RowStep(row, score, v, FALSE)

o_normalize_block_row(row) ==
  Applied(LAMBDA recip :
            [d \in Dims |-> IF row.l = 0 THEN (IF row.acc[d] >= 0 THEN 32767 ELSE -32768)
                            ELSE NormalizedQ8_8(Shl(Word(row.acc[d], Wide), 8), recip)],
          recip_nr_rtl_q16_16(Word(row.l, 4)))

-----------------------------------------------------------------------------
(* The strict kernel. *)

StrictStep(row, score, v) == RowStep(row, score, v, TRUE)

StrictRow(c, i) ==
  LET stride == StrideElems(c)
      q      == Row(c.q, i, stride, TRUE)
      key(row, j) ==
        StrictStep(row, ScoreOf(c, dotprod_q8_8(q, Row(c.k, j, stride, TRUE)), i, j),
                   Row(c.v, j, stride, TRUE))
  IN  FoldLeft(key, FreshRow(c.neg_large), [n \in 1 .. Clamped(c.seq_len) |-> n - 1])

StrictNormalized(row) ==
  Applied(LAMBDA recip : [d \in Dims |-> NormalizedQ8_8(Word(row.acc[d], Wide), recip)],
          recip_nr_rtl_q16_16(Word(row.l, 4)))

\* The memory the strict kernel leaves in o.
run_attention_strict(c, o) ==
  LET stride == StrideElems(c)
      stored(out) == [e \in DOMAIN o |-> IF e \div stride \in DOMAIN out /\ e % stride \in Dims
                                         THEN out[e \div stride][e % stride] ELSE o[e]]
  IN  Applied(stored, [i \in 0 .. Clamped(c.seq_len) - 1 |-> StrictNormalized(StrictRow(c, i))])

StrictProfile(c) ==
  LET n == Clamped(c.seq_len)
  IN  [ClearedProfile EXCEPT !.seq_len = n, !.q_tiles = Tiles(n, TileQ), !.k_tiles = Tiles(n, TileK),
                             !.score_evals = n * n, !.norm_rows = n]
=============================================================================
