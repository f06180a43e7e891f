---------------------------- MODULE CoreDatapath ----------------------------
(* The pipelines of the RTL core (fa_attention_core.sv with the blocks it   *)
(* instantiates), one clock edge per step and bit for bit: dot products of  *)
(* two rows and a key in chunks, with tags travelling beside them; the      *)
(* online softmax of four pairs of rows, whose states are forwarded to keys *)
(* that come before they are written; the reciprocals and the normalised    *)
(* rows. How tiles get into and out of the buffers is left to               *)
(* AttentionCore: here a tile is there when the core turns to it.           *)
EXTENDS FixedPoint, SequencesExt

CONSTANTS
  CoreCases,    \* operands, configuration and shape of a core: see CoreShape
  MaxDpLanes,   \* lanes of the dot product: 32
  NORM_LANES    \* elements normalised at a time: 8

ROW_PAR == 2
SOFTMAX_CTXS == 4
QPAIR_BATCH_ROWS == ROW_PAR * SOFTMAX_CTXS
QK_LAT == 8        \* stages of the tags
QK_STAGES == 8     \* registers of fa_qk_dotprod_slice
RECIP_LAT == 10    \* of fa_recip_nr_q16_16
NORM_STAGES == 3   \* of fa_o_normalize_block

DpLanes(c) == IF c.D < MaxDpLanes THEN c.D ELSE MaxDpLanes

\* Tiles are whole and divide the sequence; a row is at most two chunks.
ASSUME CoreShape ==
  /\ {MaxDpLanes, NORM_LANES} \subseteq Nat \ {0}
  /\ \A c \in CoreCases :
       /\ {c.D, c.TQ, c.TK, c.SEQ_LEN} \subseteq Nat \ {0}
       /\ c.SEQ_LEN % c.TQ = 0 /\ c.SEQ_LEN % c.TK = 0 /\ c.TQ % QPAIR_BATCH_ROWS = 0
       /\ c.D % DpLanes(c) = 0 /\ c.D \div DpLanes(c) \in 1 .. 2 /\ c.D % NORM_LANES = 0

\* Operands and registers are 16-bit numbers. A sequence of at most the default of 256
\* keys keeps the sums of a row within the 32 bits that the softmax has for them.
ASSUME CoreOperands ==
  \A c \in CoreCases :
    /\ c.SEQ_LEN <= 256
    /\ {c.q, c.k, c.v} \subseteq [0 .. c.SEQ_LEN - 1 -> [0 .. c.D - 1 -> S16]]
    /\ {c.scale, c.neg_large} \subseteq S16 /\ c.causal \in BOOLEAN

VARIABLES
  core,                                    \* its case
  ms, q_tile_idx, k_tile_idx, comp_start,  \* master machine
  cs, comp_batch_base, batch_done_mask, comp_done,
  qk_issue,                 \* slot, key and chunk that are issued next
  qk_tag, qk_slice,         \* tags and partial sums, the youngest first
  ret_first, score_issue,   \* first of two partial sums; complete dot products
  sm, sm_state, sm_out,     \* stages s0 to s4, states and output of the softmax
  row_ctx,                  \* row_m, row_l, row_acc
  norm, recip_pipe, norm_pipe, o_buf

engineVars == <<cs, comp_batch_base, batch_done_mask, comp_done, qk_issue, qk_tag, qk_slice,
                ret_first, score_issue, sm, sm_state, sm_out>>
normVars   == <<norm, recip_pipe, norm_pipe, o_buf>>
coreVars   == <<core, ms, q_tile_idx, k_tile_idx, comp_start, engineVars, row_ctx, normVars>>

Empty == [valid |-> FALSE]
Pair == 0 .. ROW_PAR - 1
Elements == 0 .. core.D - 1
DP_CHUNKS == core.D \div DpLanes(core)

\* A stage moves into the next one; the oldest leaves.
Shifted(pipe, entry) == <<entry>> \o Front(pipe)

FirstIssue == [slot |-> 0, kj |-> 0, chunk |-> 0, done |-> FALSE]
NewContexts == [r \in 0 .. core.TQ - 1 |-> [m |-> core.neg_large, l |-> 0, acc |-> [d \in Elements |-> 0]]]
NormIdle == [qi |-> 0, d |-> 0, recv_d |-> 0, in_valid |-> FALSE, pending |-> FALSE,
             ready |-> FALSE, den_zero |-> FALSE, recip |-> Word(0, 4), issue_done |-> FALSE]

CoreInit ==
  /\ ms = "S_INIT_CONTEXT" /\ q_tile_idx = 0 /\ k_tile_idx = 0 /\ comp_start = FALSE
  /\ cs = "C_IDLE" /\ comp_batch_base = 0 /\ batch_done_mask = {} /\ comp_done = FALSE
  /\ qk_issue = FirstIssue
  /\ qk_tag = [i \in 1 .. QK_LAT |-> [slot |-> 0, kj |-> 0, chunk_last |-> FALSE]]
  /\ qk_slice = [i \in 1 .. QK_STAGES |-> Empty]
  /\ ret_first = Empty /\ score_issue = Empty
  /\ sm = [i \in 0 .. 4 |-> Empty] /\ sm_out = Empty
  /\ sm_state = [ctx \in 0 .. SOFTMAX_CTXS - 1 |->
                   [r \in Pair |-> [m |-> -32768, l |-> 0, acc |-> [d \in Elements |-> 0]]]]
  /\ row_ctx = NewContexts
  /\ norm = NormIdle
  /\ recip_pipe = [i \in 1 .. RECIP_LAT |-> Empty] /\ norm_pipe = [i \in 1 .. NORM_STAGES |-> Empty]
  /\ o_buf = [r \in 0 .. core.TQ - 1 |-> [d \in Elements |-> 0]]

-----------------------------------------------------------------------------
(* Dot products.                                                            *)

QRow(r)  == core.q[q_tile_idx * core.TQ + r]
KRow(kj) == core.k[k_tile_idx * core.TK + kj]
VRow(kj) == core.v[k_tile_idx * core.TK + kj]

qk_issue_valid == cs = "C_DP_RUN" /\ ~qk_issue.done

\* The sums of one chunk of two rows and a key.
PartialSums ==
  LET row0  == comp_batch_base + qk_issue.slot * ROW_PAR
      lanes == qk_issue.chunk * DpLanes(core) .. (qk_issue.chunk + 1) * DpLanes(core) - 1
  IN  [r \in Pair |-> MapThenSumSet(LAMBDA d : QRow(row0 + r)[d] * KRow(qk_issue.kj)[d], lanes)]

\* Input, product, four levels of the adder tree, final sum and output registers.
SliceClock ==
  qk_slice' = Shifted(qk_slice, IF qk_issue_valid THEN [valid |-> TRUE, sums |-> PartialSums] ELSE Empty)

TagClock ==
  qk_tag' = Shifted(qk_tag, [slot |-> qk_issue.slot, kj |-> qk_issue.kj,
                             chunk_last |-> qk_issue.chunk = DP_CHUNKS - 1])

\* Chunk by chunk, then the next pair of rows, then the next key.
NextIssue ==
  IF qk_issue.done THEN qk_issue
  ELSE IF qk_issue.chunk < DP_CHUNKS - 1 THEN [qk_issue EXCEPT !.chunk = @ + 1]
  ELSE IF qk_issue.slot < SOFTMAX_CTXS - 1 THEN [qk_issue EXCEPT !.chunk = 0, !.slot = @ + 1]
  ELSE IF qk_issue.kj < core.TK - 1 THEN [qk_issue EXCEPT !.chunk = 0, !.slot = 0, !.kj = @ + 1]
  ELSE [qk_issue EXCEPT !.chunk = 0, !.slot = 0, !.done = TRUE]

\* What leaves the slice is a dot product, or the first or second half of one.
Collect ==
  LET part == qk_slice[QK_STAGES]
      tag  == qk_tag[QK_LAT]
      got  == [valid |-> TRUE, slot |-> tag.slot, kj |-> tag.kj, sums |-> part.sums]
  IN  IF ~part.valid THEN ret_first' = ret_first /\ score_issue' = Empty
      ELSE IF ret_first.valid
      THEN /\ ret_first' = Empty
           /\ score_issue' = [ret_first EXCEPT !.sums = [r \in Pair |-> @[r] + part.sums[r]]]
      ELSE IF tag.chunk_last
      THEN ret_first' = ret_first /\ score_issue' = got
      ELSE ret_first' = got /\ score_issue' = Empty

-----------------------------------------------------------------------------
(* The online softmax of the pair of rows of a score.                       *)

\* Blocks whose bits are those of the helper that FixedPoint has of the kernels.
exp2_approx(x_q8_8)           == exp2_ctx_q1_15(x_q8_8)
fa_mul_sat_q8_8(a, b)         == q8_8_mul_sat(a, b)
fa_recip_nr_q16_16(x_q16_16)  == recip_nr_rtl_q16_16(x_q16_16)

ScoreRow(slot) == comp_batch_base + slot * ROW_PAR

ScoreQ8_8Of(r) ==
  LET row == q_tile_idx * core.TQ + ScoreRow(score_issue.slot) + r
      key == k_tile_idx * core.TK + score_issue.kj
  IN  IF core.causal /\ row < key THEN core.neg_large
      ELSE fa_mul_sat_q8_8(ToS16(score_issue.sums[r] \div 256), core.scale)

\* s1: the new maximum, and the differences to it.
Compared(x) ==
  LET m_new == IF x.score > x.prev.m THEN x.score ELSE x.prev.m
  IN  [m |-> m_new, diff_old |-> ToS16(x.prev.m - m_new), diff_new |-> ToS16(x.score - m_new),
       prev |-> x.prev]

\* s2: the exponentials.
Exponentiated(x) ==
  [m |-> x.m, exp_old |-> exp2_approx(x.diff_old), exp_new |-> exp2_approx(x.diff_new), prev |-> x.prev]

\* s3: the products; of those of 48 bits the part that is used.
Multiplied(x, v) ==
  [m |-> x.m, exp_new |-> x.exp_new, l_scaled |-> ScaledQ1_15(x.prev.l, x.exp_old),
   acc_scaled |-> [d \in Elements |-> ScaledQ1_15(x.prev.acc[d], x.exp_old)],
   v_mul |-> [d \in Elements |-> (x.exp_new * v[d]) \div 128]]

\* s4, and what is forwarded from s3: the sums.
Summed(x) ==
  [m |-> x.m, l |-> x.l_scaled + 2 * x.exp_new,
   acc |-> [d \in Elements |-> x.acc_scaled[d] + x.v_mul[d]]]

sm_row_start == score_issue.kj = 0

\* A mutant of sm_row_end: a key too early.
RowEndEarly == score_issue.kj = core.TK - 2
sm_row_end == score_issue.kj = core.TK - 1

\* A mutant of Forwarded: only the sums that are complete are forwarded.
ForwardedFromS4(ctx, r) ==
  IF sm[4].valid /\ sm[4].ctx = ctx THEN sm[4].row[r] ELSE sm_state[ctx][r]

\* The state of a context: of the youngest key of it that has come far enough.
Forwarded(ctx, r) ==
  IF sm[4].valid /\ sm[4].ctx = ctx THEN sm[4].row[r]
  ELSE IF sm[3].valid /\ sm[3].ctx = ctx THEN Summed(sm[3].row[r])
  ELSE sm_state[ctx][r]

SoftmaxInput ==
  IF ~score_issue.valid THEN Empty
  ELSE LET slot == score_issue.slot
       IN  [valid |-> TRUE, ctx |-> slot, row_end |-> sm_row_end, value |-> VRow(score_issue.kj),
            row |-> [r \in Pair |->
                       [score |-> ScoreQ8_8Of(r),
                        prev  |-> IF sm_row_start THEN row_ctx[ScoreRow(slot) + r] ELSE Forwarded(slot, r)]]]

SoftmaxClock ==
  LET Through(s, F(_)) == IF s.valid THEN [s EXCEPT !.row = [r \in Pair |-> F(@[r])]] ELSE Empty
  IN  /\ sm' = [i \in 0 .. 4 |->
                  CASE i = 0 -> SoftmaxInput
                    [] i = 1 -> Through(sm[0], Compared)
                    [] i = 2 -> Through(sm[1], Exponentiated)
                    [] i = 3 -> Through(sm[2], LAMBDA x : Multiplied(x, sm[2].value))
                    [] i = 4 -> Through(sm[3], Summed)]
      /\ sm_out' = sm[4]
      /\ sm_state' = IF sm[4].valid THEN [sm_state EXCEPT ![sm[4].ctx] = sm[4].row] ELSE sm_state

-----------------------------------------------------------------------------
(* The inner machine.                                                       *)

row_done == sm_out.valid /\ sm_out.row_end
batch_done_next == IF row_done THEN batch_done_mask \cup {sm_out.ctx} ELSE batch_done_mask
batch_all_done == batch_done_next = 0 .. SOFTMAX_CTXS - 1
last_batch == comp_batch_base + QPAIR_BATCH_ROWS >= core.TQ

Launch ==
  /\ cs = "C_IDLE"
  /\ score_issue' = Empty /\ comp_done' = FALSE /\ qk_tag' = qk_tag
  /\ IF comp_start
     THEN /\ cs' = "C_DP_RUN" /\ comp_batch_base' = 0 /\ batch_done_mask' = {}
          /\ qk_issue' = FirstIssue /\ ret_first' = Empty
     ELSE UNCHANGED <<cs, comp_batch_base, batch_done_mask, qk_issue, ret_first>>

DpRun ==
  /\ cs = "C_DP_RUN"
  /\ comp_done' = FALSE
  /\ TagClock
  /\ IF batch_all_done /\ ~last_batch
     THEN /\ comp_batch_base' = comp_batch_base + QPAIR_BATCH_ROWS /\ batch_done_mask' = {}
          /\ qk_issue' = FirstIssue /\ ret_first' = Empty /\ score_issue' = Empty
          /\ cs' = cs
     ELSE /\ batch_done_mask' = batch_done_next
          /\ qk_issue' = NextIssue
          /\ Collect
          /\ cs' = IF batch_all_done THEN "C_DONE" ELSE cs
          /\ comp_batch_base' = comp_batch_base

ComputeDone ==
  /\ cs = "C_DONE"
  /\ cs' = "C_IDLE" /\ comp_done' = TRUE /\ score_issue' = Empty
  /\ UNCHANGED <<comp_batch_base, batch_done_mask, qk_issue, qk_tag, ret_first>>

EngineClock == (Launch \/ DpRun \/ ComputeDone) /\ SliceClock /\ SoftmaxClock

\* The rows of a pair whose last key has come out get their state back.
RetiredRows ==
  LET first == ScoreRow(sm_out.ctx)
  IN  [r \in DOMAIN row_ctx |-> IF r - first \in Pair THEN sm_out.row[r - first] ELSE row_ctx[r]]

RowClock ==
  row_ctx' = IF ms = "S_INIT_CONTEXT" THEN NewContexts
             ELSE IF cs = "C_DP_RUN" /\ row_done THEN RetiredRows
             ELSE row_ctx

-----------------------------------------------------------------------------
(* Normalisation.                                                           *)

\* The product with the reciprocal, rounded as fa_o_normalize_block does, in
\* Q8.8.
NormalizedElement(acc, recip, den_zero) ==
  LET mul  == Times(Shl(Word(acc, Wide), 8), Zext(recip, Wide))
      half == Zext(Halves(32768, 0), Wide)
  IN  IF den_zero THEN (IF acc >= 0 THEN 32767 ELSE -32768)
      ELSE sat_s16(Low32(Sar(IF Negative(mul) THEN Minus(mul, half) ELSE Plus(mul, half), 32)))

\* The reciprocal is there RECIP_LAT edges after it was asked for.
RecipClock ==
  recip_pipe' = Shifted(recip_pipe,
                        IF norm.in_valid
                        THEN [valid |-> TRUE, recip |-> fa_recip_nr_q16_16(Word(row_ctx[norm.qi].l, 4))]
                        ELSE Empty)

ChunkIssued == ms = "S_NORMALIZE" /\ norm.ready /\ ~norm.issue_done

NormBlockClock ==
  norm_pipe' =
    Shifted(norm_pipe,
            IF ChunkIssued
            THEN [valid |-> TRUE,
                  chunk |-> [lane \in 0 .. NORM_LANES - 1 |->
                               NormalizedElement(row_ctx[norm.qi].acc[norm.d + lane], norm.recip, norm.den_zero)]]
            ELSE Empty)

\* The row is ready for its chunks.
RowReady(n, recip, den_zero) ==
  [n EXCEPT !.pending = FALSE, !.ready = TRUE, !.recip = recip, !.den_zero = den_zero,
            !.d = 0, !.recv_d = 0, !.issue_done = FALSE]

AskRecip ==
  /\ ~norm.ready /\ ~norm.pending
  /\ norm' = IF row_ctx[norm.qi].l = 0 THEN RowReady(norm, Word(0, 4), TRUE)
             ELSE [norm EXCEPT !.in_valid = TRUE, !.pending = TRUE, !.den_zero = FALSE]
  /\ UNCHANGED <<ms, o_buf>>

AwaitRecip ==
  /\ ~norm.ready /\ norm.pending
  /\ norm' = LET waiting == [norm EXCEPT !.in_valid = FALSE]
             IN  IF recip_pipe[RECIP_LAT].valid
                 THEN RowReady(waiting, recip_pipe[RECIP_LAT].recip, norm.den_zero) ELSE waiting
  /\ UNCHANGED <<ms, o_buf>>

\* Chunks are issued one per edge and come back three edges later.
ScaleChunks ==
  /\ norm.ready
  /\ LET last   == core.D - NORM_LANES
         issued == IF norm.issue_done THEN norm
                   ELSE IF norm.d = last THEN [norm EXCEPT !.issue_done = TRUE]
                   ELSE [norm EXCEPT !.d = @ + NORM_LANES]
         back   == norm_pipe[NORM_STAGES]
     IN  IF ~back.valid THEN norm' = issued /\ UNCHANGED <<ms, o_buf>>
         ELSE /\ o_buf' = [o_buf EXCEPT ![norm.qi] =
                             [d \in Elements |-> IF d - norm.recv_d \in 0 .. NORM_LANES - 1
                                                 THEN back.chunk[d - norm.recv_d] ELSE @[d]]]
              /\ IF norm.recv_d # last
                 THEN norm' = [issued EXCEPT !.recv_d = @ + NORM_LANES] /\ ms' = ms
                 ELSE IF norm.qi = core.TQ - 1
                 THEN norm' = [NormIdle EXCEPT !.qi = norm.qi] /\ ms' = "S_WRITE_O"
                 ELSE norm' = [NormIdle EXCEPT !.qi = norm.qi + 1] /\ ms' = ms

-----------------------------------------------------------------------------
(* The master machine.                                                      *)

InitContexts ==
  /\ ms = "S_INIT_CONTEXT"
  /\ ms' = "S_COMPUTE" /\ k_tile_idx' = 0 /\ comp_start' = FALSE
  /\ UNCHANGED <<q_tile_idx, norm, o_buf>>

last_k_tile == k_tile_idx = core.SEQ_LEN \div core.TK - 1
last_q_tile == q_tile_idx = core.SEQ_LEN \div core.TQ - 1

\* comp_start is high for two edges, the second of which finds the inner
\* machine at work.
Compute ==
  /\ ms = "S_COMPUTE"
  /\ comp_start' = (~comp_done /\ cs = "C_IDLE")
  /\ IF ~comp_done THEN UNCHANGED <<ms, k_tile_idx, norm>>
     ELSE IF last_k_tile THEN ms' = "S_NORMALIZE" /\ norm' = NormIdle /\ k_tile_idx' = k_tile_idx
     ELSE k_tile_idx' = k_tile_idx + 1 /\ UNCHANGED <<ms, norm>>
  /\ UNCHANGED <<q_tile_idx, o_buf>>

Normalize ==
  /\ ms = "S_NORMALIZE"
  /\ AskRecip \/ AwaitRecip \/ ScaleChunks
  /\ comp_start' = FALSE
  /\ UNCHANGED <<q_tile_idx, k_tile_idx>>

\* The tile of results is written; S_NEXT_Q and S_LOAD_Q.
WriteO ==
  /\ ms = "S_WRITE_O"
  /\ IF last_q_tile THEN ms' = "S_DONE" /\ q_tile_idx' = q_tile_idx
     ELSE ms' = "S_INIT_CONTEXT" /\ q_tile_idx' = q_tile_idx + 1
  /\ comp_start' = FALSE
  /\ UNCHANGED <<k_tile_idx, norm, o_buf>>

\* A clock edge.
CoreStep ==
  /\ InitContexts \/ Compute \/ Normalize \/ WriteO
  /\ EngineClock /\ RowClock /\ RecipClock /\ NormBlockClock
  /\ core' = core
=============================================================================
