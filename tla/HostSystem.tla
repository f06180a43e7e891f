----------------------------- MODULE HostSystem -----------------------------
(* The programs that use the HLS kernels: a caller of the task queue        *)
(* runtime, fa_xrt_runner, and a caller of the matrix-vector queue kernel;  *)
(* the dot product of the C model in floating point; and the RTL core, from *)
(* its first tile to its last. A behaviour runs one of them.                *)
EXTENDS TaskQueueRuntime, XrtRunner, LinearKernel, CModelFp32, CoreDatapath

CONSTANTS
  Options,       \* the options a runtime is made with
  Tasks,         \* the tasks its caller may submit
  Rewritten,     \* the matrices the caller writes again between calls
  Matrices,      \* and what it writes
  FirstMemory,   \* what the caller's matrices hold first
  RunnerCases,   \* options and operands of a run of fa_xrt_runner
  GemvCases      \* memory and descriptors of a call of the queue kernel

\* No task has its output where its operands are.
ASSUME TasksAssumption ==
  /\ Tasks \subseteq AttentionTask
  /\ \A t \in Tasks : t.o \notin {t.q, t.k, t.v} \/ t.o = NullBuffer

\* The caller's matrices are arrays.
ASSUME MemoryAssumption ==
  /\ Rewritten \subseteq Buffers /\ FirstMemory \in [Buffers -> Range(FirstMemory)]
  /\ \A m \in Matrices \cup Range(FirstMemory) : DOMAIN m \subseteq Nat /\ m \in [DOMAIN m -> S16]

\* The matrices a task names have room for its rows, and are written again in their
\* size: the kernels read and write that far without looking.
ASSUME RoomAssumption ==
  /\ \A b \in Rewritten, m \in Matrices : DOMAIN m = DOMAIN FirstMemory[b]
  /\ \A t \in Tasks : validate_task(t) =>
       \A b \in {t.q, t.k, t.v, t.o} : 0 .. MatrixElems(t.seq_len) - 1 \subseteq DOMAIN FirstMemory[b]

\* What the constructor can be given.
ASSUME OptionsAssumption == Options # {} /\ Options \subseteq RuntimeOptions

\* The runner fills the matrices it makes with Q8.8 numbers.
ASSUME RunnerAssumption ==
  \A c \in RunnerCases :
    /\ c.opt \in RunnerOptions
    /\ c.opt.seq_len \in 1 .. MaxSeqLen =>
         \A m \in {c.operands.q, c.operands.k, c.operands.v} :
           \A e \in 0 .. MatrixElems(c.opt.seq_len) - 1 : m[e] \in S16

\* A caller of the queue kernel gives it descriptors whose operands are in memory,
\* Q8.8 numbers and a cleared output. That a vector fits x_local is not assumed.
ASSUME GemvAssumption ==
  /\ GemvCases # {}
  /\ \A c \in GemvCases :
       /\ c.tasks \in Seq(GemvDescriptors) /\ c.y = [e \in DOMAIN c.y |-> 0]
       /\ \A i \in DOMAIN c.tasks : OperandsInMemory(c.x, c.w, DOMAIN c.y, c.tasks[i])

VARIABLE program

vars == <<program, kernelVars, runtimeVars, runnerVars, linearVars, score_bits, coreVars>>

TheCase(cases, chosen) == IF chosen THEN cases ELSE {CHOOSE c \in cases : TRUE}

Init ==
  /\ program \in {"runtime", "runner", "gemv", "score", "core"}
  /\ KernelInit
  /\ options \in TheCase(Options, program = "runtime")
  /\ memory = FirstMemory
  /\ RuntimeInit
  /\ \E c \in TheCase(RunnerCases, program = "runner") :
       opt = c.opt /\ operands = c.operands
  /\ runner_pc = "start" /\ exit_code = 0
  /\ \E c \in TheCase(GemvCases, program = "gemv") :
       x_all = c.x /\ w_all = c.w /\ y_all = c.y /\ tasks = c.tasks /\ task_count = Len(c.tasks)
  /\ LinearInit
  /\ Fp32Init
  /\ core \in TheCase(CoreCases, program = "core")
  /\ CoreInit

CallRuntime ==
  \/ Init_ \/ Drain \/ Clear
  \/ \E t \in Tasks : Submit(t)
  \/ \E b \in Rewritten, m \in Matrices : Rewrite(b, m)

RuntimeProgram ==
  /\ program = "runtime"
  /\ CallRuntime \/ DrainStep
  /\ UNCHANGED <<program, runnerVars, linearVars, score_bits, coreVars>>

RunnerProgram ==
  /\ program = "runner"
  /\ RunnerStep
  /\ UNCHANGED <<program, runtimeVars, linearVars, score_bits, coreVars>>

GemvProgram ==
  /\ program = "gemv"
  /\ LinearStep
  /\ UNCHANGED <<program, runtimeVars, runnerVars, kernelVars, score_bits, coreVars>>

ScoreProgram ==
  /\ program = "score"
  /\ AccumulateScore
  /\ UNCHANGED <<program, runtimeVars, runnerVars, kernelVars, linearVars, coreVars>>

CoreProgram ==
  /\ program = "core"
  /\ CoreStep
  /\ UNCHANGED <<program, runtimeVars, runnerVars, kernelVars, linearVars, score_bits>>

\* Where a program may stop. TLC's deadlock check finds any other state in
\* which nothing goes on, such as a score stream that blocks both its ends.
Over ==
  /\ \/ program = "runtime" /\ rpc = "idle" /\ calls = MaxCalls
     \/ program = "runner" /\ runner_pc = "exited"
     \/ program = "gemv" /\ gpc \in {"done", "overrun"}
     \/ program = "core" /\ ms = "S_DONE"
  /\ UNCHANGED vars

Next == RuntimeProgram \/ RunnerProgram \/ GemvProgram \/ ScoreProgram \/ CoreProgram \/ Over

Spec == Init /\ [][Next]_vars

-----------------------------------------------------------------------------
(* Properties. *)

Waiting == IF rpc = "idle" THEN queue ELSE SubSeq(queue, drain_idx, Len(queue))

Queue == INSTANCE TaskQueue WITH mode <- options.mode, pending <- Waiting, busy <- rpc # "idle",
                                 Tasks <- {t \in Tasks : validate_task(t)}

\* Whatever order the calls come in and whichever XRT calls throw, the runtime
\* accepts none but valid tasks and runs those it accepted in order, once each,
\* every output being what the C model computes from the operands of that time,
\* a failed task leaving its output alone (submit, drain, clear).
TasksRunAsPromised == Queue!Spec

KernelRows == [i \in 0 .. call.seq_len - 1 |-> [d \in Dims |-> out[i * stride + d]]]

\* However the producer and the consumer of the score stream interleave, and
\* with the last tiles partly filled, the tiled kernel leaves what the C model
\* computes in RTL_CTX_STEP_ACC24, and its counters add up: each score once,
\* each row loaded, initialised and stored once (run_attention_tiled_hls). For each
\* task it is given, the strict kernel computes what the model does in RTL_STRICT.
KernelMatchesModel ==
  /\ kpc = "done" =>
       LET n == call.seq_len
       IN  /\ KernelRows = Queue!ReferenceRows("RTL_CTX_STEP_ACC24", call.q, call.k, call.v, n,
                                               call.scale, call.causal, call.neg_large, FALSE)
           /\ prof.valid_score_evals = n * n /\ prof.kv_tile_iters = prof.q_tiles * prof.k_tiles
           /\ prof.init_rows = n /\ prof.normalize_rows = n
           /\ prof.load_q_elems = n * HeadDim /\ prof.store_o_elems = n * HeadDim
           /\ prof.load_kv_elems = 2 * n * HeadDim * prof.q_tiles
  /\ Draining /\ options.mode = "strict_q8_8" =>
       run_attention_strict(CallArguments(Current), memory[Current.o]) = Queue!ReferenceOutput(Current)

\* Row i of a call after its first n keys, taken one at a time.
SequentialRow(c, i) ==
  LET width == StrideElems(c)
      q     == Row(c.q, i, width, TRUE)
      after[n \in 0 .. c.seq_len] ==
        IF n = 0 THEN FreshRow(c.neg_large)
        ELSE online_softmax_ctx_acc_row_step(
               after[n - 1], ScoreOf(c, dotprod_q8_8(q, Row(c.k, n - 1, width, TRUE)), i, n - 1),
               Row(c.v, n - 1, width, TRUE))
  IN  after

\* Tiles, banks, batches, row pairs and a score stream between two processes come to
\* what a loop over the rows and, for each, over the keys does: every row takes every
\* key once, in order, with its own score, and is stored once, in its place
\* (run_attention_tiled_hls).
KernelIsSequential ==
  kpc = "done" =>
    \A i \in 0 .. call.seq_len - 1 : \A d \in Dims :
      i * stride + d \in DOMAIN out =>
        out[i * stride + d] = o_normalize_block_row(SequentialRow(call, i)[call.seq_len])[d]

\* A mask value this low takes the keys after a row's own out of it: a causal call
\* computes what the C model computes when it passes over the masked keys. The
\* default of -2048, -8, does not: their weight is then small and not zero
\* (process_score_batch, online_softmax_ctx_acc_row_step).
LowMask == -8192

MaskedKeysWeighNothing ==
  kpc = "done" /\ call.causal /\ call.neg_large <= LowMask =>
    KernelRows = Queue!ReferenceRows("RTL_CTX_STEP_ACC24", call.q, call.k, call.v, call.seq_len,
                                     call.scale, TRUE, call.neg_large, TRUE)

\* Multiplying with the reciprocal of two Newton-Raphson steps gives what
\* division would, but for the last bit (o_normalize_block_row).
ReciprocalIsClose ==
  kpc = "store" =>
    \A i \in 0 .. valid_q - 1 : \A d \in Dims :
      LET exact == Queue!div_round_sat_s16(256 * rows[i].acc[d], rows[i].l)
          got   == o_normalize_block_row(rows[i])[d]
      IN  got - exact \in -1 .. 1

\* A run has device buffers that hold its matrices, also after an allocation
\* failed half way (ensure_buffers).
BuffersFit ==
  options.mode = "xrt" /\ rpc \in {"launch", "kernel"} =>
    \A b \in BoNames : bo[b] >= Current.seq_len * Current.stride_bytes

\* Every task accepted has been run, was dropped by a call that failed or by
\* clear, or waits; none is counted twice, and no more wait than the queue was
\* made for (submit, drain, clear).
TasksAccounted ==
  /\ accepted = executed + dropped + Len(Waiting)
  /\ Len(queue) <= queue_depth

\* The queue kernel, in tiles and lanes, computes what the strict queue does in one
\* loop for the tasks it has descriptors for, with the same counters; a vector
\* longer than x_local stops it, all tasks before that one being done and none
\* left out (run_gemv_queue_tiled_hls).
GemvQueueAgrees ==
  LET strict(n) == run_gemv_queue_strict(x_all, w_all, [e \in DOMAIN y_all |-> 0], SubSeq(tasks, 1, n))
      done      == [y |-> y_all, prof |-> gemv_prof]
  IN  /\ gpc = "done" => done = strict(bounded_tasks)
      /\ gpc = "overrun" => done = strict(task_idx) /\ tasks[task_idx + 1].in_dim > kMaxInDim

\* The value of a float in units of the smallest one; Inf stands where the next
\* float after the largest would.
Value(x) == (IF x.sign THEN -1 ELSE 1) * sig(x) * 2^(exp_eff(x) - 1)

Distance(x, y) == IF x >= y THEN x - y ELSE y - x

\* r is the float nearest to the number x, the even one of two.
IsNearest(r, x) ==
  /\ ~is_nan(r)
  /\ \A o \in Floats :
       ~is_nan(o) /\ Value(o) # Value(r) =>
         \/ Distance(Value(r), x) < Distance(Value(o), x)
         \/ Distance(Value(r), x) = Distance(Value(o), x) /\ r.frac % 2 = 0

\* Whatever has been summed up, the three guard bits are enough for the sum with
\* any float to be the exact sum rounded once, to even, through subnormal
\* results, cancellation and overflow (fp32_add_rtl_bits); and no difference from
\* the new maximum, the argument of the exponential, is above zero
\* (fp32_max_bits, attention_bf16_fp32_reference).
SumsRoundOnce ==
  program = "score" =>
    \A b \in Floats :
      LET sum     == fp32_add_rtl_bits(score_bits, b)
          largest == fp32_max_bits(score_bits, b)
          diff    == fp32_add_rtl_bits(b, fp32_neg_bits(largest))
      IN  /\ IF is_nan(b) \/ (is_inf(b) /\ is_inf(score_bits) /\ b.sign # score_bits.sign)
             THEN sum = QuietNan
             ELSE IF is_inf(b) \/ is_inf(score_bits)
             THEN is_inf(sum) /\ sum.sign = (IF is_inf(b) THEN b.sign ELSE score_bits.sign)
             ELSE /\ IsNearest(sum, Value(score_bits) + Value(b))
                  /\ is_zero(sum) => sum.sign = (is_zero(b) /\ b.sign /\ score_bits = b)
          /\ is_nan(diff) \/ Value(diff) <= 0

\* However a key's state is overtaken by the keys of its row behind it, and a row is
\* spread over chunks, tiles, batches and pairs, the core writes what the C
\* model computes in RTL_CTX_STEP_ACC24 (fa_attention_core, fa_online_softmax_ctx).
\* A row no key has a weight in, all scores being far below the mask value, is an
\* exception: the core saturates (norm_row_den_zero), the model's row is 0.
DatapathMatchesModel ==
  program = "core" /\ ms = "S_WRITE_O" =>
    LET model == Queue!online_rtl_like(core.q, core.k, core.v, core.SEQ_LEN, core.TQ, core.TK,
                                       core.scale, core.causal, "RTL_CTX_STEP_ACC24",
                                       core.neg_large, FALSE)
        row(r) == model[q_tile_idx * core.TQ + r]
    IN  \A r \in 0 .. core.TQ - 1 :
          IF row_ctx[r].l # 0 THEN o_buf[r] = row(r)
          ELSE \A d \in DOMAIN row(r) : o_buf[r][d] = 32767 /\ row(r)[d] = 0

\* No dot product, score or state of a batch is under way when the next batch is
\* begun, or the tiles are exchanged: nothing would tell them from its own (the tags
\* carry the number of the pair in the batch, the key, and no batch or tile). A row
\* has one chunk or two here (CoreShape).
BatchesKeptApart ==
  program = "core" /\ (cs # "C_DP_RUN" \/ qk_issue = FirstIssue) =>
    \A entry \in Range(qk_slice) \cup {ret_first, score_issue} \cup Range(sm) \cup {sm_out} :
      entry = Empty
=============================================================================
