----------------------------- MODULE XrtRunner -----------------------------
(* fa_xrt_runner: fills three matrices with random numbers, runs the        *)
(* attention kernel on the FPGA once and, with --verify, compares its       *)
(* output with the strict kernel. Any length from 1 to MaxSeqLen will do    *)
(* here: the last tiles may be partly filled.                               *)
EXTENDS TiledKernel

CONSTANTS RunnerScale, RunnerNegLarge   \* 32 and -2048

ASSUME RunnerDefaults == {RunnerScale, RunnerNegLarge} \subseteq S16

\* What parse_args makes of the command line.
RunnerOptions == [xclbin : BOOLEAN, seq_len : Int, causal : BOOLEAN, verify : BOOLEAN]

VARIABLES runner_pc, opt, operands, exit_code

runnerVars == <<runner_pc, opt, operands, exit_code>>

parse_args_ok == opt.xclbin /\ opt.seq_len \in 1 .. MaxSeqLen

RunnerCall ==
  [q |-> operands.q, k |-> operands.k, v |-> operands.v, null |-> FALSE, seq_len |-> opt.seq_len,
   stride_bytes |-> 2 * HeadDim, scale |-> RunnerScale, neg_large |-> RunnerNegLarge,
   causal |-> opt.causal]

RunnerOutput == [e \in 0 .. opt.seq_len * HeadDim - 1 |-> 0]

Exits(code) == runner_pc' = "exited" /\ exit_code' = code

RunnerStarts ==
  /\ runner_pc = "start" /\ parse_args_ok
  /\ StartKernel(RunnerCall, RunnerOutput, TRUE)
  /\ runner_pc' = "run"
  /\ UNCHANGED <<opt, operands, exit_code>>

\* Wrong arguments, or an XRT call that throws before or after the run.
RunnerFails ==
  /\ \/ runner_pc = "start" /\ UNCHANGED kpc
     \/ runner_pc = "run" /\ kpc = "done" /\ ReturnKernel
  /\ Exits(1)
  /\ UNCHANGED <<opt, operands, call, dataflow, tileVars, rows, batchVars, out, prof>>

verify_output(got) ==
  LET ref == run_attention_strict(RunnerCall, RunnerOutput)
  IN  \A e \in DOMAIN ref : got[e] = ref[e]

RunnerEnds ==
  /\ runner_pc = "run" /\ kpc = "done"
  /\ ReturnKernel
  /\ Exits(IF opt.verify /\ ~verify_output(out) THEN 1 ELSE 0)
  /\ UNCHANGED <<opt, operands, call, dataflow, tileVars, rows, batchVars, out, prof>>

RunnerStep ==
  \/ RunnerStarts \/ RunnerFails \/ RunnerEnds
  \/ runner_pc = "run" /\ KernelStep /\ UNCHANGED runnerVars
=============================================================================
