-------------------------- MODULE AttentionSystem --------------------------
(***************************************************************************)
(* The attention IP as rtl/top/fa_attention_ip_top.sv wires it: the core,  *)
(* the read DMA and the write DMA on one clock, a memory behind the two    *)
(* AXI ports, and a host that pulses start and soft reset.  Every step is  *)
(* one clock edge at which all of them move at once; the nondeterminism is *)
(* in the host, in the memory's handshakes and in the pipeline latencies.  *)
(***************************************************************************)
EXTENDS AttentionCore, ReadChannel, DmaWriter, AxiWriteSlave

CONSTANTS
  MAX_RUNS,       \* bound: starts the host may get accepted
  HOST_RESETS,    \* when the host resets: "never", "quiet" or "any"
  FAST_MEMORY     \* whether prefetches always finish in time

ASSUME EnvironmentAssumption ==
  /\ MAX_RUNS \in Nat
  /\ HOST_RESETS \in {"never", "quiet", "any"}
  /\ FAST_MEMORY \in BOOLEAN

VARIABLE run            \* starts accepted so far, the tag of the host's data

vars == <<coreVars, channelVars, writerVars, writeSlaveVars, run>>

Init ==
  /\ CoreInit
  /\ ReaderInit
  /\ WriterInit
  /\ ReadSlaveInit
  /\ WriteSlaveInit
  /\ run = 0

Accepts(start, softReset) == start /\ ~softReset /\ ms = "S_IDLE" /\ ~o_busy

\* One clock edge.  start and softReset are the host's, advance and recip the
\* pipelines', the rest the memory's side of its handshakes.
Clock(start, softReset, arready, rvalid, awready, wready, bvalid, recip, advance) ==
  LET beat  == [valid |-> rvalid, data |-> ReadBeat, last |-> out_last]
      wFire == wvalid(wr_data_valid) /\ wready
  IN /\ CoreClock(start, softReset, rd_cmd_ready, beat, wr_cmd_ready,
                  in_ready(wready), recip, advance)
     /\ ReadChannelClock(rd_cmd, arready, rvalid, FALSE, rd_data_ready, run)
     /\ WriterClock(wr_cmd.valid, wr_cmd.addr, wr_cmd.len, wr_data_valid, awready,
                    wready, bvalid, FALSE)
     /\ WriteSlaveClock(awvalid /\ awready, aw_addr_r, aw_len_r, wFire, wr_data,
                        bvalid /\ bready)
     /\ run' = IF Accepts(start, softReset) THEN run + 1 ELSE run

-----------------------------------------------------------------------------
(* What the environment may do in a state.  An input nothing is looking at *)
(* is held low, which loses no behaviour.                                  *)

Choice(looking) == IF looking THEN BOOLEAN ELSE {FALSE}

Starts   == Choice(run < MAX_RUNS /\ ms = "S_IDLE")
ARReady  == Choice(arvalid)
RValid   == Choice(rd_left > 0 /\ rd_data_ready)
AWReady  == Choice(awvalid)
WReady   == Choice(w_state = "W_DATA" /\ wr_left > 0)
BValid   == Choice(b_pending /\ bready)
Recip    == Choice(ms = "S_NORMALIZE" /\ (norm_recip_pending \/ norm_row_ready))
Advance  == Choice(cs = "C_DP_RUN")

\* When the host pulses SOFT_RESET: never, only when neither the compute machine nor
\* the write DMA is in the middle of something, or whenever it likes.
Quiescent ==
  /\ cs = "C_IDLE" /\ ~comp_start
  /\ w_state \in {"W_IDLE", "W_RESP"} /\ ~wr_cmd.valid

SoftResets ==
  CASE HOST_RESETS = "never" -> {FALSE}
    [] HOST_RESETS = "quiet" -> Choice(Quiescent)
    [] HOST_RESETS = "any"   -> BOOLEAN

\* What a memory with bandwidth to spare guarantees: every prefetch is finished
\* before the tile that hides it has been computed.
PrefetchKeepsUp ==
  cs' = "C_DONE" => k_tile_idx = NUM_K_TILES - 1 \/ pf_state' = "PF_DONE"

-----------------------------------------------------------------------------
Edge(start, softReset) ==
  /\ \E arready \in ARReady, rvalid \in RValid, awready \in AWReady, wready \in WReady,
        bvalid \in BValid, recip \in Recip, advance \in Advance :
       Clock(start, softReset, arready, rvalid, awready, wready, bvalid, recip, advance)
  /\ FAST_MEMORY => PrefetchKeepsUp

Next == \E start \in Starts, softReset \in SoftResets : Edge(start, softReset)

Spec == Init /\ [][Next]_vars

(***************************************************************************)
(* Fairness.  The clock never stops, the memory answers every request in   *)
(* the end, and the dot-product, softmax and normalisation pipelines have  *)
(* a finite latency.  Nothing is assumed of the host: the edges that must  *)
(* come are those at which it does nothing.                                *)
(***************************************************************************)
Tick == Edge(FALSE, FALSE)

MemoryFair ==
  /\ WF_vars(Tick /\ arvalid /\ ar_state' = "AR_STREAM")
  /\ WF_vars(Tick /\ rd_left' = rd_left - 1)
  /\ WF_vars(Tick /\ awvalid /\ w_state' = "W_DATA")
  /\ WF_vars(Tick /\ wr_left' = wr_left - 1)
  /\ WF_vars(Tick /\ bready /\ w_state' = "W_IDLE")

PipelinesFair ==
  /\ WF_vars(Tick /\ cs = "C_DP_RUN" /\ engineVars' # engineVars)
  /\ WF_vars(Tick /\ ms = "S_NORMALIZE" /\ normVars' # normVars)

FairSpec == Spec /\ WF_vars(Tick) /\ MemoryFair /\ PipelinesFair
=============================================================================
