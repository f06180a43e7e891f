--------------------------- MODULE AttentionCore ---------------------------
(***************************************************************************)
(* The control of the attention engine, rtl/core/fa_attention_core.sv: the *)
(* master state machine with its K/V prefetcher, and the inner compute     *)
(* machine that runs beside it.  CoreClock is one rising clock edge.       *)
(*                                                                         *)
(* Data.  The unit of Q, K, V and O data is a bus beat; a K/V beat stands  *)
(* for the keys in it and a Q beat for the rows in it.  A beat is tagged   *)
(* with where it came from ([run, addr]).  Rows are kept per batch of      *)
(* QPAIR_BATCH_ROWS rows, which go through the softmax pipeline together.  *)
(* The online-softmax context (row_m, row_l, row_acc) of a batch is what   *)
(* it was built from: the contributions it holds, and those it holds more  *)
(* than once.                                                              *)
(***************************************************************************)
EXTENDS Naturals

CONSTANTS
  NUM_Q_TILES, NUM_K_TILES,                 \* SEQ_LEN / TQ, SEQ_LEN / TK
  BEATS_PER_TILE_Q, BEATS_PER_TILE_KV,
  NUM_BATCHES,                              \* TQ / QPAIR_BATCH_ROWS
  Q_BASE, K_BASE, V_BASE, O_BASE            \* base addresses, in beats

ASSUME CoreAssumption ==
  /\ NUM_Q_TILES \in Nat \ {0}
  /\ NUM_K_TILES \in Nat \ {0}
  /\ BEATS_PER_TILE_Q \in Nat \ {0}
  /\ BEATS_PER_TILE_KV \in Nat \ {0}
  /\ NUM_BATCHES \in Nat \ {0}
  /\ {Q_BASE, K_BASE, V_BASE, O_BASE} \subseteq Nat

QBeats  == 0 .. BEATS_PER_TILE_Q - 1
KVBeats == 0 .. BEATS_PER_TILE_KV - 1
Batches == 0 .. NUM_BATCHES - 1
Banks   == {0, 1}

\* The batch whose rows beat i of a Q or O tile holds.
BatchOf(i) == (i * NUM_BATCHES) \div BEATS_PER_TILE_Q

VARIABLES
  ms, q_tile_idx, k_tile_idx, q_fill_cnt, kv_fill_cnt,  \* master machine
  active_bank, pref_target_bank, pf_state, pf_fill_cnt, \* K/V prefetcher
  norm_qi, norm_recip_pending, norm_row_ready,          \* normalisation
  norm_row_recip,       \* the context whose row_l was inverted, NoCtx if none
  o_write_cnt, o_busy, o_done, comp_start,
  rd_cmd, wr_cmd,       \* registered command ports to the two DMAs
  q_buf, k_buf, v_buf, o_buf,
  row_ctx,              \* online-softmax contexts, per batch
  cs, comp_done,        \* compute machine
  comp_batch, comp_kj,  \* the batch in the pipeline, the keys it consumed
  eng_ctx               \* its context inside the softmax pipeline

tileVars   == <<q_tile_idx, k_tile_idx>>
fillVars   == <<q_fill_cnt, kv_fill_cnt>>
bankVars   == <<active_bank, pref_target_bank>>
pfVars     == <<pf_state, pf_fill_cnt>>
normVars   == <<norm_qi, norm_recip_pending, norm_row_ready, norm_row_recip>>
bufVars    == <<q_buf, k_buf, v_buf>>
engineVars == <<cs, comp_done, comp_batch, comp_kj, eng_ctx>>
coreVars   == <<ms, tileVars, fillVars, bankVars, pfVars, normVars, o_write_cnt,
                o_busy, o_done, comp_start, rd_cmd, wr_cmd, bufVars, o_buf,
                row_ctx, engineVars>>

-----------------------------------------------------------------------------
(* Data.                                                                   *)

NoCmd == [valid |-> FALSE, addr |-> 0, len |-> 0]
Cmd(addr, beats) == [valid |-> TRUE, addr |-> addr, len |-> beats - 1]

\* The contents of a buffer before anything is stored in it.
Unloaded == [run |-> 0, addr |-> 0]

\* Contexts: as S_INIT_CONTEXT leaves them, and with one more contribution.
FreshCtx == [once |-> {}, again |-> {}]
Accumulate(ctx, c) == [once |-> ctx.once \cup {c},
                       again |-> ctx.again \cup (ctx.once \cap {c})]
NoCtx == [once |-> {}, again |-> {FreshCtx}]    \* differs from every context

FreshRows == [b \in Batches |-> FreshCtx]

\* What key beat j adds to the rows of batch b: the operands the pipeline reads,
\* and the tile indices that place them under the causal mask.
Contribution(b, j) ==
  [q |-> {q_buf[i] : i \in {i \in QBeats : BatchOf(i) = b}},
   k |-> k_buf[active_bank][j],
   v |-> v_buf[active_bank][j],
   tile |-> <<q_tile_idx, k_tile_idx>>]

QAddr(t) == Q_BASE + t * BEATS_PER_TILE_Q
KAddr(t) == K_BASE + t * BEATS_PER_TILE_KV
VAddr(t) == V_BASE + t * BEATS_PER_TILE_KV
OAddr(t) == O_BASE + t * BEATS_PER_TILE_Q

-----------------------------------------------------------------------------
(* Combinational outputs.                                                  *)

rd_data_ready ==
  \/ ms \in {"S_LOAD_Q", "S_LOAD_K", "S_LOAD_V"}
  \/ ms = "S_COMPUTE" /\ pf_state \in {"PF_DATA_K", "PF_DATA_V"}

\* Mutant of wr_data_valid: off by one at the last beat.
LastBeatWithheld == ms = "S_WRITE_O" /\ o_write_cnt \in 1 .. BEATS_PER_TILE_Q - 1
wr_data_valid == ms = "S_WRITE_O" /\ o_write_cnt \in 1 .. BEATS_PER_TILE_Q
wr_data == o_buf[BatchOf(o_write_cnt - 1)]

-----------------------------------------------------------------------------
CoreInit ==
  /\ ms = "S_IDLE"
  /\ q_tile_idx = 0 /\ k_tile_idx = 0 /\ q_fill_cnt = 0 /\ kv_fill_cnt = 0
  /\ active_bank = 0 /\ pref_target_bank = 1
  /\ pf_state = "PF_IDLE" /\ pf_fill_cnt = 0
  /\ norm_qi = 0 /\ norm_recip_pending = FALSE /\ norm_row_ready = FALSE
  /\ norm_row_recip = NoCtx
  /\ o_write_cnt = 0 /\ o_busy = FALSE /\ o_done = FALSE /\ comp_start = FALSE
  /\ rd_cmd = NoCmd /\ wr_cmd = NoCmd
  /\ q_buf = [i \in QBeats |-> Unloaded]
  /\ k_buf = [b \in Banks |-> [i \in KVBeats |-> Unloaded]]
  /\ v_buf = [b \in Banks |-> [i \in KVBeats |-> Unloaded]]
  /\ o_buf = [b \in Batches |-> [num |-> FreshCtx, den |-> NoCtx]]
  /\ row_ctx = FreshRows
  /\ cs = "C_IDLE" /\ comp_done = FALSE
  /\ comp_batch = 0 /\ comp_kj = 0 /\ eng_ctx = FreshCtx

\* The registers that every clock edge outside reset clears unless an arm of
\* the case sets them.
Pulses(done, start, rd, wr) ==
  /\ o_done' = done
  /\ comp_start' = start
  /\ rd_cmd' = rd
  /\ wr_cmd' = wr

-----------------------------------------------------------------------------
(* Master machine.  beat is the read data port: [valid, data, last].       *)

\* Mutant of SoftReset: o_busy is left set.
SoftResetStaysBusy ==
  /\ ms' = "S_IDLE"
  /\ norm_recip_pending' = FALSE /\ norm_row_ready' = FALSE /\ norm_row_recip' = NoCtx
  /\ Pulses(FALSE, FALSE, NoCmd, NoCmd)
  /\ UNCHANGED <<tileVars, fillVars, bankVars, pfVars, norm_qi, o_write_cnt,
                 bufVars, o_buf, o_busy>>

\* i_soft_reset wins over the state machine.  The prefetcher, the fill and write
\* counters, the compute machine and both DMAs keep what they have.
SoftReset ==
  /\ ms' = "S_IDLE"
  /\ o_busy' = FALSE
  /\ norm_recip_pending' = FALSE
  /\ norm_row_ready' = FALSE
  /\ norm_row_recip' = NoCtx
  /\ Pulses(FALSE, FALSE, NoCmd, NoCmd)
  /\ UNCHANGED <<tileVars, fillVars, bankVars, pfVars, norm_qi, o_write_cnt,
                 bufVars, o_buf>>

\* Mutant of Start: the Q fill counter of an interrupted load is kept.
StartKeepsFill ==
  /\ o_busy' = TRUE
  /\ ms' = "S_LOAD_Q"
  /\ q_tile_idx' = 0 /\ k_tile_idx' = 0
  /\ active_bank' = 0 /\ pref_target_bank' = 1
  /\ pf_state' = "PF_IDLE" /\ pf_fill_cnt' = 0
  /\ UNCHANGED fillVars

Start ==
  /\ o_busy' = TRUE
  /\ ms' = "S_LOAD_Q"
  /\ q_tile_idx' = 0 /\ k_tile_idx' = 0 /\ q_fill_cnt' = 0
  /\ active_bank' = 0 /\ pref_target_bank' = 1
  /\ pf_state' = "PF_IDLE" /\ pf_fill_cnt' = 0
  /\ UNCHANGED kv_fill_cnt

Idle(start) ==
  /\ ms = "S_IDLE"
  /\ IF start /\ ~o_busy
     THEN Start
     ELSE UNCHANGED <<ms, o_busy, tileVars, fillVars, bankVars, pfVars>>
  /\ Pulses(FALSE, FALSE, NoCmd, NoCmd)
  /\ UNCHANGED <<normVars, o_write_cnt, bufVars, o_buf>>

\* Until the DMA is seen ready the command is offered every cycle and whatever
\* the read channel delivers is taken and dropped; from then on it is stored.
LoadQ(rdReady, beat) ==
  LET last == beat.last \/ q_fill_cnt = BEATS_PER_TILE_Q IN
  /\ ms = "S_LOAD_Q"
  /\ IF q_fill_cnt = 0
     THEN /\ Pulses(FALSE, FALSE, Cmd(QAddr(q_tile_idx), BEATS_PER_TILE_Q), NoCmd)
          /\ q_fill_cnt' = IF rdReady THEN 1 ELSE 0
          /\ UNCHANGED <<ms, q_buf>>
     ELSE /\ Pulses(FALSE, FALSE, NoCmd, NoCmd)
          /\ IF q_fill_cnt <= BEATS_PER_TILE_Q /\ beat.valid
             THEN /\ q_buf' = [q_buf EXCEPT ![q_fill_cnt - 1] = beat.data]
                  /\ q_fill_cnt' = q_fill_cnt + 1
                  /\ ms' = IF last THEN "S_INIT_CONTEXT" ELSE ms
             ELSE UNCHANGED <<q_buf, q_fill_cnt, ms>>
  /\ UNCHANGED <<tileVars, kv_fill_cnt, bankVars, pfVars, normVars, o_write_cnt,
                 o_busy, k_buf, v_buf, o_buf>>

\* The contexts themselves are reset by RowCtxNext.
InitContext ==
  /\ ms = "S_INIT_CONTEXT"
  /\ ms' = "S_LOAD_K"
  /\ k_tile_idx' = 0 /\ kv_fill_cnt' = 0
  /\ active_bank' = 0 /\ pref_target_bank' = 1
  /\ pf_state' = "PF_IDLE" /\ pf_fill_cnt' = 0
  /\ Pulses(FALSE, FALSE, NoCmd, NoCmd)
  /\ UNCHANGED <<q_tile_idx, q_fill_cnt, normVars, o_write_cnt, o_busy, bufVars, o_buf>>

LoadK(rdReady, beat) ==
  LET last == beat.last \/ kv_fill_cnt = BEATS_PER_TILE_KV IN
  /\ ms = "S_LOAD_K"
  /\ IF kv_fill_cnt = 0
     THEN /\ Pulses(FALSE, FALSE, Cmd(KAddr(k_tile_idx), BEATS_PER_TILE_KV), NoCmd)
          /\ kv_fill_cnt' = IF rdReady THEN 1 ELSE 0
          /\ UNCHANGED <<ms, k_buf>>
     ELSE /\ Pulses(FALSE, FALSE, NoCmd, NoCmd)
          /\ IF kv_fill_cnt <= BEATS_PER_TILE_KV /\ beat.valid
             THEN /\ k_buf' = [k_buf EXCEPT ![active_bank][kv_fill_cnt - 1] = beat.data]
                  /\ kv_fill_cnt' = IF last THEN 0 ELSE kv_fill_cnt + 1
                  /\ ms' = IF last THEN "S_LOAD_V" ELSE ms
             ELSE UNCHANGED <<k_buf, kv_fill_cnt, ms>>
  /\ UNCHANGED <<tileVars, q_fill_cnt, bankVars, pfVars, normVars, o_write_cnt,
                 o_busy, q_buf, v_buf, o_buf>>

LoadV(rdReady, beat) ==
  LET last == beat.last \/ kv_fill_cnt = BEATS_PER_TILE_KV IN
  /\ ms = "S_LOAD_V"
  /\ IF kv_fill_cnt = 0
     THEN /\ Pulses(FALSE, FALSE, Cmd(VAddr(k_tile_idx), BEATS_PER_TILE_KV), NoCmd)
          /\ kv_fill_cnt' = IF rdReady THEN 1 ELSE 0
          /\ UNCHANGED <<ms, v_buf>>
     ELSE /\ Pulses(FALSE, FALSE, NoCmd, NoCmd)
          /\ IF kv_fill_cnt <= BEATS_PER_TILE_KV /\ beat.valid
             THEN /\ v_buf' = [v_buf EXCEPT ![active_bank][kv_fill_cnt - 1] = beat.data]
                  /\ kv_fill_cnt' = kv_fill_cnt + 1
                  /\ ms' = IF last THEN "S_COMPUTE" ELSE ms
             ELSE UNCHANGED <<v_buf, kv_fill_cnt, ms>>
  /\ UNCHANGED <<tileVars, q_fill_cnt, bankVars, pfVars, normVars, o_write_cnt,
                 o_busy, q_buf, k_buf, o_buf>>

-----------------------------------------------------------------------------
(* S_COMPUTE: the prefetcher fills the other bank while the compute machine *)
(* works on the active one.                                                *)

PrefetchCmd ==
  CASE pf_state = "PF_CMD_K" -> Cmd(KAddr(k_tile_idx + 1), BEATS_PER_TILE_KV)
    [] pf_state = "PF_CMD_V" -> Cmd(VAddr(k_tile_idx + 1), BEATS_PER_TILE_KV)
    [] OTHER                 -> NoCmd

\* Mutant of PrefetchStore: into the bank that is in use.
PrefetchIntoActive(beat) ==
  /\ k_buf' = IF pf_state = "PF_DATA_K" /\ beat.valid
              THEN [k_buf EXCEPT ![active_bank][pf_fill_cnt - 1] = beat.data]
              ELSE k_buf
  /\ v_buf' = IF pf_state = "PF_DATA_V" /\ beat.valid
              THEN [v_buf EXCEPT ![active_bank][pf_fill_cnt - 1] = beat.data]
              ELSE v_buf

PrefetchStore(beat) ==
  /\ k_buf' = IF pf_state = "PF_DATA_K" /\ beat.valid
              THEN [k_buf EXCEPT ![pref_target_bank][pf_fill_cnt - 1] = beat.data]
              ELSE k_buf
  /\ v_buf' = IF pf_state = "PF_DATA_V" /\ beat.valid
              THEN [v_buf EXCEPT ![pref_target_bank][pf_fill_cnt - 1] = beat.data]
              ELSE v_buf

\* The prefetcher's own arm: a successor state and fill count.
PrefetchNext(rdReady, beat) ==
  LET last == beat.last \/ pf_fill_cnt = BEATS_PER_TILE_KV
      stay == <<pf_state, pf_fill_cnt>>
  IN CASE pf_state = "PF_IDLE" ->
            IF k_tile_idx < NUM_K_TILES - 1 THEN <<"PF_CMD_K", 0>> ELSE stay
       [] pf_state = "PF_CMD_K" -> IF rdReady THEN <<"PF_DATA_K", 1>> ELSE stay
       [] pf_state = "PF_CMD_V" -> IF rdReady THEN <<"PF_DATA_V", 1>> ELSE stay
       [] pf_state = "PF_DATA_K" /\ beat.valid ->
            IF last THEN <<"PF_CMD_V", 0>> ELSE <<pf_state, pf_fill_cnt + 1>>
       [] pf_state = "PF_DATA_V" /\ beat.valid ->
            <<IF last THEN "PF_DONE" ELSE pf_state, pf_fill_cnt + 1>>
       [] OTHER -> stay

\* comp_done on the last K tile: on to normalisation.
LastTileDone ==
  /\ comp_done
  /\ k_tile_idx = NUM_K_TILES - 1
  /\ ms' = "S_NORMALIZE"
  /\ pf_state' = "PF_IDLE" /\ pf_fill_cnt' = 0
  /\ norm_qi' = 0 /\ norm_recip_pending' = FALSE
  /\ norm_row_ready' = FALSE /\ norm_row_recip' = NoCtx
  /\ UNCHANGED <<k_tile_idx, bankVars>>

\* comp_done with the next tile in the other bank: swap.
NextTile ==
  /\ comp_done
  /\ k_tile_idx # NUM_K_TILES - 1
  /\ pf_state = "PF_DONE"
  /\ k_tile_idx' = k_tile_idx + 1
  /\ active_bank' = pref_target_bank
  /\ pf_fill_cnt' = 0
  /\ IF k_tile_idx + 1 = NUM_K_TILES - 1
     THEN pf_state' = "PF_IDLE" /\ UNCHANGED pref_target_bank
     ELSE pf_state' = "PF_CMD_K" /\ pref_target_bank' = 1 - pref_target_bank
  /\ UNCHANGED <<ms, normVars>>

\* No comp_done, or one that finds the prefetch unfinished and is ignored.
SameTile(rdReady, beat) ==
  /\ comp_done => k_tile_idx # NUM_K_TILES - 1 /\ pf_state # "PF_DONE"
  /\ pf_state' = PrefetchNext(rdReady, beat)[1]
  /\ pf_fill_cnt' = PrefetchNext(rdReady, beat)[2]
  /\ pref_target_bank' = IF pf_state = "PF_IDLE" /\ k_tile_idx < NUM_K_TILES - 1
                         THEN 1 - active_bank ELSE pref_target_bank
  /\ UNCHANGED <<ms, k_tile_idx, active_bank, normVars>>

\* Mutant of Compute: comp_start is not held back while comp_done is up.
ComputeRelaunches(rdReady, beat) ==
  /\ ms = "S_COMPUTE"
  /\ LastTileDone \/ NextTile \/ SameTile(rdReady, beat)
  /\ Pulses(FALSE, cs = "C_IDLE", PrefetchCmd, NoCmd)
  /\ PrefetchStore(beat)
  /\ UNCHANGED <<q_tile_idx, fillVars, o_write_cnt, o_busy, q_buf, o_buf>>

Compute(rdReady, beat) ==
  /\ ms = "S_COMPUTE"
  /\ LastTileDone \/ NextTile \/ SameTile(rdReady, beat)
  /\ Pulses(FALSE, ~comp_done /\ cs = "C_IDLE", PrefetchCmd, NoCmd)
  /\ PrefetchStore(beat)
  /\ UNCHANGED <<q_tile_idx, fillVars, o_write_cnt, o_busy, q_buf, o_buf>>

-----------------------------------------------------------------------------
(* S_NORMALIZE, one batch of rows after the other.  A row is inverted once *)
(* (recip is the reciprocal pipeline's answer), then its chunks stream     *)
(* through the multiplier (flushed when the last one is stored).           *)

RequestRecip ==
  /\ ~norm_row_ready /\ ~norm_recip_pending
  /\ IF row_ctx[norm_qi] = FreshCtx         \* row_l = 0: nothing accumulated
     THEN norm_row_ready' = TRUE /\ UNCHANGED norm_recip_pending
     ELSE norm_recip_pending' = TRUE /\ UNCHANGED norm_row_ready
  /\ UNCHANGED <<ms, norm_qi, norm_row_recip, o_write_cnt, o_buf>>

TakeRecip(recip) ==
  /\ ~norm_row_ready /\ norm_recip_pending
  /\ IF recip
     THEN /\ norm_recip_pending' = FALSE
          /\ norm_row_ready' = TRUE
          /\ norm_row_recip' = row_ctx[norm_qi]
     ELSE UNCHANGED <<norm_recip_pending, norm_row_ready, norm_row_recip>>
  /\ UNCHANGED <<ms, norm_qi, o_write_cnt, o_buf>>

ScaleRow(flushed) ==
  /\ norm_row_ready
  /\ IF flushed
     THEN /\ o_buf' = [o_buf EXCEPT ![norm_qi] = [num |-> row_ctx[norm_qi],
                                                 den |-> norm_row_recip]]
          /\ norm_row_ready' = FALSE
          /\ norm_row_recip' = NoCtx
          /\ IF norm_qi = NUM_BATCHES - 1
             THEN ms' = "S_WRITE_O" /\ o_write_cnt' = 0 /\ UNCHANGED norm_qi
             ELSE norm_qi' = norm_qi + 1 /\ UNCHANGED <<ms, o_write_cnt>>
     ELSE UNCHANGED <<o_buf, norm_row_ready, norm_row_recip, norm_qi, ms, o_write_cnt>>
  /\ UNCHANGED norm_recip_pending

Normalize(recip) ==
  /\ ms = "S_NORMALIZE"
  /\ RequestRecip \/ TakeRecip(recip) \/ ScaleRow(recip)
  /\ Pulses(FALSE, FALSE, NoCmd, NoCmd)
  /\ UNCHANGED <<tileVars, fillVars, bankVars, pfVars, o_busy, bufVars>>

-----------------------------------------------------------------------------
WriteO(wrReady, wrDataReady) ==
  /\ ms = "S_WRITE_O"
  /\ IF o_write_cnt = 0
     THEN /\ Pulses(FALSE, FALSE, NoCmd, Cmd(OAddr(q_tile_idx), BEATS_PER_TILE_Q))
          /\ o_write_cnt' = IF wrReady THEN 1 ELSE 0
          /\ UNCHANGED ms
     ELSE /\ Pulses(FALSE, FALSE, NoCmd, NoCmd)
          /\ IF wr_data_valid /\ wrDataReady
             THEN /\ o_write_cnt' = o_write_cnt + 1
                  /\ ms' = IF o_write_cnt = BEATS_PER_TILE_Q THEN "S_NEXT_Q" ELSE ms
             ELSE UNCHANGED <<o_write_cnt, ms>>
  /\ UNCHANGED <<tileVars, fillVars, bankVars, pfVars, normVars, o_busy, bufVars, o_buf>>

NextQ ==
  /\ ms = "S_NEXT_Q"
  /\ IF q_tile_idx = NUM_Q_TILES - 1
     THEN ms' = "S_DONE" /\ UNCHANGED <<q_tile_idx, q_fill_cnt>>
     ELSE ms' = "S_LOAD_Q" /\ q_tile_idx' = q_tile_idx + 1 /\ q_fill_cnt' = 0
  /\ Pulses(FALSE, FALSE, NoCmd, NoCmd)
  /\ UNCHANGED <<k_tile_idx, kv_fill_cnt, bankVars, pfVars, normVars, o_write_cnt,
                 o_busy, bufVars, o_buf>>

Done ==
  /\ ms = "S_DONE"
  /\ ms' = "S_IDLE"
  /\ o_busy' = FALSE
  /\ Pulses(TRUE, FALSE, NoCmd, NoCmd)
  /\ UNCHANGED <<tileVars, fillVars, bankVars, pfVars, normVars, o_write_cnt,
                 bufVars, o_buf>>

MasterClock(start, softReset, rdReady, beat, wrReady, wrDataReady, recip) ==
  \/ softReset /\ SoftReset
  \/ /\ ~softReset
     /\ \/ Idle(start)
        \/ LoadQ(rdReady, beat)
        \/ InitContext
        \/ LoadK(rdReady, beat)
        \/ LoadV(rdReady, beat)
        \/ Compute(rdReady, beat)
        \/ Normalize(recip)
        \/ WriteO(wrReady, wrDataReady)
        \/ NextQ
        \/ Done

-----------------------------------------------------------------------------
(* Compute machine.  advance says whether the batch in the pipeline        *)
(* consumes a key beat (or retires) at this edge: the fixed latency of the *)
(* dot-product and softmax pipelines is any number of cycles here.         *)

Launch ==
  /\ cs = "C_IDLE"
  /\ IF comp_start
     THEN cs' = "C_DP_RUN" /\ comp_batch' = 0 /\ comp_kj' = 0
     ELSE UNCHANGED <<cs, comp_batch, comp_kj>>
  /\ comp_done' = FALSE
  /\ UNCHANGED eng_ctx

\* The first key of a batch picks up the rows' contexts (sm_row_start).
ConsumeKey(advance) ==
  /\ cs = "C_DP_RUN"
  /\ advance
  /\ comp_kj < BEATS_PER_TILE_KV
  /\ eng_ctx' = Accumulate(IF comp_kj = 0 THEN row_ctx[comp_batch] ELSE eng_ctx,
                           Contribution(comp_batch, comp_kj))
  /\ comp_kj' = comp_kj + 1
  /\ comp_done' = FALSE
  /\ UNCHANGED <<cs, comp_batch>>

\* Mutant of RetiresBatch: the last key is not waited for.
RetiresEarly(advance) == cs = "C_DP_RUN" /\ advance /\ comp_kj >= BEATS_PER_TILE_KV - 1
\* All contexts of the batch are done: RowCtxNext writes them back.
RetiresBatch(advance) == cs = "C_DP_RUN" /\ advance /\ comp_kj = BEATS_PER_TILE_KV

RetireBatch(advance) ==
  /\ RetiresBatch(advance)
  /\ IF comp_batch = NUM_BATCHES - 1
     THEN cs' = "C_DONE" /\ UNCHANGED <<comp_batch, comp_kj>>
     ELSE comp_batch' = comp_batch + 1 /\ comp_kj' = 0 /\ UNCHANGED cs
  /\ comp_done' = FALSE
  /\ UNCHANGED eng_ctx

InFlight(advance) ==
  /\ cs = "C_DP_RUN"
  /\ ~advance
  /\ comp_done' = FALSE
  /\ UNCHANGED <<cs, comp_batch, comp_kj, eng_ctx>>

Finish ==
  /\ cs = "C_DONE"
  /\ cs' = "C_IDLE"
  /\ comp_done' = TRUE
  /\ UNCHANGED <<comp_batch, comp_kj, eng_ctx>>

EngineClock(advance) ==
  \/ Launch
  \/ ConsumeKey(advance)
  \/ RetireBatch(advance)
  \/ InFlight(advance)
  \/ Finish

\* Mutant of RowCtxNext: S_INIT_CONTEXT does not reset the rows.
RowsNeverReset(softReset, advance) ==
  row_ctx' = IF RetiresBatch(advance) THEN [row_ctx EXCEPT ![comp_batch] = eng_ctx] ELSE row_ctx

\* row_m, row_l and row_acc are assigned by both always_ff blocks.  When both
\* assign at one edge either one may win on the rows both name.
RowCtxNext(softReset, advance) ==
  LET inits  == ~softReset /\ ms = "S_INIT_CONTEXT"
      base   == IF inits THEN FreshRows ELSE row_ctx
      retire == [base EXCEPT ![comp_batch] = eng_ctx]
  IN IF RetiresBatch(advance)
     THEN row_ctx' = retire \/ (inits /\ row_ctx' = base)
     ELSE row_ctx' = base

CoreClock(start, softReset, rdReady, beat, wrReady, wrDataReady, recip, advance) ==
  /\ MasterClock(start, softReset, rdReady, beat, wrReady, wrDataReady, recip)
  /\ EngineClock(advance)
  /\ RowCtxNext(softReset, advance)
=============================================================================
