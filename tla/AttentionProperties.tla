------------------------ MODULE AttentionProperties ------------------------
(***************************************************************************)
(* What the attention IP promises, over AttentionSystem.                   *)
(***************************************************************************)
EXTENDS AttentionSystem

-----------------------------------------------------------------------------
(* The data a run must work on.                                            *)

Beat == [run : Nat, addr : Nat]

TagFor(addr) == [run |-> run, addr |-> addr]

QTileIn(buf, t) == \A i \in QBeats : buf[i] = TagFor(QAddr(t) + i)
KTileIn(buf, t) == \A i \in KVBeats : buf[i] = TagFor(KAddr(t) + i)
VTileIn(buf, t) == \A i \in KVBeats : buf[i] = TagFor(VAddr(t) + i)

\* Everything softmax(QK^T)V asks of batch b of Q tile t: each key once, with its
\* own value and its own place under the mask.
Expected(t, b) ==
  { [q    |-> {TagFor(QAddr(t) + i) : i \in {i \in QBeats : BatchOf(i) = b}},
     k    |-> TagFor(KAddr(u) + j),
     v    |-> TagFor(VAddr(u) + j),
     tile |-> <<t, u>>] : u \in 0 .. NUM_K_TILES - 1, j \in KVBeats }

\* The O beat at offset i of tile t, up to what was accumulated twice.
OutputIsComplete(t, i) ==
  LET row == o_mem[OAddr(t) + i] IN
  /\ row # NoData
  /\ row.num.once = Expected(t, BatchOf(i))
  /\ row.den = row.num

-----------------------------------------------------------------------------
MasterTypeOK ==
  /\ ms \in {"S_IDLE", "S_LOAD_Q", "S_INIT_CONTEXT", "S_LOAD_K", "S_LOAD_V",
             "S_COMPUTE", "S_NORMALIZE", "S_WRITE_O", "S_NEXT_Q", "S_DONE"}
  /\ q_tile_idx \in 0 .. NUM_Q_TILES - 1
  /\ k_tile_idx \in 0 .. NUM_K_TILES - 1
  /\ q_fill_cnt \in 0 .. BEATS_PER_TILE_Q + 1
  /\ kv_fill_cnt \in 0 .. BEATS_PER_TILE_KV + 1
  /\ o_write_cnt \in 0 .. BEATS_PER_TILE_Q + 1
  /\ norm_qi \in Batches

PrefetchTypeOK ==
  /\ pf_state \in {"PF_IDLE", "PF_CMD_K", "PF_DATA_K", "PF_CMD_V", "PF_DATA_V", "PF_DONE"}
  /\ pf_fill_cnt \in 0 .. BEATS_PER_TILE_KV + 1
  /\ active_bank \in Banks
  /\ pref_target_bank \in Banks

EngineTypeOK ==
  /\ cs \in {"C_IDLE", "C_DP_RUN", "C_DONE"}
  /\ comp_batch \in Batches
  /\ comp_kj \in 0 .. BEATS_PER_TILE_KV

FlagTypeOK ==
  /\ o_busy \in BOOLEAN
  /\ o_done \in BOOLEAN
  /\ comp_start \in BOOLEAN
  /\ comp_done \in BOOLEAN
  /\ norm_recip_pending \in BOOLEAN
  /\ norm_row_ready \in BOOLEAN

Command == [valid : BOOLEAN, addr : Nat, len : Nat]

DataTypeOK ==
  /\ rd_cmd \in Command
  /\ wr_cmd \in Command
  /\ q_buf \in [QBeats -> Beat]
  /\ k_buf \in [Banks -> [KVBeats -> Beat]]
  /\ v_buf \in [Banks -> [KVBeats -> Beat]]

\* Every register of the core and of the two DMAs stays in its declared range; for
\* the fill and write counters that is one past the tile, where the RTL's
\* $clog2(..)+1 bits end to be useful.
TypeOK ==
  /\ MasterTypeOK
  /\ PrefetchTypeOK
  /\ EngineTypeOK
  /\ FlagTypeOK
  /\ DataTypeOK
  /\ ReaderTypeOK
  /\ WriterTypeOK

-----------------------------------------------------------------------------
(* Core and DMAs agree.                                                    *)

\* The read the core is taking data from: beats asked for, beats taken.
Awaiting ==
  CASE ms = "S_LOAD_Q" -> <<BEATS_PER_TILE_Q, q_fill_cnt>>
    [] ms \in {"S_LOAD_K", "S_LOAD_V"} -> <<BEATS_PER_TILE_KV, kv_fill_cnt>>
    [] ms = "S_COMPUTE" /\ pf_state \in {"PF_DATA_K", "PF_DATA_V"} ->
         <<BEATS_PER_TILE_KV, pf_fill_cnt>>
    [] OTHER -> <<0, 0>>

\* The read DMA works on, or is about to take, a command for need beats of which
\* the core has fill - 1.
ReaderServes(need, fill) ==
  \/ ar_state = "AR_IDLE" /\ fill = 1 /\ rd_cmd.valid /\ rd_cmd.len + 1 = need
  \/ ar_state # "AR_IDLE" /\ total_beats_left_r = need - fill + 1

\* Once the core has seen the read DMA ready, the command it registered is either
\* on the port with the DMA idle, or it is the one the DMA is executing and the
\* DMA has exactly as many beats left as the core has slots: the command is neither
\* lost nor issued twice although ready is sampled before valid is registered, and
\* the two conditions that end a load ("last" or "full") coincide.
CoreReaderAgree == Awaiting[2] > 0 => ReaderServes(Awaiting[1], Awaiting[2])

\* The same for the write DMA, whose end of burst is the core's last beat.
CoreWriterAgree ==
  ms = "S_WRITE_O" /\ o_write_cnt > 0 =>
    \/ w_state = "W_IDLE" /\ o_write_cnt = 1 /\ wr_cmd.valid
    \/ w_state = "W_ADDR" /\ o_write_cnt = 1 /\ aw_len_r + 1 = BEATS_PER_TILE_Q
    \/ w_state = "W_DATA" /\ beat_cnt = o_write_cnt - 1 /\ aw_len_r + 1 = BEATS_PER_TILE_Q

\* Write DMA and memory count the same beats and mean the same address, the burst
\* ends for both with the beat flagged as last, and the response the DMA waits for is
\* the one the memory owes: also after a soft reset has cut the core off.
WriteBurstAgree ==
  /\ wr_left = IF w_state = "W_DATA" THEN aw_len_r + 1 - beat_cnt ELSE 0
  /\ w_state = "W_DATA" => wr_addr = aw_addr_r + beat_cnt
  /\ b_pending <=> w_state = "W_RESP"

-----------------------------------------------------------------------------
(* Double buffering.                                                       *)

\* While the compute machine runs it reads the Q tile and the K/V tile the indices
\* name, loaded completely and in this run.
OperandsLoaded ==
  cs = "C_DP_RUN" =>
    /\ QTileIn(q_buf, q_tile_idx)
    /\ KTileIn(k_buf[active_bank], k_tile_idx)
    /\ VTileIn(v_buf[active_bank], k_tile_idx)

\* No register or buffer word the pipelines read moves while a tile is in them: the
\* prefetcher only ever writes the other bank, and nothing but the compute machine
\* touches the rows' contexts.
OperandsStable ==
  [][cs = "C_DP_RUN" /\ cs' = "C_DP_RUN" =>
       /\ UNCHANGED <<q_buf, tileVars, active_bank>>
       /\ k_buf'[active_bank] = k_buf[active_bank]
       /\ v_buf'[active_bank] = v_buf[active_bank]
       /\ \A b \in Batches \ {comp_batch} : row_ctx'[b] = row_ctx[b]]_vars

-----------------------------------------------------------------------------
(* Results.                                                                *)

\* When o_done rises the memory has taken every O beat, at the address of its row,
\* and each row was divided by its own sum and holds every key of this run and
\* nothing else.
DoneMeansWritten ==
  o_done => \A t \in 0 .. NUM_Q_TILES - 1 : \A i \in QBeats : OutputIsComplete(t, i)

\* Each K/V tile enters each row once: the reference model of
\* dv/cocotb/tests/test_fa_attention_core.py visits every (query, key) pair once.
AccumulatedOnce == \A b \in Batches : row_ctx[b].again = {}

RunStages == {"S_LOAD_Q", "S_INIT_CONTEXT", "S_LOAD_K", "S_LOAD_V", "S_COMPUTE",
              "S_NORMALIZE", "S_WRITE_O", "S_NEXT_Q"}

RC == INSTANCE RunControl WITH STAGES <- RunStages, FIRST_STAGE <- "S_LOAD_Q"

\* To the register file the core is what RunControl says: it takes a start only when
\* idle, is busy from then to the edge at which it reports done or to a reset, and
\* reports done for one cycle and after a run only.
ImplementsRunControl == RC!RunControlSpec

\* A run that was accepted ends: o_busy falls, by o_done or by a reset.
RunEnds == o_busy ~> ~o_busy
=============================================================================
