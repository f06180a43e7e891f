-------------------------- MODULE AttentionProofs --------------------------
(***************************************************************************)
(* For every number and size of tiles, every burst limit and every timing  *)
(* of host, memory and pipelines, soft resets at any time included: the    *)
(* registers keep their types and the core never disagrees with the read   *)
(* DMA about the beats of a load, nor with the write DMA about a burst.    *)
(* And, where the host may reset the core, but not in the middle of the    *)
(* compute machine's or the write DMA's work, what data a run works on and *)
(* what results it leaves in memory.                                       *)
(***************************************************************************)
EXTENDS AttentionProperties, ReadChannelProofs

\* A prefetch that takes data has a slot for it, and none runs beside the loads of
\* the first K/V tile, so at most one party reads the bus.
OneReader ==
  /\ pf_state \in {"PF_DATA_K", "PF_DATA_V"} => pf_fill_cnt \in 1 .. BEATS_PER_TILE_KV
  /\ ms \in {"S_LOAD_K", "S_LOAD_V"} => pf_state = "PF_IDLE"

\* The read the core is asking for, in beats, while it waits to see the DMA ready.
Asking ==
  CASE ms = "S_LOAD_Q" /\ q_fill_cnt = 0 -> BEATS_PER_TILE_Q
    [] ms \in {"S_LOAD_K", "S_LOAD_V"} /\ kv_fill_cnt = 0 -> BEATS_PER_TILE_KV
    [] ms = "S_COMPUTE" /\ pf_state \in {"PF_CMD_K", "PF_CMD_V"} -> BEATS_PER_TILE_KV
    [] OTHER -> 0

\* A command that is on the port meanwhile is the one it asks for.
AskedFor == Asking > 0 /\ rd_cmd.valid => rd_cmd.len + 1 = Asking

PortInv == OneReader /\ AskedFor /\ CoreReaderAgree

IInv ==
  /\ TypeOK
  /\ ChannelInv
  /\ run \in Nat
  /\ PortInv

-----------------------------------------------------------------------------
(* Helpers.                                                                *)

\* Tile addresses are naturals.
LEMMA TileAddresses ==
  ASSUME NEW t \in Nat
  PROVE  QAddr(t) \in Nat /\ KAddr(t) \in Nat /\ VAddr(t) \in Nat /\ OAddr(t) \in Nat
<1>1. t * BEATS_PER_TILE_Q \in Nat /\ t * BEATS_PER_TILE_KV \in Nat
  BY CoreAssumption
<1> QED
  BY <1>1, CoreAssumption DEF QAddr, KAddr, VAddr, OAddr

\* A command is well formed, valid, and for the beats it was built from.
LEMMA CommandTypes ==
  /\ NoCmd \in Command /\ ~NoCmd.valid
  /\ \A addr \in Nat, beats \in Nat \ {0} :
       /\ Cmd(addr, beats) \in Command
       /\ Cmd(addr, beats).valid
       /\ Cmd(addr, beats).len + 1 = beats
BY DEF NoCmd, Cmd, Command

\* What the read channel delivers at an edge, as the core sees it.
Delivered(beat, rvalid) ==
  /\ beat.valid <=> rvalid
  /\ beat.last <=> out_last
  /\ beat.data \in Beat
  /\ rvalid => rd_left > 0 /\ rd_data_ready

\* Every edge is made of one move of each part, with data only from a memory that
\* has some and to a core that is ready.
LEMMA EdgeParts ==
  ASSUME IInv, Next
  PROVE  \E start, softReset, arready, rvalid, awready, wready, bvalid, recip, advance, beat :
           /\ Delivered(beat, rvalid)
           /\ CoreClock(start, softReset, rd_cmd_ready, beat, wr_cmd_ready,
                        in_ready(wready), recip, advance)
           /\ ReadChannelClock(rd_cmd, arready, rvalid, FALSE, rd_data_ready, run)
           /\ WriterClock(wr_cmd.valid, wr_cmd.addr, wr_cmd.len, wr_data_valid, awready,
                          wready, bvalid, FALSE)
           /\ run' \in Nat
<1>1. PICK start \in Starts, softReset \in SoftResets : Edge(start, softReset)
  BY DEF Next
<1>2. PICK arready \in ARReady, rvalid \in RValid, awready \in AWReady, wready \in WReady,
           bvalid \in BValid, recip \in Recip, advance \in Advance :
        Clock(start, softReset, arready, rvalid, awready, wready, bvalid, recip, advance)
  BY <1>1 DEF Edge
<1> DEFINE beat == [valid |-> rvalid, data |-> ReadBeat, last |-> out_last]
<1>3. rvalid => rd_left > 0 /\ rd_data_ready
  BY <1>2 DEF RValid, Choice
<1>4. ReadBeat \in Beat
  BY DEF ReadBeat, Beat, IInv, ChannelInv
<1>5. Delivered(beat, rvalid)
  BY <1>3, <1>4 DEF Delivered
<1>6. run' \in Nat
  BY <1>2 DEF Clock, IInv
<1> QED
  BY <1>2, <1>5, <1>6 DEF Clock

-----------------------------------------------------------------------------
(* Types.                                                                  *)

\* Indices, counters, banks and states stay in range at every edge of the master
\* machine, and a prefetch keeps within its tile and out of S_LOAD_K and S_LOAD_V.
LEMMA MasterTypes ==
  ASSUME MasterTypeOK, PrefetchTypeOK, OneReader,
         NEW start, NEW softReset, NEW beat, NEW wready, NEW recip,
         MasterClock(start, softReset, rd_cmd_ready, beat, wr_cmd_ready,
                     in_ready(wready), recip)
  PROVE  MasterTypeOK' /\ PrefetchTypeOK' /\ OneReader'
<1> USE CoreAssumption DEF MasterTypeOK, PrefetchTypeOK, OneReader, Banks
<1>1. CASE SoftReset
  BY <1>1 DEF SoftReset, Pulses, tileVars, fillVars, bankVars, pfVars, normVars, bufVars
<1>2. CASE Idle(start)
  BY <1>2 DEF Idle, Start, tileVars, fillVars, bankVars, pfVars, normVars
<1>3. CASE LoadQ(rd_cmd_ready, beat)
  <2>1. UNCHANGED <<tileVars, kv_fill_cnt, bankVars, pfVars, normVars, o_write_cnt>>
    BY <1>3 DEF LoadQ
  <2>2. ms' \in {"S_LOAD_Q", "S_INIT_CONTEXT"}
    BY <1>3 DEF LoadQ
  <2>3. \/ q_fill_cnt' \in {0, 1, q_fill_cnt}
        \/ q_fill_cnt <= BEATS_PER_TILE_Q /\ q_fill_cnt' = q_fill_cnt + 1
    BY <1>3 DEF LoadQ
  <2> QED
    BY <2>1, <2>2, <2>3 DEF tileVars, bankVars, pfVars, normVars
<1>4. CASE InitContext
  BY <1>4 DEF InitContext, normVars
<1>5. CASE LoadK(rd_cmd_ready, beat)
  <2>1. UNCHANGED <<tileVars, q_fill_cnt, bankVars, pfVars, normVars, o_write_cnt>>
    BY <1>5 DEF LoadK
  <2>2. ms' \in {"S_LOAD_K", "S_LOAD_V"} /\ ms \in {"S_LOAD_K", "S_LOAD_V"}
    BY <1>5 DEF LoadK
  <2>3. \/ kv_fill_cnt' \in {0, 1, kv_fill_cnt}
        \/ kv_fill_cnt <= BEATS_PER_TILE_KV /\ kv_fill_cnt' = kv_fill_cnt + 1
    BY <1>5 DEF LoadK
  <2> QED
    BY <2>1, <2>2, <2>3 DEF tileVars, bankVars, pfVars, normVars
<1>6. CASE LoadV(rd_cmd_ready, beat)
  <2>1. UNCHANGED <<tileVars, q_fill_cnt, bankVars, pfVars, normVars, o_write_cnt>>
    BY <1>6 DEF LoadV
  <2>2. ms' \in {"S_LOAD_V", "S_COMPUTE"} /\ ms \in {"S_LOAD_K", "S_LOAD_V"}
    BY <1>6 DEF LoadV
  <2>3. \/ kv_fill_cnt' \in {0, 1, kv_fill_cnt}
        \/ kv_fill_cnt <= BEATS_PER_TILE_KV /\ kv_fill_cnt' = kv_fill_cnt + 1
    BY <1>6 DEF LoadV
  <2> QED
    BY <2>1, <2>2, <2>3 DEF tileVars, bankVars, pfVars, normVars
<1>7. CASE Compute(rd_cmd_ready, beat)
  <2>1. UNCHANGED <<q_tile_idx, q_fill_cnt, kv_fill_cnt, o_write_cnt>>
    BY <1>7 DEF Compute, fillVars
  <2>2. CASE LastTileDone
    BY <2>1, <2>2, <1>7 DEF Compute, LastTileDone, bankVars, Batches
  <2>3. CASE NextTile
    BY <2>1, <2>3, <1>7 DEF Compute, NextTile, normVars
  <2>4. CASE SameTile(rd_cmd_ready, beat)
    <3>1. /\ UNCHANGED <<ms, k_tile_idx, active_bank, norm_qi>>
          /\ pref_target_bank' \in Banks
          /\ pf_state' = PrefetchNext(rd_cmd_ready, beat)[1]
          /\ pf_fill_cnt' = PrefetchNext(rd_cmd_ready, beat)[2]
          /\ ms = "S_COMPUTE"
      BY <2>4, <1>7 DEF Compute, SameTile, normVars
    <3>2. /\ pf_state' \in {"PF_IDLE", "PF_CMD_K", "PF_DATA_K", "PF_CMD_V", "PF_DATA_V", "PF_DONE"}
          /\ pf_fill_cnt' \in 0 .. BEATS_PER_TILE_KV + 1
          /\ pf_state' \in {"PF_DATA_K", "PF_DATA_V"} =>
               pf_fill_cnt' \in 1 .. BEATS_PER_TILE_KV
      BY <3>1 DEF PrefetchNext
    <3> QED
      BY <2>1, <3>1, <3>2
  <2> QED
    BY <1>7, <2>2, <2>3, <2>4 DEF Compute
<1>8. CASE Normalize(recip)
  <2>1. UNCHANGED <<q_tile_idx, k_tile_idx, q_fill_cnt, kv_fill_cnt, active_bank,
                    pref_target_bank, pf_state, pf_fill_cnt>>
    BY <1>8 DEF Normalize, tileVars, fillVars, bankVars, pfVars
  <2>2. /\ ms' \in {"S_NORMALIZE", "S_WRITE_O"}
        /\ norm_qi' \in Batches
        /\ o_write_cnt' \in 0 .. BEATS_PER_TILE_Q + 1
    BY <1>8 DEF Normalize, RequestRecip, TakeRecip, ScaleRow, Batches
  <2> QED
    BY <2>1, <2>2
<1>9. CASE WriteO(wr_cmd_ready, in_ready(wready))
  <2>1. UNCHANGED <<tileVars, fillVars, bankVars, pfVars, normVars>>
    BY <1>9 DEF WriteO
  <2>2. ms' \in {"S_WRITE_O", "S_NEXT_Q"}
    BY <1>9 DEF WriteO
  <2>3. \/ o_write_cnt' \in {0, 1, o_write_cnt}
        \/ o_write_cnt \in 1 .. BEATS_PER_TILE_Q /\ o_write_cnt' = o_write_cnt + 1
    BY <1>9 DEF WriteO, wr_data_valid
  <2> QED
    BY <2>1, <2>2, <2>3 DEF tileVars, fillVars, bankVars, pfVars, normVars
<1>10. CASE NextQ
  BY <1>10 DEF NextQ, bankVars, pfVars, normVars
<1>11. CASE Done
  BY <1>11 DEF Done, tileVars, fillVars, bankVars, pfVars, normVars
<1> QED
  BY <1>1, <1>2, <1>3, <1>4, <1>5, <1>6, <1>7, <1>8, <1>9, <1>10, <1>11 DEF MasterClock

\* Storing a beat anywhere in a buffer of banks keeps its type.
LEMMA Stored ==
  ASSUME NEW buf \in [Banks -> [KVBeats -> Beat]], NEW next, NEW data \in Beat,
         \/ next = buf
         \/ \E bank, i : next = [buf EXCEPT ![bank][i] = data]
  PROVE  next \in [Banks -> [KVBeats -> Beat]]
<1>1. CASE next = buf
  BY <1>1
<1>2. ASSUME NEW bank, NEW i, next = [buf EXCEPT ![bank][i] = data]
      PROVE  next \in [Banks -> [KVBeats -> Beat]]
  BY <1>2
<1> QED
  BY <1>1, <1>2

\* The commands a master machine registers are well formed.
LEMMA CommandStep ==
  ASSUME MasterTypeOK, DataTypeOK,
         NEW start, NEW softReset, NEW beat, NEW wready, NEW recip,
         MasterClock(start, softReset, rd_cmd_ready, beat, wr_cmd_ready,
                     in_ready(wready), recip)
  PROVE  rd_cmd' \in Command /\ wr_cmd' \in Command
<1>1. /\ Cmd(QAddr(q_tile_idx), BEATS_PER_TILE_Q) \in Command
      /\ Cmd(OAddr(q_tile_idx), BEATS_PER_TILE_Q) \in Command
      /\ Cmd(KAddr(k_tile_idx), BEATS_PER_TILE_KV) \in Command
      /\ Cmd(VAddr(k_tile_idx), BEATS_PER_TILE_KV) \in Command
      /\ Cmd(KAddr(k_tile_idx + 1), BEATS_PER_TILE_KV) \in Command
      /\ Cmd(VAddr(k_tile_idx + 1), BEATS_PER_TILE_KV) \in Command
  <2>1. q_tile_idx \in Nat /\ k_tile_idx \in Nat /\ k_tile_idx + 1 \in Nat
    BY CoreAssumption DEF MasterTypeOK
  <2> QED
    BY <2>1, TileAddresses, CommandTypes, CoreAssumption
<1>2. NoCmd \in Command
  BY CommandTypes
<1>3. PrefetchCmd \in Command
  BY <1>1, <1>2 DEF PrefetchCmd
<1> QED
  BY <1>1, <1>2, <1>3 DEF MasterClock, SoftReset, Idle, LoadQ, InitContext, LoadK, LoadV,
                          Compute, Normalize, WriteO, NextQ, Done, Pulses

\* The operand buffers hold tagged beats.
LEMMA BufferStep ==
  ASSUME DataTypeOK,
         NEW start, NEW softReset, NEW beat, beat.data \in Beat, NEW wready, NEW recip,
         MasterClock(start, softReset, rd_cmd_ready, beat, wr_cmd_ready,
                     in_ready(wready), recip)
  PROVE  /\ q_buf' \in [QBeats -> Beat]
         /\ k_buf' \in [Banks -> [KVBeats -> Beat]]
         /\ v_buf' \in [Banks -> [KVBeats -> Beat]]
<1>1. /\ q_buf \in [QBeats -> Beat]
      /\ k_buf \in [Banks -> [KVBeats -> Beat]]
      /\ v_buf \in [Banks -> [KVBeats -> Beat]]
  BY DEF DataTypeOK
<1>2. CASE LoadQ(rd_cmd_ready, beat)
  <2>1. \/ q_buf' = q_buf
        \/ \E i : q_buf' = [q_buf EXCEPT ![i] = beat.data]
    BY <1>2 DEF LoadQ
  <2>2. UNCHANGED <<k_buf, v_buf>>
    BY <1>2 DEF LoadQ
  <2> QED
    BY <1>1, <2>1, <2>2
<1>3. CASE LoadK(rd_cmd_ready, beat)
  <2>1. \/ k_buf' = k_buf
        \/ \E bank, i : k_buf' = [k_buf EXCEPT ![bank][i] = beat.data]
    BY <1>3 DEF LoadK
  <2>2. UNCHANGED <<q_buf, v_buf>>
    BY <1>3 DEF LoadK
  <2>3. k_buf' \in [Banks -> [KVBeats -> Beat]]
    BY <1>1, <2>1, Stored
  <2> QED
    BY <1>1, <2>2, <2>3
<1>4. CASE LoadV(rd_cmd_ready, beat)
  <2>1. \/ v_buf' = v_buf
        \/ \E bank, i : v_buf' = [v_buf EXCEPT ![bank][i] = beat.data]
    BY <1>4 DEF LoadV
  <2>2. UNCHANGED <<q_buf, k_buf>>
    BY <1>4 DEF LoadV
  <2>3. v_buf' \in [Banks -> [KVBeats -> Beat]]
    BY <1>1, <2>1, Stored
  <2> QED
    BY <1>1, <2>2, <2>3
<1>5. CASE Compute(rd_cmd_ready, beat)
  <2>1. q_buf' = q_buf /\ PrefetchStore(beat)
    BY <1>5 DEF Compute
  <2>2. \/ k_buf' = k_buf
        \/ \E bank, i : k_buf' = [k_buf EXCEPT ![bank][i] = beat.data]
    BY <2>1 DEF PrefetchStore
  <2>3. \/ v_buf' = v_buf
        \/ \E bank, i : v_buf' = [v_buf EXCEPT ![bank][i] = beat.data]
    BY <2>1 DEF PrefetchStore
  <2>4. k_buf' \in [Banks -> [KVBeats -> Beat]] /\ v_buf' \in [Banks -> [KVBeats -> Beat]]
    BY <1>1, <2>2, <2>3, Stored
  <2> QED
    BY <1>1, <2>1, <2>4
<1>6. CASE \/ SoftReset \/ Idle(start) \/ InitContext \/ Normalize(recip)
           \/ WriteO(wr_cmd_ready, in_ready(wready)) \/ NextQ \/ Done
  <2>1. UNCHANGED bufVars
    BY <1>6 DEF SoftReset, Idle, InitContext, Normalize, WriteO, NextQ, Done
  <2> QED
    BY <1>1, <2>1 DEF bufVars
<1> QED
  BY <1>2, <1>3, <1>4, <1>5, <1>6 DEF MasterClock

\* The flags of the master machine stay Boolean.
LEMMA FlagStep ==
  ASSUME FlagTypeOK,
         NEW start, NEW softReset, NEW beat, NEW wready, NEW recip,
         MasterClock(start, softReset, rd_cmd_ready, beat, wr_cmd_ready,
                     in_ready(wready), recip)
  PROVE  /\ o_busy' \in BOOLEAN
         /\ o_done' \in BOOLEAN
         /\ comp_start' \in BOOLEAN
         /\ norm_recip_pending' \in BOOLEAN
         /\ norm_row_ready' \in BOOLEAN
<1>1. o_busy' \in BOOLEAN
  <2>1. o_busy' \in {TRUE, FALSE, o_busy}
    BY DEF MasterClock, SoftReset, Idle, Start, LoadQ, InitContext, LoadK, LoadV,
           Compute, Normalize, WriteO, NextQ, Done
  <2> QED
    BY <2>1 DEF FlagTypeOK
<1>2. o_done' \in BOOLEAN
  BY DEF MasterClock, SoftReset, Idle, LoadQ, InitContext, LoadK, LoadV,
         Compute, Normalize, WriteO, NextQ, Done, Pulses
<1>3. comp_start' \in BOOLEAN
  <2>1. comp_start' = FALSE \/ comp_start' = (~comp_done /\ cs = "C_IDLE")
    BY DEF MasterClock, SoftReset, Idle, LoadQ, InitContext, LoadK, LoadV,
           Compute, Normalize, WriteO, NextQ, Done, Pulses
  <2> QED
    BY <2>1, Zenon
<1>4. /\ norm_recip_pending' \in {TRUE, FALSE, norm_recip_pending}
      /\ norm_row_ready' \in {TRUE, FALSE, norm_row_ready}
  <2>1. CASE Compute(rd_cmd_ready, beat)
    BY <2>1 DEF Compute, LastTileDone, NextTile, SameTile, normVars
  <2>2. CASE Normalize(recip)
    BY <2>2 DEF Normalize, RequestRecip, TakeRecip, ScaleRow
  <2>3. CASE ~Compute(rd_cmd_ready, beat) /\ ~Normalize(recip)
    BY <2>3 DEF MasterClock, SoftReset, Idle, LoadQ, InitContext, LoadK, LoadV,
                WriteO, NextQ, Done, normVars
  <2> QED
    BY <2>1, <2>2, <2>3
<1> QED
  BY <1>1, <1>2, <1>3, <1>4 DEF FlagTypeOK

\* The compute machine stays within the batches and the keys of a tile.
LEMMA EngineStep ==
  ASSUME EngineTypeOK, NEW advance, EngineClock(advance)
  PROVE  EngineTypeOK' /\ comp_done' \in BOOLEAN
<1>1. comp_done' \in BOOLEAN
  BY DEF EngineClock, Launch, ConsumeKey, RetireBatch, InFlight, Finish
<1>2. cs' \in {"C_IDLE", "C_DP_RUN", "C_DONE"}
  BY DEF EngineClock, Launch, ConsumeKey, RetireBatch, InFlight, Finish, EngineTypeOK
<1>3. \/ comp_batch' \in {0, comp_batch}
      \/ comp_batch # NUM_BATCHES - 1 /\ comp_batch' = comp_batch + 1
  BY DEF EngineClock, Launch, ConsumeKey, RetireBatch, InFlight, Finish
<1>4. \/ comp_kj' \in {0, comp_kj}
      \/ comp_kj < BEATS_PER_TILE_KV /\ comp_kj' = comp_kj + 1
  BY DEF EngineClock, Launch, ConsumeKey, RetireBatch, InFlight, Finish
<1> QED
  BY <1>1, <1>2, <1>3, <1>4, CoreAssumption DEF EngineTypeOK, Batches

\* A remainder is below its modulus.
LEMMA ModBounds ==
  ASSUME NEW n \in Nat
  PROVE  n % AW_LEN_MOD \in 0 .. AW_LEN_MOD - 1
BY AwLenAssumption

\* The registers of the write DMA keep their types.
LEMMA WriterStep ==
  ASSUME WriterTypeOK, NEW cmd \in Command, NEW inValid, NEW awready, NEW wready,
         NEW bvalid, NEW berr,
         WriterClock(cmd.valid, cmd.addr, cmd.len, inValid, awready, wready, bvalid, berr)
  PROVE  WriterTypeOK'
<1>1. cmd.addr \in Nat /\ cmd.len \in Nat
  BY DEF Command
<1>2. wr_error' \in BOOLEAN
  BY Zenon DEF WriterClock, WriterError
<1>3. /\ cmd.len % AW_LEN_MOD \in 0 .. AW_LEN_MOD - 1
      /\ (beat_cnt + 1) % AW_LEN_MOD \in 0 .. AW_LEN_MOD - 1
  <2>1. beat_cnt + 1 \in Nat
    BY AwLenAssumption DEF WriterTypeOK
  <2> QED
    BY <1>1, <2>1, ModBounds
<1>4. /\ w_state' \in {"W_IDLE", "W_ADDR", "W_DATA", "W_RESP"}
      /\ aw_addr_r' \in {aw_addr_r, cmd.addr}
      /\ aw_len_r' \in {aw_len_r, cmd.len % AW_LEN_MOD}
      /\ beat_cnt' \in {0, beat_cnt, (beat_cnt + 1) % AW_LEN_MOD}
  BY DEF WriterClock, AcceptWriteCmd, SendAw, SendBeat, TakeResponse, WriterHold, WriterTypeOK
<1> QED
  BY <1>1, <1>2, <1>3, <1>4, AwLenAssumption DEF WriterTypeOK

-----------------------------------------------------------------------------
(* The core and the read DMA.                                              *)

\* An edge at which the core sees the DMA ready while it asks for need beats: the
\* DMA takes the command now, or finds it on the port at the next edge.
LEMMA Handover ==
  ASSUME ChannelInv, DataTypeOK, NEW need \in Nat \ {0}, rd_cmd_ready,
         rd_cmd.valid => rd_cmd.len + 1 = need,
         rd_cmd'.valid, rd_cmd'.len + 1 = need,
         NEW arready, NEW rvalid, rvalid => rd_left > 0,
         ReadChannelClock(rd_cmd, arready, rvalid, FALSE, rd_data_ready, run)
  PROVE  ReaderServes(need, 1)'
<1>1. ar_state = "AR_IDLE"
  BY DEF rd_cmd_ready
<1>2. CASE AcceptCmd(rd_cmd.valid, rd_cmd.addr, rd_cmd.len)
  <2>1. ar_state' = "AR_SEND" /\ total_beats_left_r' = need
    BY <1>2 DEF AcceptCmd
  <2> QED
    BY <2>1 DEF ReaderServes
<1>3. CASE ReaderHold(rd_cmd.valid, arready, rvalid, rd_data_ready)
  BY <1>1, <1>3 DEF ReaderHold, ReaderServes
<1> QED
  BY <1>1, <1>2, <1>3 DEF ReadChannelClock, ReaderClock, SendAr, arvalid, StreamBeat

\* What an edge in the middle of a load for need beats makes of fill: data comes from
\* the command the core thinks of, the DMA's last beat is the one that fills the
\* tile, and until then core and DMA count down together.
Counted(need, fill, rvalid) ==
  /\ fill <= need
  /\ IF rvalid
     THEN /\ out_last <=> fill = need
          /\ fill # need => ReaderServes(need, fill + 1)'
     ELSE ReaderServes(need, fill)'

\* A load that the DMA serves counts down with it at every edge, data or not.
LEMMA Transfer ==
  ASSUME ChannelInv, rd_data_ready,
         NEW arready, NEW rvalid, rvalid => rd_left > 0,
         ReadChannelClock(rd_cmd, arready, rvalid, FALSE, rd_data_ready, run)
  PROVE  \A need, fill \in Nat \ {0} : ReaderServes(need, fill) => Counted(need, fill, rvalid)
<1> TAKE need, fill \in Nat \ {0}
<1> HAVE ReaderServes(need, fill)
<1>1. rvalid => ar_state = "AR_STREAM"
  BY DataOnlyWhileStreaming
<1>2. ar_state # "AR_IDLE" => total_beats_left_r \in Nat \ {0}
  BY DEF ChannelInv, BurstAgree, ReaderTypeOK
<1>3. fill <= need
  BY <1>2 DEF ReaderServes
<1>4. CASE rvalid
  <2>1. total_beats_left_r = need - fill + 1
    BY <1>1, <1>4 DEF ReaderServes
  <2>2. out_last <=> fill = need
    BY <2>1 DEF out_last
  <2>3. ASSUME fill # need PROVE ReaderServes(need, fill + 1)'
    <3>1. StreamBeat(rvalid, rd_data_ready)
      BY <1>1, <1>4 DEF ReadChannelClock, ReaderClock, AcceptCmd, rd_cmd_ready, SendAr,
                        arvalid, ReaderHold
    <3>2. total_beats_left_r' = need - fill /\ total_beats_left_r # 1
      BY <2>1, <2>3, <3>1 DEF StreamBeat
    <3>3. ar_state' # "AR_IDLE"
      BY <3>1, <3>2 DEF StreamBeat, LastBeat, NextBurst, InnerBeat
    <3> QED
      BY <3>2, <3>3 DEF ReaderServes
  <2> QED
    BY <1>3, <1>4, <2>2, <2>3 DEF Counted
<1>5. CASE ~rvalid
  <2>1. ReaderServes(need, fill)'
    <3>1. CASE AcceptCmd(rd_cmd.valid, rd_cmd.addr, rd_cmd.len)
      BY <3>1 DEF AcceptCmd, rd_cmd_ready, ReaderServes
    <3>2. CASE SendAr(arready)
      BY <3>2 DEF SendAr, arvalid, ReaderServes
    <3>3. CASE ReaderHold(rd_cmd.valid, arready, rvalid, rd_data_ready)
      BY <3>3 DEF ReaderHold, ReaderServes
    <3> QED
      BY <1>5, <3>1, <3>2, <3>3 DEF ReadChannelClock, ReaderClock, StreamBeat
  <2> QED
    BY <1>3, <1>5, <2>1 DEF Counted
<1> QED
  BY <1>4, <1>5

\* The three ways the master machine reads the bus, one lemma each.

\* S_LOAD_Q.
LEMMA LoadQAgrees ==
  ASSUME IInv, NEW arready, NEW rvalid, NEW beat, Delivered(beat, rvalid),
         ReadChannelClock(rd_cmd, arready, rvalid, FALSE, rd_data_ready, run),
         LoadQ(rd_cmd_ready, beat)
  PROVE  AskedFor' /\ CoreReaderAgree'
<1>1. /\ ms = "S_LOAD_Q" /\ rd_data_ready
      /\ q_fill_cnt \in Nat /\ BEATS_PER_TILE_Q \in Nat \ {0}
  BY CoreAssumption DEF LoadQ, rd_data_ready, IInv, TypeOK, MasterTypeOK
<1>2. ChannelInv /\ DataTypeOK /\ (rvalid => rd_left > 0)
  BY DEF IInv, TypeOK, Delivered
<1>3. CASE q_fill_cnt = 0
  <2>1. /\ ms' = "S_LOAD_Q"
        /\ rd_cmd' = Cmd(QAddr(q_tile_idx), BEATS_PER_TILE_Q)
        /\ q_fill_cnt' = IF rd_cmd_ready THEN 1 ELSE 0
    BY <1>1, <1>3 DEF LoadQ, Pulses
  <2>2. rd_cmd'.valid /\ rd_cmd'.len + 1 = BEATS_PER_TILE_Q
    BY <1>1, <2>1 DEF Cmd
  <2>3. CASE rd_cmd_ready
    <3>1. rd_cmd.valid => rd_cmd.len + 1 = BEATS_PER_TILE_Q
      BY <1>1, <1>3 DEF IInv, PortInv, AskedFor, Asking
    <3>2. ReaderServes(BEATS_PER_TILE_Q, 1)'
      BY <1>1, <1>2, <2>2, <2>3, <3>1, Handover
    <3> QED
      BY <2>1, <2>3, <3>2 DEF AskedFor, Asking, CoreReaderAgree, Awaiting
  <2>4. CASE ~rd_cmd_ready
    BY <1>1, <2>1, <2>2, <2>4 DEF AskedFor, Asking, CoreReaderAgree, Awaiting
  <2> QED
    BY <2>3, <2>4
<1>4. CASE q_fill_cnt # 0
  <2>1. PICK fill \in Nat \ {0} : fill = q_fill_cnt
    BY <1>1, <1>4
  <2>2. ReaderServes(BEATS_PER_TILE_Q, fill)
    BY <1>1, <2>1 DEF IInv, PortInv, CoreReaderAgree, Awaiting
  <2>3. \A need, n \in Nat \ {0} : ReaderServes(need, n) => Counted(need, n, rvalid)
    BY <1>1, <1>2, Transfer
  <2>4. Counted(BEATS_PER_TILE_Q, fill, rvalid)
    BY <1>1, <2>1, <2>2, <2>3
  <2>5. ~rd_cmd'.valid
    BY <1>4, CommandTypes DEF LoadQ, Pulses
  <2>6. CASE ~rvalid
    <3>1. ReaderServes(BEATS_PER_TILE_Q, fill)'
      BY <2>4, <2>6 DEF Counted
    <3>2. UNCHANGED <<ms, q_fill_cnt>>
      BY <1>4, <2>6 DEF LoadQ, Delivered
    <3> QED
      BY <1>1, <2>1, <2>5, <3>1, <3>2 DEF AskedFor, CoreReaderAgree, Awaiting
  <2>7. CASE rvalid /\ fill = BEATS_PER_TILE_Q
    <3>1. ms' = "S_INIT_CONTEXT"
      BY <1>1, <1>4, <2>1, <2>4, <2>7 DEF LoadQ, Delivered, Counted
    <3> QED
      BY <2>5, <3>1 DEF AskedFor, CoreReaderAgree, Awaiting
  <2>8. CASE rvalid /\ fill # BEATS_PER_TILE_Q
    <3>1. ReaderServes(BEATS_PER_TILE_Q, fill + 1)'
      BY <2>4, <2>8 DEF Counted
    <3>2. ms' = ms /\ q_fill_cnt' = fill + 1
      BY <1>4, <2>1, <2>4, <2>8 DEF LoadQ, Delivered, Counted
    <3> QED
      BY <1>1, <2>1, <2>5, <3>1, <3>2 DEF AskedFor, CoreReaderAgree, Awaiting
  <2> QED
    BY <2>6, <2>7, <2>8
<1> QED
  BY <1>3, <1>4

\* S_LOAD_K.
LEMMA LoadKAgrees ==
  ASSUME IInv, NEW arready, NEW rvalid, NEW beat, Delivered(beat, rvalid),
         ReadChannelClock(rd_cmd, arready, rvalid, FALSE, rd_data_ready, run),
         LoadK(rd_cmd_ready, beat)
  PROVE  AskedFor' /\ CoreReaderAgree'
<1>1. /\ ms = "S_LOAD_K" /\ rd_data_ready
      /\ kv_fill_cnt \in Nat /\ BEATS_PER_TILE_KV \in Nat \ {0}
  BY CoreAssumption DEF LoadK, rd_data_ready, IInv, TypeOK, MasterTypeOK
<1>2. ChannelInv /\ DataTypeOK /\ (rvalid => rd_left > 0)
  BY DEF IInv, TypeOK, Delivered
<1>3. CASE kv_fill_cnt = 0
  <2>1. /\ ms' = "S_LOAD_K"
        /\ rd_cmd' = Cmd(KAddr(k_tile_idx), BEATS_PER_TILE_KV)
        /\ kv_fill_cnt' = IF rd_cmd_ready THEN 1 ELSE 0
    BY <1>1, <1>3 DEF LoadK, Pulses
  <2>2. rd_cmd'.valid /\ rd_cmd'.len + 1 = BEATS_PER_TILE_KV
    BY <1>1, <2>1 DEF Cmd
  <2>3. CASE rd_cmd_ready
    <3>1. rd_cmd.valid => rd_cmd.len + 1 = BEATS_PER_TILE_KV
      BY <1>1, <1>3 DEF IInv, PortInv, AskedFor, Asking
    <3>2. ReaderServes(BEATS_PER_TILE_KV, 1)'
      BY <1>1, <1>2, <2>2, <2>3, <3>1, Handover
    <3> QED
      BY <2>1, <2>3, <3>2 DEF AskedFor, Asking, CoreReaderAgree, Awaiting
  <2>4. CASE ~rd_cmd_ready
    BY <1>1, <2>1, <2>2, <2>4 DEF AskedFor, Asking, CoreReaderAgree, Awaiting
  <2> QED
    BY <2>3, <2>4
<1>4. CASE kv_fill_cnt # 0
  <2>1. PICK fill \in Nat \ {0} : fill = kv_fill_cnt
    BY <1>1, <1>4
  <2>2. ReaderServes(BEATS_PER_TILE_KV, fill)
    BY <1>1, <2>1 DEF IInv, PortInv, CoreReaderAgree, Awaiting
  <2>3. \A need, n \in Nat \ {0} : ReaderServes(need, n) => Counted(need, n, rvalid)
    BY <1>1, <1>2, Transfer
  <2>4. Counted(BEATS_PER_TILE_KV, fill, rvalid)
    BY <1>1, <2>1, <2>2, <2>3
  <2>5. ~rd_cmd'.valid
    BY <1>4, CommandTypes DEF LoadK, Pulses
  <2>6. CASE ~rvalid
    <3>1. ReaderServes(BEATS_PER_TILE_KV, fill)'
      BY <2>4, <2>6 DEF Counted
    <3>2. UNCHANGED <<ms, kv_fill_cnt>>
      BY <1>4, <2>6 DEF LoadK, Delivered
    <3> QED
      BY <1>1, <2>1, <2>5, <3>1, <3>2 DEF AskedFor, CoreReaderAgree, Awaiting
  <2>7. CASE rvalid /\ fill = BEATS_PER_TILE_KV
    <3>1. ms' = "S_LOAD_V" /\ kv_fill_cnt' = 0
      BY <1>1, <1>4, <2>1, <2>4, <2>7 DEF LoadK, Delivered, Counted
    <3> QED
      BY <2>5, <3>1 DEF AskedFor, CoreReaderAgree, Awaiting
  <2>8. CASE rvalid /\ fill # BEATS_PER_TILE_KV
    <3>1. ReaderServes(BEATS_PER_TILE_KV, fill + 1)'
      BY <2>4, <2>8 DEF Counted
    <3>2. ms' = ms /\ kv_fill_cnt' = fill + 1
      BY <1>4, <2>1, <2>4, <2>8 DEF LoadK, Delivered, Counted
    <3> QED
      BY <1>1, <2>1, <2>5, <3>1, <3>2 DEF AskedFor, CoreReaderAgree, Awaiting
  <2> QED
    BY <2>6, <2>7, <2>8
<1> QED
  BY <1>3, <1>4

\* S_LOAD_V.
LEMMA LoadVAgrees ==
  ASSUME IInv, NEW arready, NEW rvalid, NEW beat, Delivered(beat, rvalid),
         ReadChannelClock(rd_cmd, arready, rvalid, FALSE, rd_data_ready, run),
         LoadV(rd_cmd_ready, beat)
  PROVE  AskedFor' /\ CoreReaderAgree'
<1>1. /\ ms = "S_LOAD_V" /\ rd_data_ready
      /\ kv_fill_cnt \in Nat /\ BEATS_PER_TILE_KV \in Nat \ {0}
  BY CoreAssumption DEF LoadV, rd_data_ready, IInv, TypeOK, MasterTypeOK
<1>2. ChannelInv /\ DataTypeOK /\ (rvalid => rd_left > 0)
  BY DEF IInv, TypeOK, Delivered
<1>3. CASE kv_fill_cnt = 0
  <2>1. /\ ms' = "S_LOAD_V"
        /\ rd_cmd' = Cmd(VAddr(k_tile_idx), BEATS_PER_TILE_KV)
        /\ kv_fill_cnt' = IF rd_cmd_ready THEN 1 ELSE 0
    BY <1>1, <1>3 DEF LoadV, Pulses
  <2>2. rd_cmd'.valid /\ rd_cmd'.len + 1 = BEATS_PER_TILE_KV
    BY <1>1, <2>1 DEF Cmd
  <2>3. CASE rd_cmd_ready
    <3>1. rd_cmd.valid => rd_cmd.len + 1 = BEATS_PER_TILE_KV
      BY <1>1, <1>3 DEF IInv, PortInv, AskedFor, Asking
    <3>2. ReaderServes(BEATS_PER_TILE_KV, 1)'
      BY <1>1, <1>2, <2>2, <2>3, <3>1, Handover
    <3> QED
      BY <2>1, <2>3, <3>2 DEF AskedFor, Asking, CoreReaderAgree, Awaiting
  <2>4. CASE ~rd_cmd_ready
    BY <1>1, <2>1, <2>2, <2>4 DEF AskedFor, Asking, CoreReaderAgree, Awaiting
  <2> QED
    BY <2>3, <2>4
<1>4. CASE kv_fill_cnt # 0
  <2>1. PICK fill \in Nat \ {0} : fill = kv_fill_cnt
    BY <1>1, <1>4
  <2>2. ReaderServes(BEATS_PER_TILE_KV, fill)
    BY <1>1, <2>1 DEF IInv, PortInv, CoreReaderAgree, Awaiting
  <2>3. \A need, n \in Nat \ {0} : ReaderServes(need, n) => Counted(need, n, rvalid)
    BY <1>1, <1>2, Transfer
  <2>4. Counted(BEATS_PER_TILE_KV, fill, rvalid)
    BY <1>1, <2>1, <2>2, <2>3
  <2>5. ~rd_cmd'.valid
    BY <1>4, CommandTypes DEF LoadV, Pulses
  <2>6. CASE ~rvalid
    <3>1. ReaderServes(BEATS_PER_TILE_KV, fill)'
      BY <2>4, <2>6 DEF Counted
    <3>2. UNCHANGED <<ms, kv_fill_cnt>>
      BY <1>4, <2>6 DEF LoadV, Delivered
    <3> QED
      BY <1>1, <2>1, <2>5, <3>1, <3>2 DEF AskedFor, CoreReaderAgree, Awaiting
  <2>7. CASE rvalid /\ fill = BEATS_PER_TILE_KV
    <3>1. ms' = "S_COMPUTE" /\ pf_state' = "PF_IDLE"
      BY <1>1, <1>4, <2>1, <2>4, <2>7 DEF LoadV, Delivered, Counted, IInv, PortInv, OneReader, pfVars
    <3> QED
      BY <2>5, <3>1 DEF AskedFor, CoreReaderAgree, Awaiting
  <2>8. CASE rvalid /\ fill # BEATS_PER_TILE_KV
    <3>1. ReaderServes(BEATS_PER_TILE_KV, fill + 1)'
      BY <2>4, <2>8 DEF Counted
    <3>2. ms' = ms /\ kv_fill_cnt' = fill + 1
      BY <1>4, <2>1, <2>4, <2>8 DEF LoadV, Delivered, Counted
    <3> QED
      BY <1>1, <2>1, <2>5, <3>1, <3>2 DEF AskedFor, CoreReaderAgree, Awaiting
  <2> QED
    BY <2>6, <2>7, <2>8
<1> QED
  BY <1>3, <1>4

\* S_COMPUTE, when the prefetcher moves.
LEMMA PrefetchAgrees ==
  ASSUME IInv, NEW arready, NEW rvalid, NEW beat, Delivered(beat, rvalid),
         ReadChannelClock(rd_cmd, arready, rvalid, FALSE, rd_data_ready, run),
         Compute(rd_cmd_ready, beat), SameTile(rd_cmd_ready, beat)
  PROVE  AskedFor' /\ CoreReaderAgree'
<1>1. /\ ms = "S_COMPUTE" /\ ms' = "S_COMPUTE"
      /\ pf_state' = PrefetchNext(rd_cmd_ready, beat)[1]
      /\ pf_fill_cnt' = PrefetchNext(rd_cmd_ready, beat)[2]
      /\ rd_cmd' = PrefetchCmd
      /\ BEATS_PER_TILE_KV \in Nat \ {0}
  BY CoreAssumption DEF Compute, SameTile, Pulses
<1>2. ChannelInv /\ DataTypeOK /\ (rvalid => rd_left > 0)
  BY DEF IInv, TypeOK, Delivered
<1>3. CASE pf_state \in {"PF_IDLE", "PF_DONE"}
  <2>1. pf_state' \in {"PF_IDLE", "PF_CMD_K", "PF_DONE"}
    BY <1>1, <1>3 DEF PrefetchNext
  <2>2. ~rd_cmd'.valid
    BY <1>1, <1>3, CommandTypes DEF PrefetchCmd
  <2> QED
    BY <1>1, <2>1, <2>2 DEF AskedFor, CoreReaderAgree, Awaiting
<1>4. CASE pf_state \in {"PF_CMD_K", "PF_CMD_V"}
  <2>1. rd_cmd'.valid /\ rd_cmd'.len + 1 = BEATS_PER_TILE_KV
    BY <1>1, <1>4 DEF PrefetchCmd, Cmd
  <2>2. CASE rd_cmd_ready
    <3>1. pf_state' \in {"PF_DATA_K", "PF_DATA_V"} /\ pf_fill_cnt' = 1
      BY <1>1, <1>4, <2>2 DEF PrefetchNext
    <3>2. rd_cmd.valid => rd_cmd.len + 1 = BEATS_PER_TILE_KV
      BY <1>1, <1>4 DEF IInv, PortInv, AskedFor, Asking
    <3>3. ReaderServes(BEATS_PER_TILE_KV, 1)'
      BY <1>1, <1>2, <2>1, <2>2, <3>2, Handover
    <3> QED
      BY <1>1, <3>1, <3>3 DEF AskedFor, Asking, CoreReaderAgree, Awaiting
  <2>3. CASE ~rd_cmd_ready
    <3>1. pf_state' = pf_state
      BY <1>1, <1>4, <2>3 DEF PrefetchNext
    <3> QED
      BY <1>1, <1>4, <2>1, <3>1 DEF AskedFor, Asking, CoreReaderAgree, Awaiting
  <2> QED
    BY <2>2, <2>3
<1>5. CASE pf_state \in {"PF_DATA_K", "PF_DATA_V"}
  <2>1. PICK fill \in Nat \ {0} : fill = pf_fill_cnt
    BY <1>1, <1>5 DEF IInv, PortInv, OneReader
  <2>2. ReaderServes(BEATS_PER_TILE_KV, fill)
    BY <1>1, <1>5, <2>1 DEF IInv, PortInv, CoreReaderAgree, Awaiting
  <2>3. \A need, n \in Nat \ {0} : ReaderServes(need, n) => Counted(need, n, rvalid)
    <3>1. rd_data_ready
      BY <1>1, <1>5 DEF rd_data_ready
    <3> QED
      BY <1>2, <3>1, Transfer
  <2>4. Counted(BEATS_PER_TILE_KV, fill, rvalid)
    BY <1>1, <2>1, <2>2, <2>3
  <2>5. ~rd_cmd'.valid
    BY <1>1, <1>5, CommandTypes DEF PrefetchCmd
  <2>6. CASE ~rvalid
    <3>1. ReaderServes(BEATS_PER_TILE_KV, fill)'
      BY <2>4, <2>6 DEF Counted
    <3>2. UNCHANGED <<pf_state, pf_fill_cnt>>
      BY <1>1, <1>5, <2>6 DEF PrefetchNext, Delivered
    <3> QED
      BY <1>1, <1>5, <2>1, <2>5, <3>1, <3>2 DEF AskedFor, CoreReaderAgree, Awaiting
  <2>7. CASE rvalid /\ fill = BEATS_PER_TILE_KV
    <3>1. pf_state' \in {"PF_CMD_V", "PF_DONE"}
      BY <1>1, <1>5, <2>1, <2>4, <2>7 DEF PrefetchNext, Delivered, Counted
    <3> QED
      BY <1>1, <2>5, <3>1 DEF AskedFor, CoreReaderAgree, Awaiting
  <2>8. CASE rvalid /\ fill # BEATS_PER_TILE_KV
    <3>1. ReaderServes(BEATS_PER_TILE_KV, fill + 1)'
      BY <2>4, <2>8 DEF Counted
    <3>2. pf_state' = pf_state /\ pf_fill_cnt' = fill + 1
      BY <1>1, <1>5, <2>1, <2>4, <2>8 DEF PrefetchNext, Delivered, Counted
    <3> QED
      BY <1>1, <1>5, <2>1, <2>5, <3>1, <3>2 DEF AskedFor, CoreReaderAgree, Awaiting
  <2> QED
    BY <2>6, <2>7, <2>8
<1> QED
  BY <1>3, <1>4, <1>5 DEF IInv, TypeOK, PrefetchTypeOK

\* Every edge of the master machine keeps the agreement.
LEMMA PortStep ==
  ASSUME IInv, NEW arready, NEW rvalid, NEW beat, Delivered(beat, rvalid),
         ReadChannelClock(rd_cmd, arready, rvalid, FALSE, rd_data_ready, run),
         NEW start, NEW softReset, NEW wready, NEW recip,
         MasterClock(start, softReset, rd_cmd_ready, beat, wr_cmd_ready,
                     in_ready(wready), recip)
  PROVE  AskedFor' /\ CoreReaderAgree'
<1>1. CASE LoadQ(rd_cmd_ready, beat)
  BY <1>1, LoadQAgrees
<1>2. CASE LoadK(rd_cmd_ready, beat)
  BY <1>2, LoadKAgrees
<1>3. CASE LoadV(rd_cmd_ready, beat)
  BY <1>3, LoadVAgrees
<1>4. CASE Compute(rd_cmd_ready, beat)
  <2>1. CASE SameTile(rd_cmd_ready, beat)
    BY <1>4, <2>1, PrefetchAgrees
  <2>2. CASE LastTileDone
    <3>1. ms' = "S_NORMALIZE"
      BY <2>2 DEF LastTileDone
    <3> QED
      BY <3>1 DEF AskedFor, Asking, CoreReaderAgree, Awaiting
  <2>3. CASE NextTile
    <3>1. ms' = "S_COMPUTE" /\ pf_state' \in {"PF_IDLE", "PF_CMD_K"} /\ rd_cmd' = NoCmd
      BY <1>4, <2>3 DEF Compute, NextTile, Pulses, PrefetchCmd
    <3> QED
      BY <3>1, CommandTypes DEF AskedFor, CoreReaderAgree, Awaiting
  <2> QED
    BY <1>4, <2>1, <2>2, <2>3 DEF Compute
<1>5. CASE SoftReset \/ Normalize(recip) \/ WriteO(wr_cmd_ready, in_ready(wready)) \/ Done
  <2>1. ms' \in {"S_IDLE", "S_NORMALIZE", "S_WRITE_O", "S_NEXT_Q"}
    BY <1>5 DEF SoftReset, Normalize, RequestRecip, TakeRecip, ScaleRow, WriteO, Done
  <2> QED
    BY <2>1 DEF AskedFor, Asking, CoreReaderAgree, Awaiting
<1>6. CASE Idle(start) \/ NextQ \/ InitContext
  <2>1. rd_cmd' = NoCmd
    BY <1>6 DEF Idle, NextQ, InitContext, Pulses
  <2>2. \/ ms' \in {"S_IDLE", "S_DONE"}
        \/ ms' = "S_LOAD_Q" /\ q_fill_cnt' = 0
        \/ ms' = "S_LOAD_K" /\ kv_fill_cnt' = 0
    BY <1>6 DEF Idle, Start, NextQ, InitContext
  <2> QED
    BY <2>1, <2>2, CommandTypes DEF AskedFor, CoreReaderAgree, Awaiting
<1> QED
  BY <1>1, <1>2, <1>3, <1>4, <1>5, <1>6 DEF MasterClock

-----------------------------------------------------------------------------
(* The invariant.                                                          *)

\* The reset values satisfy the invariant.
LEMMA InitInv == Init => IInv
<1> SUFFICES ASSUME Init PROVE IInv
  OBVIOUS
<1> USE CoreAssumption
<1>1. MasterTypeOK /\ PrefetchTypeOK /\ EngineTypeOK
  BY DEF Init, CoreInit, MasterTypeOK, PrefetchTypeOK, EngineTypeOK, Batches, Banks
<1>2. FlagTypeOK
  BY DEF Init, CoreInit, FlagTypeOK
<1>3. DataTypeOK
  <2>1. Unloaded \in Beat
    BY DEF Unloaded, Beat
  <2> QED
    BY <2>1, CommandTypes DEF Init, CoreInit, DataTypeOK
<1>4. ChannelInv
  BY ChannelInit DEF Init
<1>5. WriterTypeOK
  <2>1. wr_error \in BOOLEAN
    BY Zenon DEF Init, WriterInit
  <2> QED
    BY <2>1, AwLenAssumption DEF Init, WriterInit, WriterTypeOK
<1>6. run \in Nat
  BY DEF Init
<1>7. PortInv
  BY DEF Init, CoreInit, PortInv, OneReader, AskedFor, Asking, CoreReaderAgree, Awaiting
<1> QED
  BY <1>1, <1>2, <1>3, <1>4, <1>5, <1>6, <1>7 DEF IInv, TypeOK, ChannelInv

\* Every clock edge keeps it: the channel by ChannelStep, the registers part by part,
\* the agreement by PortStep.
LEMMA EdgeInv == IInv /\ Next => IInv'
<1> SUFFICES ASSUME IInv, Next PROVE IInv'
  OBVIOUS
<1>1. PICK start, softReset, arready, rvalid, awready, wready, bvalid, recip, advance, beat :
        /\ Delivered(beat, rvalid)
        /\ CoreClock(start, softReset, rd_cmd_ready, beat, wr_cmd_ready,
                     in_ready(wready), recip, advance)
        /\ ReadChannelClock(rd_cmd, arready, rvalid, FALSE, rd_data_ready, run)
        /\ WriterClock(wr_cmd.valid, wr_cmd.addr, wr_cmd.len, wr_data_valid, awready,
                       wready, bvalid, FALSE)
        /\ run' \in Nat
  BY EdgeParts
<1>2. /\ MasterTypeOK /\ PrefetchTypeOK /\ EngineTypeOK /\ FlagTypeOK /\ DataTypeOK
      /\ WriterTypeOK /\ OneReader /\ ChannelInv /\ run \in Nat
  BY DEF IInv, TypeOK, PortInv
<1>3. /\ MasterClock(start, softReset, rd_cmd_ready, beat, wr_cmd_ready,
                     in_ready(wready), recip)
      /\ EngineClock(advance)
  BY <1>1 DEF CoreClock
<1>4. MasterTypeOK' /\ PrefetchTypeOK' /\ OneReader'
  BY <1>2, <1>3, MasterTypes
<1>5. EngineTypeOK' /\ comp_done' \in BOOLEAN
  BY <1>2, <1>3, EngineStep
<1>6. FlagTypeOK'
  BY <1>2, <1>3, <1>5, FlagStep DEF FlagTypeOK
<1>7. DataTypeOK'
  <2>1. beat.data \in Beat
    BY <1>1 DEF Delivered
  <2>2. rd_cmd' \in Command /\ wr_cmd' \in Command
    BY <1>2, <1>3, CommandStep
  <2>3. /\ q_buf' \in [QBeats -> Beat]
        /\ k_buf' \in [Banks -> [KVBeats -> Beat]]
        /\ v_buf' \in [Banks -> [KVBeats -> Beat]]
    BY <1>2, <1>3, <2>1, BufferStep
  <2> QED
    BY <2>2, <2>3 DEF DataTypeOK
<1>8. ChannelInv'
  <2>1. ChannelInputs(rd_cmd, rvalid, run)
    BY <1>1, <1>2 DEF ChannelInputs, Delivered, DataTypeOK, Command
  <2> QED
    BY <1>1, <1>2, <2>1, ChannelStep
<1>9. WriterTypeOK'
  BY <1>1, <1>2, WriterStep DEF DataTypeOK
<1>10. AskedFor' /\ CoreReaderAgree'
  BY <1>1, <1>3, PortStep
<1> QED
  BY <1>1, <1>4, <1>5, <1>6, <1>7, <1>8, <1>9, <1>10 DEF IInv, TypeOK, PortInv, ChannelInv

\* Nor is it lost in a stuttering step.
LEMMA NextInv == IInv /\ [Next]_vars => IInv'
<1>1. IInv /\ UNCHANGED vars => IInv'
  <2> SUFFICES ASSUME IInv, UNCHANGED vars PROVE IInv'
    OBVIOUS
  <2>1. UNCHANGED <<coreVars, channelVars, writerVars, run>>
    BY DEF vars
  <2>2. ChannelInv'
    BY <2>1, ChannelStutter DEF IInv
  <2>3. TypeOK' /\ run' \in Nat
    BY <2>1, <2>2 DEF coreVars, writerVars, tileVars, fillVars, bankVars, pfVars, normVars,
                bufVars, engineVars, IInv, TypeOK, MasterTypeOK, PrefetchTypeOK,
                EngineTypeOK, FlagTypeOK, DataTypeOK, WriterTypeOK, ChannelInv
  <2>4. PortInv'
    BY <2>1 DEF coreVars, channelVars, readerVars, tileVars, fillVars, bankVars, pfVars, IInv,
                PortInv, OneReader, AskedFor, Asking, CoreReaderAgree, Awaiting, ReaderServes
  <2> QED
    BY <2>2, <2>3, <2>4 DEF IInv
<1> QED
  BY <1>1, EdgeInv

-----------------------------------------------------------------------------
\* All registers of the core and of the DMAs stay in range.
THEOREM TypeCorrect == Spec => []TypeOK
<1>1. IInv => TypeOK
  BY DEF IInv
<1> QED
  BY InitInv, NextInv, <1>1, PTL DEF Spec

\* The core and the read DMA agree on every load.
THEOREM ReaderAgreement == Spec => []CoreReaderAgree
<1>1. IInv => CoreReaderAgree
  BY DEF IInv, PortInv
<1> QED
  BY InitInv, NextInv, <1>1, PTL DEF Spec

-----------------------------------------------------------------------------
(* What the host sees of the core.                                         *)

\* Every move of the master machine is one that RunControl allows.
LEMMA RunControlStep ==
  ASSUME NEW start, NEW softReset, NEW rd, NEW beat, NEW wr, NEW ready, NEW recip,
         MasterClock(start, softReset, rd, beat, wr, ready, recip)
  PROVE  \E next \in RunStages \cup {"S_DONE"} : RC!RunControlClock(start, softReset, next)
<1>1. CASE softReset /\ SoftReset
  <2>1. RC!RunControlClock(start, softReset, "S_DONE")
    BY <1>1 DEF SoftReset, Pulses, RC!RunControlClock, RC!Abort
  <2> QED
    BY <2>1
<1>2. CASE ~softReset /\ Idle(start)
  <2>1. RC!Begin(start) \/ RC!Rest(start)
    BY <1>2 DEF Idle, Start, Pulses, RC!Begin, RC!Rest
  <2>2. RC!RunControlClock(start, softReset, "S_DONE")
    BY <1>2, <2>1 DEF RC!RunControlClock
  <2> QED
    BY <2>2
<1>3. CASE ~softReset /\ Done
  <2>1. RC!Complete
    BY <1>3 DEF Done, Pulses, RC!Complete
  <2>2. RC!RunControlClock(start, softReset, "S_DONE")
    BY <1>3, <2>1 DEF RC!RunControlClock
  <2> QED
    BY <2>2
<1>4. CASE ~softReset /\ ~Idle(start) /\ ~Done
  <2>1. /\ ms \in RunStages
        /\ ms' \in RunStages \cup {"S_DONE"}
        /\ o_busy' = o_busy
        /\ o_done' = FALSE
    <3>1. CASE LoadQ(rd, beat) \/ LoadK(rd, beat) \/ LoadV(rd, beat) \/ InitContext
      BY <3>1 DEF LoadQ, LoadK, LoadV, InitContext, Pulses, RunStages
    <3>2. CASE Compute(rd, beat)
      BY <3>2 DEF Compute, LastTileDone, NextTile, SameTile, Pulses, RunStages
    <3>3. CASE Normalize(recip)
      BY <3>3 DEF Normalize, RequestRecip, TakeRecip, ScaleRow, Pulses, RunStages
    <3>4. CASE WriteO(wr, ready) \/ NextQ
      BY <3>4 DEF WriteO, NextQ, Pulses, RunStages
    <3> QED
      BY <1>4, <3>1, <3>2, <3>3, <3>4 DEF MasterClock
  <2>2. RC!Work(ms')
    BY <2>1 DEF RC!Work
  <2>3. RC!RunControlClock(start, softReset, ms')
    BY <1>4, <2>2 DEF RC!RunControlClock
  <2> QED
    BY <2>1, <2>3
<1> QED
  BY <1>1, <1>2, <1>3, <1>4 DEF MasterClock

\* The host's inputs are Booleans.
LEMMA HostInputs == Starts \subseteq BOOLEAN /\ SoftResets \subseteq BOOLEAN
BY EnvironmentAssumption DEF Starts, SoftResets, Choice

\* The whole IP implements the core as the register file sees it.
THEOREM RunControlImplemented == Spec => ImplementsRunControl
<1>1. Init => RC!RunControlInit
  BY DEF Init, CoreInit, RC!RunControlInit
<1>2. ASSUME Next
      PROVE  \E start, softReset \in BOOLEAN, next \in RunStages \cup {"S_DONE"} :
               RC!RunControlClock(start, softReset, next)
  <2>1. PICK start \in Starts, softReset \in SoftResets : Edge(start, softReset)
    BY <1>2 DEF Next
  <2>2. start \in BOOLEAN /\ softReset \in BOOLEAN
    BY HostInputs
  <2>3. PICK rd, beat, wr, ready, recip :
          MasterClock(start, softReset, rd, beat, wr, ready, recip)
    BY <2>1 DEF Edge, Clock, CoreClock
  <2>4. PICK next \in RunStages \cup {"S_DONE"} : RC!RunControlClock(start, softReset, next)
    BY <2>3, RunControlStep
  <2> QED
    BY <2>2, <2>4
<1>3. UNCHANGED vars => UNCHANGED RC!runControlVars
  BY DEF vars, coreVars, RC!runControlVars
<1> QED
  BY <1>1, <1>2, <1>3, PTL DEF Spec, ImplementsRunControl, RC!RunControlSpec

-----------------------------------------------------------------------------
(* The way out: core, write DMA and memory agree on every write burst, for *)
(* all constants for which a Q tile fits in a burst of the write DMA, and  *)
(* with soft resets at any time.                                           *)

\* A burst starts at its first beat and never runs past its length.
BurstInv ==
  /\ w_state = "W_ADDR" => beat_cnt = 0
  /\ w_state = "W_DATA" => beat_cnt <= aw_len_r
  /\ WriteBurstAgree

\* The only writes the core asks for are whole tiles.
WriterPortInv ==
  /\ wr_cmd.valid => wr_cmd.len + 1 = BEATS_PER_TILE_Q
  /\ CoreWriterAgree

-----------------------------------------------------------------------------
\* A remainder is the number itself when that is below the modulus.
LEMMA SmallMod ==
  ASSUME NEW n \in Nat, n < AW_LEN_MOD
  PROVE  n % AW_LEN_MOD = n
BY AwLenAssumption

\* What an edge is made of on the write side.
WriteSide(start, softReset, beat, awready, wready, bvalid, recip) ==
  /\ MasterClock(start, softReset, rd_cmd_ready, beat, wr_cmd_ready, in_ready(wready), recip)
  /\ WriterClock(wr_cmd.valid, wr_cmd.addr, wr_cmd.len, wr_data_valid, awready,
                 wready, bvalid, FALSE)
  /\ WriteSlaveClock(awvalid /\ awready, aw_addr_r, aw_len_r,
                     wvalid(wr_data_valid) /\ wready, wr_data, bvalid /\ bready)

LEMMA WriteEdgeParts ==
  ASSUME Next
  PROVE  \E start, softReset, beat, awready, wready, bvalid, recip :
           WriteSide(start, softReset, beat, awready, wready, bvalid, recip)
<1>1. PICK start \in Starts, softReset \in SoftResets : Edge(start, softReset)
  BY DEF Next
<1>2. PICK arready \in ARReady, rvalid \in RValid, awready \in AWReady, wready \in WReady,
           bvalid \in BValid, recip \in Recip, advance \in Advance :
        Clock(start, softReset, arready, rvalid, awready, wready, bvalid, recip, advance)
  BY <1>1 DEF Edge
<1>3. WriteSide(start, softReset, [valid |-> rvalid, data |-> ReadBeat, last |-> out_last],
                awready, wready, bvalid, recip)
  BY <1>2 DEF Clock, CoreClock, WriteSide
<1> QED
  BY <1>3

\* The write command port holds nothing, or a whole tile.
LEMMA WriteCommandStep ==
  ASSUME NEW start, NEW softReset, NEW rd, NEW beat, NEW wr, NEW ready, NEW recip,
         MasterClock(start, softReset, rd, beat, wr, ready, recip)
  PROVE  wr_cmd'.valid => ms = "S_WRITE_O" /\ wr_cmd'.len + 1 = BEATS_PER_TILE_Q
<1>1. CASE WriteO(wr, ready)
  <2>1. wr_cmd' \in {NoCmd, Cmd(OAddr(q_tile_idx), BEATS_PER_TILE_Q)} /\ ms = "S_WRITE_O"
    BY <1>1 DEF WriteO, Pulses
  <2> QED
    BY <2>1, CoreAssumption DEF NoCmd, Cmd
<1>2. CASE ~WriteO(wr, ready)
  <2>1. wr_cmd' = NoCmd
    BY <1>2 DEF MasterClock, SoftReset, Idle, LoadQ, InitContext, LoadK, LoadV, Compute,
                Normalize, NextQ, Done, Pulses
  <2> QED
    BY <2>1 DEF NoCmd
<1> QED
  BY <1>1, <1>2

\* The write DMA and the memory at an edge, whatever the core does: the DMA moves at
\* most one step, with the memory, and takes only the command on the port.
LEMMA BurstStep ==
  ASSUME TypeOK, BurstInv, NEW inValid, NEW awready, NEW wready, NEW bvalid, NEW data,
         WriterClock(wr_cmd.valid, wr_cmd.addr, wr_cmd.len, inValid, awready,
                     wready, bvalid, FALSE),
         WriteSlaveClock(awvalid /\ awready, aw_addr_r, aw_len_r,
                         wvalid(inValid) /\ wready, data, bvalid /\ bready)
  PROVE  BurstInv'
<1>1. /\ aw_len_r \in 0 .. AW_LEN_MOD - 1 /\ beat_cnt \in 0 .. AW_LEN_MOD - 1
      /\ aw_addr_r \in Nat
      /\ w_state \in {"W_IDLE", "W_ADDR", "W_DATA", "W_RESP"}
  BY DEF TypeOK, WriterTypeOK
<1>2. /\ w_state = "W_ADDR" => beat_cnt = 0
      /\ w_state = "W_DATA" => beat_cnt <= aw_len_r
      /\ WriteBurstAgree
  BY DEF BurstInv
<1>3. CASE AcceptWriteCmd(wr_cmd.valid, wr_cmd.addr, wr_cmd.len)
  BY <1>1, <1>2, <1>3 DEF AcceptWriteCmd, wr_cmd_ready, awvalid, wvalid, bready,
     WriteSlaveClock, WriteBurstAgree, BurstInv
<1>4. CASE SendAw(awready)
  <2>1. WriteAddress(aw_addr_r, aw_len_r) /\ ~b_pending'
    BY <1>2, <1>4, Zenon DEF SendAw, awvalid, wvalid, bready, WriteSlaveClock, WriteBurstAgree
  <2> QED
    BY <1>1, <1>2, <1>4, <2>1 DEF SendAw, awvalid, WriteAddress, WriteBurstAgree, BurstInv
<1>5. CASE SendBeat(inValid, wready)
  <2>1. w_state = "W_DATA"
    BY <1>5 DEF SendBeat, wvalid
  <2>2. WriteData(data)
    BY <1>5, <2>1 DEF SendBeat, WriteSlaveClock, awvalid
  <2>3. b_pending' <=> wr_left = 1
    BY <1>2, <1>5, <2>1, Zenon DEF SendBeat, WriteSlaveClock, WriteBurstAgree, bready
  <2>4. wr_left = 1 <=> wlast
    BY <1>1, <1>2, <2>1 DEF wlast, WriteBurstAgree
  <2>5. w_state' = IF wlast THEN "W_RESP" ELSE "W_DATA"
    BY <1>5 DEF SendBeat
  <2>6. ~wlast => beat_cnt' = beat_cnt + 1 /\ beat_cnt + 1 <= aw_len_r
    BY <1>1, <1>2, <1>5, <2>1, SmallMod, AwLenAssumption DEF wlast, SendBeat
  <2> QED
    BY <1>1, <1>2, <1>5, <2>1, <2>2, <2>3, <2>4, <2>5, <2>6
       DEF SendBeat, WriteData, WriteBurstAgree, BurstInv, wlast
<1>6. CASE TakeResponse(bvalid)
  BY <1>1, <1>2, <1>6 DEF TakeResponse, awvalid, wvalid, bready, WriteSlaveClock,
     WriteBurstAgree, BurstInv
<1>7. CASE WriterHold(wr_cmd.valid, inValid, awready, wready, bvalid)
  BY <1>1, <1>2, <1>7 DEF WriterHold, awvalid, wvalid, bready, WriteSlaveClock,
     WriteBurstAgree, BurstInv
<1> QED
  BY <1>3, <1>4, <1>5, <1>6, <1>7 DEF WriterClock

\* The core at an edge.  It counts a beat when and only when the write DMA hands one
\* to the memory, from the edge at which it sees the DMA ready to the last beat.
LEMMA WriterPortStep ==
  ASSUME TypeOK, BurstInv, WriterPortInv, BEATS_PER_TILE_Q <= AW_LEN_MOD,
         NEW start, NEW softReset, NEW beat, NEW awready, NEW wready, NEW bvalid, NEW recip,
         MasterClock(start, softReset, rd_cmd_ready, beat, wr_cmd_ready,
                     in_ready(wready), recip),
         WriterClock(wr_cmd.valid, wr_cmd.addr, wr_cmd.len, wr_data_valid, awready,
                     wready, bvalid, FALSE)
  PROVE  CoreWriterAgree'
<1>1. /\ aw_len_r \in 0 .. AW_LEN_MOD - 1 /\ beat_cnt \in 0 .. AW_LEN_MOD - 1
      /\ o_write_cnt \in 0 .. BEATS_PER_TILE_Q + 1
      /\ w_state \in {"W_IDLE", "W_ADDR", "W_DATA", "W_RESP"}
      /\ BEATS_PER_TILE_Q \in Nat \ {0}
  BY CoreAssumption DEF TypeOK, WriterTypeOK, MasterTypeOK
<1>2. /\ wr_cmd.valid => wr_cmd.len + 1 = BEATS_PER_TILE_Q
      /\ w_state = "W_ADDR" => beat_cnt = 0
      /\ w_state = "W_DATA" => beat_cnt <= aw_len_r
      /\ CoreWriterAgree
  BY DEF BurstInv, WriterPortInv
<1>3. CASE ~(WriteO(wr_cmd_ready, in_ready(wready)) /\ ms' = "S_WRITE_O")
  <2>1. ms' = "S_WRITE_O" => o_write_cnt' = 0
    BY <1>3 DEF MasterClock, SoftReset, Idle, Start, LoadQ, InitContext, LoadK, LoadV, Compute,
       LastTileDone, NextTile, SameTile, Normalize, RequestRecip, TakeRecip, ScaleRow, NextQ, Done
  <2> QED
    BY <2>1 DEF CoreWriterAgree
<1>4. CASE WriteO(wr_cmd_ready, in_ready(wready)) /\ ms' = "S_WRITE_O"
  <2>1. CASE o_write_cnt = 0
    <3>1. w_state # "W_IDLE" => o_write_cnt' = 0
      BY <1>4, <2>1 DEF WriteO, wr_cmd_ready
    <3>2. ASSUME w_state = "W_IDLE" PROVE o_write_cnt' = 1 /\ wr_cmd'.valid
      BY <1>4, <2>1, <3>2 DEF WriteO, wr_cmd_ready, Pulses, Cmd
    <3>3. ASSUME w_state = "W_IDLE", wr_cmd.valid
          PROVE  w_state' = "W_ADDR" /\ aw_len_r' + 1 = BEATS_PER_TILE_Q
      <4>1. AcceptWriteCmd(wr_cmd.valid, wr_cmd.addr, wr_cmd.len)
        BY <3>3 DEF WriterClock, SendAw, awvalid, SendBeat, wvalid, TakeResponse, bready,
                    WriterHold
      <4>2. wr_cmd.len % AW_LEN_MOD = wr_cmd.len
        <5>1. wr_cmd.len \in Nat
          BY DEF TypeOK, DataTypeOK, Command
        <5>2. wr_cmd.len < AW_LEN_MOD
          BY <1>1, <1>2, <3>3, <5>1, AwLenAssumption
        <5> QED
          BY <5>1, <5>2, SmallMod
      <4> QED
        BY <1>2, <3>3, <4>1, <4>2 DEF AcceptWriteCmd
    <3>4. ASSUME w_state = "W_IDLE", ~wr_cmd.valid PROVE w_state' = "W_IDLE"
      BY <3>4 DEF WriterClock, AcceptWriteCmd, SendAw, awvalid, SendBeat, wvalid, TakeResponse,
                  bready, WriterHold
    <3> QED
      BY <3>1, <3>2, <3>3, <3>4 DEF CoreWriterAgree
  <2>2. CASE o_write_cnt > 0
    <3>0. ms = "S_WRITE_O" /\ o_write_cnt # 0
      BY <1>1, <1>4, <2>2 DEF WriteO
    <3>1. CASE w_state = "W_IDLE"
      <4>1. o_write_cnt = 1 /\ wr_cmd.valid /\ o_write_cnt' = o_write_cnt
        BY <1>2, <1>4, <2>2, <3>0, <3>1 DEF CoreWriterAgree, WriteO, in_ready
      <4>2. AcceptWriteCmd(wr_cmd.valid, wr_cmd.addr, wr_cmd.len)
        BY <3>1, <4>1 DEF WriterClock, SendAw, awvalid, SendBeat, wvalid, TakeResponse, bready,
                          WriterHold
      <4>3. wr_cmd.len % AW_LEN_MOD = wr_cmd.len
        <5>1. wr_cmd.len \in Nat
          BY DEF TypeOK, DataTypeOK, Command
        <5>2. wr_cmd.len < AW_LEN_MOD
          BY <1>1, <1>2, <4>1, <5>1, AwLenAssumption
        <5> QED
          BY <5>1, <5>2, SmallMod
      <4> QED
        BY <1>2, <4>1, <4>2, <4>3 DEF AcceptWriteCmd, CoreWriterAgree
    <3>2. CASE w_state = "W_ADDR"
      <4>1. o_write_cnt = 1 /\ aw_len_r + 1 = BEATS_PER_TILE_Q /\ o_write_cnt' = o_write_cnt
        BY <1>2, <1>4, <2>2, <3>0, <3>2 DEF CoreWriterAgree, WriteO, in_ready
      <4>2. w_state' \in {"W_ADDR", "W_DATA"} /\ UNCHANGED <<aw_len_r, beat_cnt>>
        BY <3>2 DEF WriterClock, AcceptWriteCmd, wr_cmd_ready, SendAw, SendBeat, wvalid,
                    TakeResponse, bready, WriterHold
      <4> QED
        BY <1>2, <3>2, <4>1, <4>2 DEF CoreWriterAgree
    <3>3. CASE w_state = "W_DATA"
      <4>1. beat_cnt = o_write_cnt - 1 /\ aw_len_r + 1 = BEATS_PER_TILE_Q
        BY <1>2, <2>2, <3>0, <3>3 DEF CoreWriterAgree
      <4>2. wr_data_valid
        <5>1. o_write_cnt >= 1 /\ o_write_cnt <= BEATS_PER_TILE_Q
          BY <1>1, <1>2, <2>2, <3>3, <4>1
        <5> QED
          BY <1>1, <3>0, <5>1 DEF wr_data_valid
      <4>3. CASE wready
        <5>1. SendBeat(wr_data_valid, wready)
          BY <3>3, <4>2, <4>3 DEF WriterClock, AcceptWriteCmd, wr_cmd_ready, SendAw, awvalid,
                                  TakeResponse, bready, WriterHold
        <5>2. o_write_cnt' = o_write_cnt + 1 /\ o_write_cnt # BEATS_PER_TILE_Q
          BY <1>4, <3>0, <3>3, <4>2, <4>3 DEF WriteO, in_ready
        <5>3. ~wlast /\ (beat_cnt + 1) % AW_LEN_MOD = beat_cnt + 1
          <6>1. beat_cnt + 1 <= aw_len_r
            BY <1>1, <4>1, <5>2, <1>2, <3>3
          <6>2. beat_cnt + 1 \in Nat /\ beat_cnt + 1 < AW_LEN_MOD
            BY <1>1, <6>1, AwLenAssumption
          <6> QED
            BY <1>1, <6>1, <6>2, SmallMod DEF wlast
        <5> QED
          BY <1>1, <4>1, <5>1, <5>2, <5>3 DEF SendBeat, CoreWriterAgree
      <4>4. CASE ~wready
        <5>1. w_state' = w_state /\ UNCHANGED <<aw_len_r, beat_cnt>>
          BY <3>3, <4>4 DEF WriterClock, AcceptWriteCmd, wr_cmd_ready, SendAw, awvalid,
                            SendBeat, TakeResponse, bready, WriterHold
        <5>2. o_write_cnt' = o_write_cnt
          BY <1>4, <3>0, <4>4 DEF WriteO, in_ready
        <5> QED
          BY <3>3, <4>1, <5>1, <5>2 DEF CoreWriterAgree
      <4> QED
        BY <4>3, <4>4
    <3> QED
      BY <1>1, <1>2, <2>2, <3>0, <3>1, <3>2, <3>3 DEF CoreWriterAgree
  <2> QED
    BY <1>1, <2>1, <2>2
<1> QED
  BY <1>3, <1>4

-----------------------------------------------------------------------------
LEMMA WriteInit ==
  ASSUME Init
  PROVE  BurstInv /\ WriterPortInv
BY DEF Init, CoreInit, WriterInit, WriteSlaveInit, BurstInv, WriterPortInv, CoreWriterAgree,
       WriteBurstAgree, NoCmd

LEMMA BurstNext ==
  ASSUME TypeOK, BurstInv, Next
  PROVE  BurstInv'
<1>1. PICK start, softReset, beat, awready, wready, bvalid, recip :
        WriteSide(start, softReset, beat, awready, wready, bvalid, recip)
  BY WriteEdgeParts
<1> QED
  BY <1>1, BurstStep DEF WriteSide

LEMMA WriterPortNext ==
  ASSUME TypeOK, BurstInv, WriterPortInv, BEATS_PER_TILE_Q <= AW_LEN_MOD, Next
  PROVE  WriterPortInv'
<1>1. PICK start, softReset, beat, awready, wready, bvalid, recip :
        WriteSide(start, softReset, beat, awready, wready, bvalid, recip)
  BY WriteEdgeParts
<1>2. wr_cmd'.valid => wr_cmd'.len + 1 = BEATS_PER_TILE_Q
  BY <1>1, WriteCommandStep DEF WriteSide
<1>3. CoreWriterAgree'
  BY <1>1, WriterPortStep DEF WriteSide
<1> QED
  BY <1>2, <1>3 DEF WriterPortInv

LEMMA WriteStutter ==
  ASSUME UNCHANGED vars
  PROVE  (BurstInv => BurstInv') /\ (WriterPortInv => WriterPortInv')
BY DEF BurstInv, WriterPortInv, CoreWriterAgree, WriteBurstAgree, vars, coreVars,
       channelVars, writerVars, writeSlaveVars

LEMMA BurstInvariant == Spec => []BurstInv
<1>1. TypeOK /\ BurstInv /\ [Next]_vars => BurstInv'
  BY BurstNext, WriteStutter
<1> QED
  BY <1>1, WriteInit, TypeCorrect, PTL DEF Spec

-----------------------------------------------------------------------------
\* The write DMA and the memory count the same beats of every burst, mean the same
\* addresses and end it together, also when a soft reset takes the core away from a
\* burst that is under way: for all constants, and for resets at any edge.
THEOREM WriteBurstAgreement == Spec => []WriteBurstAgree
<1>1. BurstInv => WriteBurstAgree
  BY DEF BurstInv
<1> QED
  BY <1>1, BurstInvariant, PTL

\* If a Q tile fits in one burst of the write DMA, then from the edge at which the
\* core sees the DMA ready to the tile's last beat its command is neither lost nor
\* issued twice, the burst is as long as the tile, and core and DMA count it alike;
\* resets may come at any edge.
THEOREM WriterAgreement ==
  ASSUME BEATS_PER_TILE_Q <= AW_LEN_MOD
  PROVE  Spec => []CoreWriterAgree
<1>1. TypeOK /\ BurstInv /\ WriterPortInv /\ [Next]_vars => WriterPortInv'
  BY WriterPortNext, WriteStutter
<1>2. WriterPortInv => CoreWriterAgree
  BY DEF WriterPortInv
<1>3. Init => WriterPortInv
  BY WriteInit
<1> QED
  BY <1>1, <1>2, <1>3, BurstInvariant, TypeCorrect, PTL DEF Spec

-----------------------------------------------------------------------------
(* Who works when.                                                         *)

\* The compute machine is only ever at work, started or reporting in S_COMPUTE, and
\* what it reports is the end of the one tile it was started for.
EngineInv ==
  /\ cs # "C_IDLE" \/ comp_start \/ comp_done => ms = "S_COMPUTE"
  /\ cs = "C_DONE" \/ comp_done => ~comp_start
  /\ comp_done => cs = "C_IDLE"

\* The prefetcher writes the bank the compute machine does not read.
BankInv == ms = "S_COMPUTE" /\ pf_state # "PF_IDLE" => pref_target_bank = 1 - active_bank

\* The rows' contexts are a function of the batches.
RowsOK == row_ctx = [b \in Batches |-> row_ctx[b]]

WorkInv == EngineInv /\ BankInv /\ RowsOK

-----------------------------------------------------------------------------
(* The operands.                                                           *)

\* The first n words of buf are the beats from addr on of run r.
Filled(buf, r, addr, n) == \A i \in 0 .. n - 1 : buf[i] = [run |-> r, addr |-> addr + i]

\* The next beat the read channel delivers is the one at addr, of this run.
Points(addr) ==
  /\ ar_state = "AR_IDLE" => rd_cmd.addr = addr
  /\ ar_state = "AR_SEND" => ar_addr_r = addr
  /\ ar_state = "AR_STREAM" => rd_addr = addr /\ rd_run = run

\* A load from addr into buf for which the core counts to fill: until it has seen the
\* DMA ready a command on the port is for addr; then fill - 1 beats are in place and the
\* one that comes is the one that belongs into the next slot.
Load(fill, addr, buf) ==
  IF fill = 0
  THEN rd_cmd.valid => rd_cmd.addr = addr
  ELSE Points(addr + fill - 1) /\ Filled(buf, run, addr, fill - 1)

\* What is on its way into the buffers, or in them, in each state.
QLoadInv ==
  /\ ms = "S_LOAD_Q" => Load(q_fill_cnt, QAddr(q_tile_idx), q_buf)
  /\ ms \in {"S_INIT_CONTEXT", "S_LOAD_K", "S_LOAD_V", "S_COMPUTE"} =>
       Filled(q_buf, run, QAddr(q_tile_idx), BEATS_PER_TILE_Q)

KVLoadInv ==
  /\ ms = "S_LOAD_K" => Load(kv_fill_cnt, KAddr(k_tile_idx), k_buf[active_bank])
  /\ ms = "S_LOAD_V" => Load(kv_fill_cnt, VAddr(k_tile_idx), v_buf[active_bank])
  /\ ms \in {"S_LOAD_V", "S_COMPUTE"} =>
       Filled(k_buf[active_bank], run, KAddr(k_tile_idx), BEATS_PER_TILE_KV)
  /\ ms = "S_COMPUTE" =>
       Filled(v_buf[active_bank], run, VAddr(k_tile_idx), BEATS_PER_TILE_KV)

PrefetchInv ==
  ms = "S_COMPUTE" =>
    /\ pf_state = "PF_CMD_K" => Load(0, KAddr(k_tile_idx + 1), k_buf[pref_target_bank])
    /\ pf_state = "PF_DATA_K" =>
         Load(pf_fill_cnt, KAddr(k_tile_idx + 1), k_buf[pref_target_bank])
    /\ pf_state \in {"PF_CMD_V", "PF_DATA_V", "PF_DONE"} =>
         Filled(k_buf[pref_target_bank], run, KAddr(k_tile_idx + 1), BEATS_PER_TILE_KV)
    /\ pf_state = "PF_CMD_V" => Load(0, VAddr(k_tile_idx + 1), v_buf[pref_target_bank])
    /\ pf_state = "PF_DATA_V" =>
         Load(pf_fill_cnt, VAddr(k_tile_idx + 1), v_buf[pref_target_bank])
    /\ pf_state = "PF_DONE" =>
         Filled(v_buf[pref_target_bank], run, VAddr(k_tile_idx + 1), BEATS_PER_TILE_KV)

LoadInv == QLoadInv /\ KVLoadInv /\ PrefetchInv

-----------------------------------------------------------------------------
(* The rows' contexts.                                                     *)

\* What key j of K/V tile u adds to the rows of batch b of Q tile t in run r.
Key(r, t, b, u, j) ==
  [q    |-> {[run |-> r, addr |-> QAddr(t) + i] : i \in {i \in QBeats : BatchOf(i) = b}},
   k    |-> [run |-> r, addr |-> KAddr(u) + j],
   v    |-> [run |-> r, addr |-> VAddr(u) + j],
   tile |-> <<t, u>>]

\* The keys of the first u tiles, and the first n keys of tile u.
KeysBefore(r, t, b, u) == {Key(r, t, b, w, j) : w \in 0 .. u - 1, j \in KVBeats}
KeysOf(r, t, b, u, n) == {Key(r, t, b, u, j) : j \in 0 .. n - 1}

\* The rows of batch b hold the tile in the active bank.
Computed(b) == comp_done \/ cs = "C_DONE" \/ (cs = "C_DP_RUN" /\ b < comp_batch)

\* In S_COMPUTE a row holds every key of the tiles before the current one, none of those
\* after it, and all of the current one once that has been computed.
RowHolds(b) ==
  /\ KeysBefore(run, q_tile_idx, b, k_tile_idx) \subseteq row_ctx[b].once
  /\ row_ctx[b].once \subseteq KeysBefore(run, q_tile_idx, b, k_tile_idx + 1)
  /\ Computed(b) => KeysBefore(run, q_tile_idx, b, k_tile_idx + 1) \subseteq row_ctx[b].once

\* The batch in the pipeline also holds the keys it has consumed.
EngineHolds(b) ==
  /\ KeysBefore(run, q_tile_idx, b, k_tile_idx) \subseteq eng_ctx.once
  /\ KeysOf(run, q_tile_idx, b, k_tile_idx, comp_kj) \subseteq eng_ctx.once
  /\ eng_ctx.once \subseteq KeysBefore(run, q_tile_idx, b, k_tile_idx + 1)

RowInv ==
  /\ ms \in {"S_LOAD_K", "S_LOAD_V"} => k_tile_idx = 0 /\ row_ctx = FreshRows
  /\ ms = "S_COMPUTE" => \A b \in Batches : RowHolds(b)
  /\ cs = "C_DP_RUN" /\ comp_kj > 0 => EngineHolds(comp_batch)

\* A finished row of batch b of tile t.
Complete(r, t, b, row) ==
  /\ row # NoData
  /\ row.num.once = KeysBefore(r, t, b, NUM_K_TILES)
  /\ row.den = row.num

NormInv ==
  /\ o_buf = [b \in Batches |-> o_buf[b]]
  /\ ms = "S_NORMALIZE" =>
       /\ \A b \in Batches : row_ctx[b].once = KeysBefore(run, q_tile_idx, b, NUM_K_TILES)
       /\ \A b \in Batches : b < norm_qi => Complete(run, q_tile_idx, b, o_buf[b])
       /\ norm_row_ready => norm_row_recip = row_ctx[norm_qi]
  /\ ms = "S_WRITE_O" => \A b \in Batches : Complete(run, q_tile_idx, b, o_buf[b])

-----------------------------------------------------------------------------
(* The way out.                                                            *)

\* Beat i of tile t is in memory.
Out(r, t, i) == Complete(r, t, BatchOf(i), o_mem[OAddr(t) + i])

OutInv ==
  /\ o_done => ms = "S_IDLE"
  /\ ms \in RunStages => \A t \in 0 .. q_tile_idx - 1, i \in QBeats : Out(run, t, i)
  /\ ms = "S_WRITE_O" => \A i \in 0 .. o_write_cnt - 2 : Out(run, q_tile_idx, i)
  /\ ms = "S_NEXT_Q" => \A i \in QBeats : Out(run, q_tile_idx, i)
  /\ ms = "S_DONE" \/ o_done => \A t \in 0 .. NUM_Q_TILES - 1, i \in QBeats : Out(run, t, i)

\* The write DMA's burst goes to the tile the core writes.
OutAddressInv ==
  /\ ms = "S_WRITE_O" /\ wr_cmd.valid => wr_cmd.addr = OAddr(q_tile_idx)
  /\ ms = "S_WRITE_O" /\ o_write_cnt > 0 /\ w_state \in {"W_ADDR", "W_DATA"} =>
       aw_addr_r = OAddr(q_tile_idx)

-----------------------------------------------------------------------------
(* Once.                                                                   *)

\* With prefetches in time a tile is computed once: a row holds the current tile only
\* when it has been computed, and nothing twice.
OnceInv ==
  /\ cs = "C_DONE" \/ comp_done => k_tile_idx = NUM_K_TILES - 1 \/ pf_state = "PF_DONE"
  /\ \A b \in Batches : row_ctx[b].again = {}
  /\ ms = "S_COMPUTE" => \A b \in Batches :
       ~Computed(b) => row_ctx[b].once \subseteq KeysBefore(run, q_tile_idx, b, k_tile_idx)
  /\ cs = "C_DP_RUN" /\ comp_kj > 0 =>
       /\ eng_ctx.again = {}
       /\ eng_ctx.once \subseteq KeysBefore(run, q_tile_idx, comp_batch, k_tile_idx)
                           \cup KeysOf(run, q_tile_idx, comp_batch, k_tile_idx, comp_kj)

-----------------------------------------------------------------------------
(* One edge.                                                               *)

\* What an edge is made of, when the host does not reset the core in the middle of its
\* work.
Turn(start, softReset, arready, rvalid, awready, wready, bvalid, recip, advance, beat) ==
  /\ MasterClock(start, softReset, rd_cmd_ready, beat, wr_cmd_ready, in_ready(wready), recip)
  /\ EngineClock(advance)
  /\ RowCtxNext(softReset, advance)
  /\ Delivered(beat, rvalid) /\ beat.data = ReadBeat
  /\ ReadChannelClock(rd_cmd, arready, rvalid, FALSE, rd_data_ready, run)
  /\ WriterClock(wr_cmd.valid, wr_cmd.addr, wr_cmd.len, wr_data_valid, awready,
                 wready, bvalid, FALSE)
  /\ WriteSlaveClock(awvalid /\ awready, aw_addr_r, aw_len_r,
                     wvalid(wr_data_valid) /\ wready, wr_data, bvalid /\ bready)
  /\ run' = (IF Accepts(start, softReset) THEN run + 1 ELSE run)
  /\ softReset => Quiescent
  /\ FAST_MEMORY => PrefetchKeepsUp

\* Every edge is such a turn.
LEMMA TurnParts ==
  ASSUME HOST_RESETS # "any", IInv, Next
  PROVE  \E start, softReset, arready, rvalid, awready, wready, bvalid, recip, advance, beat :
           Turn(start, softReset, arready, rvalid, awready, wready, bvalid, recip, advance, beat)
<1>1. PICK start \in Starts, softReset \in SoftResets : Edge(start, softReset)
  BY DEF Next
<1>2. PICK arready \in ARReady, rvalid \in RValid, awready \in AWReady, wready \in WReady,
           bvalid \in BValid, recip \in Recip, advance \in Advance :
        Clock(start, softReset, arready, rvalid, awready, wready, bvalid, recip, advance)
  BY <1>1 DEF Edge
<1> DEFINE beat == [valid |-> rvalid, data |-> ReadBeat, last |-> out_last]
<1>3. /\ rvalid => rd_left > 0 /\ rd_data_ready
      /\ ReadBeat \in Beat
  BY <1>2 DEF RValid, Choice, ReadBeat, Beat, IInv, ChannelInv
<1>4. Delivered(beat, rvalid) /\ beat.data = ReadBeat
  BY <1>3 DEF Delivered
<1>5. softReset => Quiescent
  BY <1>1, EnvironmentAssumption DEF SoftResets, Choice
<1>6. FAST_MEMORY => PrefetchKeepsUp
  BY <1>1 DEF Edge
<1>7. Turn(start, softReset, arready, rvalid, awready, wready, bvalid, recip, advance, beat)
  BY <1>2, <1>4, <1>5, <1>6 DEF Clock, CoreClock, Turn
<1> QED
  BY <1>7

\* While the compute machine works, or is about to, the master machine waits for it: no
\* reset, no change of tile.
LEMMA Working ==
  ASSUME EngineInv, cs # "C_IDLE" \/ comp_start,
         NEW start, NEW softReset, NEW arready, NEW rvalid, NEW awready, NEW wready,
         NEW bvalid, NEW recip, NEW advance, NEW beat,
         Turn(start, softReset, arready, rvalid, awready, wready, bvalid, recip, advance, beat)
  PROVE  /\ ms = "S_COMPUTE" /\ ~comp_done
         /\ Compute(rd_cmd_ready, beat) /\ SameTile(rd_cmd_ready, beat)
         /\ row_ctx' = IF RetiresBatch(advance)
                       THEN [row_ctx EXCEPT ![comp_batch] = eng_ctx] ELSE row_ctx
         /\ run' = run
<1>1. ms = "S_COMPUTE" /\ ~comp_done
  BY DEF EngineInv
<1>2. ~softReset
  BY DEF Turn, Quiescent
<1>3. Compute(rd_cmd_ready, beat)
  BY <1>1, <1>2 DEF Turn, MasterClock, Idle, LoadQ, InitContext, LoadK, LoadV, Normalize,
                    WriteO, NextQ, Done
<1>4. SameTile(rd_cmd_ready, beat)
  BY <1>1, <1>3 DEF Compute, LastTileDone, NextTile
<1>5. row_ctx' = IF RetiresBatch(advance)
                 THEN [row_ctx EXCEPT ![comp_batch] = eng_ctx] ELSE row_ctx
  BY <1>1 DEF Turn, RowCtxNext
<1>6. run' = run
  BY <1>1 DEF Turn, Accepts
<1> QED
  BY <1>1, <1>3, <1>4, <1>5, <1>6

\* The other moves of the rows' contexts: none, or S_INIT_CONTEXT resets them.
LEMMA RowsAtRest ==
  ASSUME cs = "C_IDLE", NEW softReset, NEW advance, RowCtxNext(softReset, advance)
  PROVE  row_ctx' = IF ~softReset /\ ms = "S_INIT_CONTEXT" THEN FreshRows ELSE row_ctx
BY DEF RowCtxNext, RetiresBatch

\* Who works when, kept at every edge.
LEMMA WorkStep ==
  ASSUME TypeOK, OneReader, WorkInv,
         NEW start, NEW softReset, NEW arready, NEW rvalid, NEW awready, NEW wready,
         NEW bvalid, NEW recip, NEW advance, NEW beat,
         Turn(start, softReset, arready, rvalid, awready, wready, bvalid, recip, advance, beat)
  PROVE  WorkInv'
<1>1. /\ EngineInv /\ BankInv /\ RowsOK
      /\ cs \in {"C_IDLE", "C_DP_RUN", "C_DONE"} /\ comp_start \in BOOLEAN
      /\ active_bank \in Banks /\ pref_target_bank \in Banks
      /\ comp_batch \in Batches
      /\ MasterClock(start, softReset, rd_cmd_ready, beat, wr_cmd_ready, in_ready(wready), recip)
      /\ EngineClock(advance) /\ RowCtxNext(softReset, advance)
  BY DEF WorkInv, TypeOK, EngineTypeOK, FlagTypeOK, PrefetchTypeOK, Turn
<1>2. CASE cs # "C_IDLE" \/ comp_start
  <2>1. /\ ms = "S_COMPUTE" /\ ~comp_done
        /\ Compute(rd_cmd_ready, beat) /\ SameTile(rd_cmd_ready, beat)
        /\ row_ctx' = IF RetiresBatch(advance)
                      THEN [row_ctx EXCEPT ![comp_batch] = eng_ctx] ELSE row_ctx
    BY <1>1, <1>2, Working
  <2>2. ms' = "S_COMPUTE"
    BY <2>1 DEF SameTile
  <2>3. comp_start' => cs = "C_IDLE"
    BY <2>1 DEF Compute, Pulses
  <2>4. EngineInv'
    BY <1>1, <2>2, <2>3 DEF EngineInv, EngineClock, Launch, ConsumeKey, RetireBatch,
                            RetiresBatch, InFlight, Finish
  <2>5. BankInv'
    <3>1. /\ active_bank' = active_bank
          /\ pref_target_bank' = IF pf_state = "PF_IDLE" /\ k_tile_idx < NUM_K_TILES - 1
                                 THEN 1 - active_bank ELSE pref_target_bank
          /\ pf_state = "PF_IDLE" /\ ~(k_tile_idx < NUM_K_TILES - 1) => pf_state' = "PF_IDLE"
      BY <2>1 DEF SameTile, PrefetchNext
    <3> QED
      BY <1>1, <2>1, <3>1 DEF BankInv
  <2>6. RowsOK'
    BY <1>1, <2>1 DEF RowsOK
  <2> QED
    BY <2>4, <2>5, <2>6 DEF WorkInv
<1>3. CASE cs = "C_IDLE" /\ ~comp_start
  <2>1. cs' = "C_IDLE" /\ ~comp_done'
    BY <1>1, <1>3 DEF EngineClock, Launch, ConsumeKey, RetireBatch, RetiresBatch, InFlight, Finish
  <2>2. comp_start' => ms' = "S_COMPUTE"
    BY <1>1 DEF MasterClock, SoftReset, Idle, LoadQ, InitContext, LoadK, LoadV, Compute,
                LastTileDone, NextTile, SameTile, Normalize, WriteO, NextQ, Done, Pulses
  <2>3. EngineInv'
    BY <2>1, <2>2 DEF EngineInv
  <2>4. BankInv'
    <3>1. CASE Compute(rd_cmd_ready, beat)
      <4>1. CASE LastTileDone
        BY <4>1 DEF LastTileDone, BankInv
      <4>2. CASE NextTile
        BY <1>1, <3>1, <4>2 DEF Compute, NextTile, BankInv, Banks
      <4>3. CASE SameTile(rd_cmd_ready, beat)
        <5>1. /\ active_bank' = active_bank
              /\ pref_target_bank' = IF pf_state = "PF_IDLE" /\ k_tile_idx < NUM_K_TILES - 1
                                     THEN 1 - active_bank ELSE pref_target_bank
              /\ pf_state = "PF_IDLE" /\ ~(k_tile_idx < NUM_K_TILES - 1) => pf_state' = "PF_IDLE"
          BY <4>3 DEF SameTile, PrefetchNext
        <5> QED
          BY <1>1, <3>1, <5>1 DEF BankInv, Compute
      <4> QED
        BY <3>1, <4>1, <4>2, <4>3 DEF Compute
    <3>2. CASE LoadV(rd_cmd_ready, beat)
      BY <3>2 DEF LoadV, BankInv, pfVars, OneReader
    <3>3. CASE ~Compute(rd_cmd_ready, beat) /\ ~LoadV(rd_cmd_ready, beat)
      <4>1. ms' # "S_COMPUTE"
        BY <1>1, <3>3 DEF MasterClock, SoftReset, Idle, Start, LoadQ, InitContext, LoadK,
                          Normalize, RequestRecip, TakeRecip, ScaleRow, WriteO, NextQ, Done
      <4> QED
        BY <4>1 DEF BankInv
    <3> QED
      BY <3>1, <3>2, <3>3
  <2>5. RowsOK'
    BY <1>1, <1>3, RowsAtRest DEF RowsOK, FreshRows
  <2> QED
    BY <2>3, <2>4, <2>5 DEF WorkInv
<1> QED
  BY <1>1, <1>2, <1>3

\* What the compute machine reads does not move under it.
LEMMA StableStep ==
  ASSUME IInv, WorkInv, cs = "C_DP_RUN",
         NEW start, NEW softReset, NEW arready, NEW rvalid, NEW awready, NEW wready,
         NEW bvalid, NEW recip, NEW advance, NEW beat,
         Turn(start, softReset, arready, rvalid, awready, wready, bvalid, recip, advance, beat)
  PROVE  /\ UNCHANGED <<q_buf, tileVars, active_bank>>
         /\ k_buf'[active_bank] = k_buf[active_bank]
         /\ v_buf'[active_bank] = v_buf[active_bank]
         /\ \A b \in Batches \ {comp_batch} : row_ctx'[b] = row_ctx[b]
<1>1. /\ ms = "S_COMPUTE"
      /\ Compute(rd_cmd_ready, beat) /\ SameTile(rd_cmd_ready, beat)
      /\ row_ctx' = IF RetiresBatch(advance)
                    THEN [row_ctx EXCEPT ![comp_batch] = eng_ctx] ELSE row_ctx
  BY Working DEF WorkInv
<1>2. UNCHANGED <<q_buf, tileVars, active_bank>> /\ PrefetchStore(beat)
  BY <1>1 DEF Compute, SameTile, tileVars
<1>3. /\ active_bank \in Banks /\ pref_target_bank \in Banks
      /\ k_buf \in [Banks -> [KVBeats -> Beat]] /\ v_buf \in [Banks -> [KVBeats -> Beat]]
  BY DEF IInv, TypeOK, PrefetchTypeOK, DataTypeOK
<1>4. pf_state # "PF_IDLE" => pref_target_bank # active_bank
  BY <1>1, <1>3 DEF WorkInv, BankInv, Banks
<1>5. k_buf'[active_bank] = k_buf[active_bank] /\ v_buf'[active_bank] = v_buf[active_bank]
  BY <1>2, <1>3, <1>4 DEF PrefetchStore
<1>6. \A b \in Batches \ {comp_batch} : row_ctx'[b] = row_ctx[b]
  BY <1>1 DEF WorkInv, RowsOK
<1> QED
  BY <1>2, <1>5, <1>6

-----------------------------------------------------------------------------
(* Loads.                                                                  *)

\* The DMA takes the command on the port now or at the next edge: it starts where the
\* core means it to.
LEMMA HandoverAt ==
  ASSUME rd_cmd_ready, NEW addr, rd_cmd.valid => rd_cmd.addr = addr, rd_cmd'.addr = addr,
         NEW arready, NEW rvalid,
         ReadChannelClock(rd_cmd, arready, rvalid, FALSE, rd_data_ready, run)
  PROVE  Points(addr)'
<1>1. ar_state = "AR_IDLE"
  BY DEF rd_cmd_ready
<1>2. CASE AcceptCmd(rd_cmd.valid, rd_cmd.addr, rd_cmd.len)
  BY <1>2 DEF AcceptCmd, Points
<1>3. CASE ReaderHold(rd_cmd.valid, arready, rvalid, rd_data_ready)
  BY <1>1, <1>3 DEF ReaderHold, Points
<1> QED
  BY <1>1, <1>2, <1>3 DEF ReadChannelClock, ReaderClock, SendAr, arvalid, StreamBeat

\* An edge in the middle of a load: the beat that comes is the next one of this run,
\* and then it is the turn of the one after it.
Advanced(need, fill, addr, rvalid) ==
  IF rvalid
  THEN /\ ReadBeat = [run |-> run, addr |-> addr]
       /\ fill # need => Points(addr + 1)'
  ELSE Points(addr)'

\* At every edge of a load, the beat taken is the one at the address the load has reached.
LEMMA TransferAt ==
  ASSUME IInv, rd_data_ready, run' = run,
         NEW arready, NEW rvalid, rvalid => rd_left > 0,
         ReadChannelClock(rd_cmd, arready, rvalid, FALSE, rd_data_ready, run),
         NEW need \in Nat \ {0}, NEW fill \in Nat \ {0}, NEW addr \in Nat,
         ReaderServes(need, fill), Points(addr)
  PROVE  Advanced(need, fill, addr, rvalid)
<1>0. ChannelInv /\ run \in Nat
  BY DEF IInv
<1>1. rvalid => ar_state = "AR_STREAM"
  BY <1>0, DataOnlyWhileStreaming
<1>2. CASE rvalid
  <2>1. ar_state = "AR_STREAM" /\ rd_addr = addr /\ rd_run = run
    BY <1>1, <1>2 DEF Points
  <2>2. total_beats_left_r = need - fill + 1
    BY <2>1 DEF ReaderServes
  <2>3. StreamBeat(rvalid, rd_data_ready)
    BY <1>2, <2>1 DEF ReadChannelClock, ReaderClock, AcceptCmd, rd_cmd_ready, SendAr,
                      arvalid, ReaderHold
  <2>4. ChannelInputs(rd_cmd, rvalid, run)
    BY <1>0 DEF ChannelInputs, IInv, TypeOK, DataTypeOK, Command
  <2>5. /\ rd_addr' = rd_addr + 1
        /\ total_beats_left_r = 1 <=> ar_state' = "AR_IDLE"
        /\ ar_state' = "AR_SEND" => ar_addr_r' = rd_addr + 1
    BY <1>0, <2>3, <2>4, BeatStep
  <2>6. rd_run' = rd_run
    BY <1>2, <2>1 DEF ReadChannelClock, ReadSlaveClock, ReadData, arvalid, readSlaveVars
  <2>7. fill # need => Points(addr + 1)'
    BY <2>1, <2>2, <2>5, <2>6 DEF Points
  <2> QED
    BY <1>2, <2>1, <2>7 DEF Advanced, ReadBeat
<1>3. CASE ~rvalid
  <2>1. CASE AcceptCmd(rd_cmd.valid, rd_cmd.addr, rd_cmd.len)
    BY <1>3, <2>1 DEF AcceptCmd, rd_cmd_ready, Points, Advanced
  <2>2. CASE SendAr(arready)
    <3>1. rd_addr' = ar_addr_r /\ rd_run' = run
      BY <2>2 DEF ReadChannelClock, SendAr, ReadSlaveClock, ReadAddress
    <3> QED
      BY <1>3, <2>2, <3>1 DEF SendAr, arvalid, Points, Advanced
  <2>3. CASE ReaderHold(rd_cmd.valid, arready, rvalid, rd_data_ready)
    <3>1. UNCHANGED <<ar_state, ar_addr_r>> /\ ar_state # "AR_IDLE"
      BY <2>3 DEF ReaderHold, ReaderServes
    <3>2. UNCHANGED readSlaveVars
      BY <1>3, <2>3 DEF ReadChannelClock, ReadSlaveClock, ReaderHold, arvalid
    <3> QED
      BY <1>3, <3>1, <3>2 DEF Points, Advanced, readSlaveVars
  <2> QED
    BY <1>3, <2>1, <2>2, <2>3 DEF ReadChannelClock, ReaderClock, StreamBeat
<1> QED
  BY <1>2, <1>3

\* What a load does at an edge: offer the command until the DMA is ready, then store
\* what is delivered.
Loading(need, fill, nextFill, addr, buf, nextBuf, beat) ==
  IF fill = 0
  THEN /\ rd_cmd'.addr = addr
       /\ nextFill = (IF rd_cmd_ready THEN 1 ELSE 0)
  ELSE /\ ~rd_cmd'.valid
       /\ rd_data_ready
       /\ IF fill <= need /\ beat.valid
          THEN /\ nextBuf = [buf EXCEPT ![fill - 1] = beat.data]
               /\ beat.last \/ fill = need \/ nextFill = fill + 1
          ELSE nextBuf = buf /\ nextFill = fill

\* The beat that fills the buffer.
Fills(need, fill, beat) ==
  fill # 0 /\ fill <= need /\ beat.valid /\ (beat.last \/ fill = need)

\* The parts of an edge a load depends on.
ReadSide(arready, rvalid, beat) ==
  /\ Delivered(beat, rvalid) /\ beat.data = ReadBeat
  /\ ReadChannelClock(rd_cmd, arready, rvalid, FALSE, rd_data_ready, run)
  /\ run' = run

\* The reader's part of a turn of a run.
LEMMA TurnReads ==
  ASSUME ms # "S_IDLE",
         NEW start, NEW softReset, NEW arready, NEW rvalid, NEW awready, NEW wready,
         NEW bvalid, NEW recip, NEW advance, NEW beat,
         Turn(start, softReset, arready, rvalid, awready, wready, bvalid, recip, advance, beat)
  PROVE  ReadSide(arready, rvalid, beat)
BY DEF Turn, Accepts, ReadSide

\* A load stays on its way: the beats go to their slots, and the tile is complete with
\* the beat that ends the load.
LEMMA LoadEdge ==
  ASSUME IInv, NEW arready, NEW rvalid, NEW beat, ReadSide(arready, rvalid, beat),
         NEW need \in Nat \ {0}, NEW fill \in Nat, NEW nextFill, NEW addr \in Nat,
         NEW buf \in [0 .. need - 1 -> Beat], NEW nextBuf,
         fill # 0 => ReaderServes(need, fill),
         Load(fill, addr, buf), Loading(need, fill, nextFill, addr, buf, nextBuf, beat)
  PROVE  IF Fills(need, fill, beat)
         THEN Filled(nextBuf, run', addr, need)
         ELSE Load(nextFill, addr, nextBuf)'
<1>0. /\ Delivered(beat, rvalid) /\ beat.data = ReadBeat /\ run' = run
      /\ ReadChannelClock(rd_cmd, arready, rvalid, FALSE, rd_data_ready, run)
      /\ ChannelInv /\ (beat.valid <=> rvalid) /\ (rvalid => rd_left > 0)
  BY DEF ReadSide, IInv, Delivered
<1>1. CASE fill = 0
  <2>1. /\ rd_cmd.valid => rd_cmd.addr = addr
        /\ rd_cmd'.addr = addr
        /\ nextFill = (IF rd_cmd_ready THEN 1 ELSE 0)
    BY <1>1 DEF Load, Loading
  <2>2. CASE rd_cmd_ready
    <3>1. Points(addr)'
      BY <1>0, <2>1, <2>2, HandoverAt
    <3>2. addr + nextFill - 1 = addr /\ nextFill = 1
      BY <2>1, <2>2
    <3>3. Load(nextFill, addr, nextBuf)'
      BY <3>1, <3>2 DEF Load, Filled, Points
    <3> QED
      BY <1>1, <3>3 DEF Fills
  <2>3. CASE ~rd_cmd_ready
    BY <1>1, <2>1, <2>3 DEF Load, Fills
  <2> QED
    BY <2>2, <2>3
<1>2. CASE fill # 0
  <2>1. /\ Points(addr + fill - 1) /\ Filled(buf, run, addr, fill - 1)
        /\ ReaderServes(need, fill)
        /\ ~rd_cmd'.valid
        /\ rd_data_ready
        /\ IF fill <= need /\ beat.valid
           THEN /\ nextBuf = [buf EXCEPT ![fill - 1] = beat.data]
                /\ beat.last \/ fill = need \/ nextFill = fill + 1
           ELSE nextBuf = buf /\ nextFill = fill
    BY <1>2 DEF Load, Loading
  <2>2. Counted(need, fill, rvalid)
    BY <1>0, <1>2, <2>1, Transfer
  <2>3. fill <= need /\ (rvalid => (beat.last <=> fill = need))
    BY <1>0, <2>2 DEF Counted, Delivered
  <2>4. PICK at \in Nat : at = addr + fill - 1
    BY <1>2
  <2>5. Advanced(need, fill, at, rvalid)
    <3>1. Points(at)
      BY <2>1, <2>4
    <3> QED
      BY <1>0, <1>2, <2>1, <3>1, TransferAt
  <2>6. CASE ~rvalid
    <3>1. nextBuf = buf /\ nextFill = fill
      BY <1>0, <2>1, <2>6
    <3>2. Points(at)'
      BY <2>5, <2>6 DEF Advanced
    <3>3. Load(nextFill, addr, nextBuf)'
      BY <1>0, <1>2, <2>1, <2>4, <3>1, <3>2 DEF Load, Points, Filled
    <3> QED
      BY <1>0, <2>6, <3>3 DEF Fills
  <2>7. CASE rvalid
    <3>1. beat.data = [run |-> run, addr |-> addr + (fill - 1)]
      BY <1>0, <1>2, <2>4, <2>5, <2>7 DEF Advanced
    <3>2. nextBuf = [buf EXCEPT ![fill - 1] = beat.data]
      BY <1>0, <2>1, <2>3, <2>7
    <3>3. Filled(nextBuf, run, addr, fill)
      <4> SUFFICES ASSUME NEW i \in 0 .. fill - 1
                   PROVE  nextBuf[i] = [run |-> run, addr |-> addr + i]
        BY DEF Filled
      <4>1. i \in 0 .. need - 1
        BY <2>3
      <4>2. CASE i = fill - 1
        BY <3>1, <3>2, <4>1, <4>2
      <4>3. CASE i # fill - 1
        <5>1. i \in 0 .. (fill - 1) - 1
          BY <1>2, <4>3
        <5> QED
          BY <2>1, <3>2, <4>1, <4>3, <5>1 DEF Filled
      <4> QED
        BY <4>2, <4>3
    <3>4. CASE fill = need
      BY <1>0, <1>2, <2>3, <2>7, <3>3, <3>4 DEF Fills
    <3>5. CASE fill # need
      <4>1. nextFill = fill + 1 /\ ~Fills(need, fill, beat)
        BY <1>0, <2>1, <2>3, <2>7, <3>5 DEF Fills
      <4>2. Points(at + 1)'
        BY <2>5, <2>7, <3>5 DEF Advanced
      <4>3. addr + nextFill - 1 = at + 1 /\ nextFill - 1 = fill /\ nextFill # 0
        BY <1>2, <2>4, <4>1
      <4>4. Load(nextFill, addr, nextBuf)'
        BY <1>0, <3>3, <4>2, <4>3 DEF Load, Points, Filled
      <4> QED
        BY <4>1, <4>4
    <3> QED
      BY <3>4, <3>5
  <2> QED
    BY <2>6, <2>7
<1> QED
  BY <1>1, <1>2
\* S_LOAD_Q.
LEMMA LoadQFills ==
  ASSUME IInv, QLoadInv, NEW arready, NEW rvalid, NEW beat, ReadSide(arready, rvalid, beat),
         LoadQ(rd_cmd_ready, beat)
  PROVE  LoadInv'
<1>1. /\ ms = "S_LOAD_Q" /\ rd_data_ready
      /\ q_fill_cnt \in Nat /\ BEATS_PER_TILE_Q \in Nat \ {0}
      /\ q_buf \in [0 .. BEATS_PER_TILE_Q - 1 -> Beat]
  BY CoreAssumption DEF LoadQ, rd_data_ready, IInv, TypeOK, MasterTypeOK, DataTypeOK, QBeats
<1>2. QAddr(q_tile_idx) \in Nat /\ QAddr(q_tile_idx)' = QAddr(q_tile_idx)
  BY TileAddresses DEF IInv, TypeOK, MasterTypeOK, LoadQ, tileVars, QAddr
<1>3. PICK addr, fill, buf :
        addr \in Nat /\ addr = QAddr(q_tile_idx) /\ fill = q_fill_cnt' /\ buf = q_buf'
  BY <1>2
<1>4. q_fill_cnt # 0 => ReaderServes(BEATS_PER_TILE_Q, q_fill_cnt)
  BY <1>1 DEF IInv, PortInv, CoreReaderAgree, Awaiting
<1>5. Load(q_fill_cnt, addr, q_buf)
  BY <1>1, <1>3 DEF QLoadInv
<1>6. Loading(BEATS_PER_TILE_Q, q_fill_cnt, fill, addr, q_buf, buf, beat)
  BY <1>1, <1>3, CommandTypes DEF LoadQ, Pulses, Cmd, Loading
<1>7. IF Fills(BEATS_PER_TILE_Q, q_fill_cnt, beat)
      THEN Filled(buf, run', addr, BEATS_PER_TILE_Q)
      ELSE Load(fill, addr, buf)'
  BY <1>1, <1>3, <1>4, <1>5, <1>6, LoadEdge
<1>8. ms' = IF Fills(BEATS_PER_TILE_Q, q_fill_cnt, beat) THEN "S_INIT_CONTEXT" ELSE "S_LOAD_Q"
  BY <1>1 DEF LoadQ, Fills
<1>9. QLoadInv'
  BY <1>2, <1>3, <1>7, <1>8 DEF QLoadInv, Load, Points, Filled
<1> QED
  BY <1>8, <1>9 DEF LoadInv, KVLoadInv, PrefetchInv

\* S_LOAD_K.
LEMMA LoadKFills ==
  ASSUME IInv, QLoadInv, KVLoadInv, NEW arready, NEW rvalid, NEW beat,
         ReadSide(arready, rvalid, beat), LoadK(rd_cmd_ready, beat)
  PROVE  LoadInv'
<1>1. /\ ms = "S_LOAD_K" /\ rd_data_ready
      /\ kv_fill_cnt \in Nat /\ BEATS_PER_TILE_KV \in Nat \ {0}
      /\ k_buf \in [Banks -> [0 .. BEATS_PER_TILE_KV - 1 -> Beat]] /\ active_bank \in Banks
  BY CoreAssumption
     DEF LoadK, rd_data_ready, IInv, TypeOK, MasterTypeOK, PrefetchTypeOK, DataTypeOK, KVBeats
<1>2. KAddr(k_tile_idx) \in Nat /\ UNCHANGED <<tileVars, active_bank, q_buf, run>>
  BY TileAddresses DEF IInv, TypeOK, MasterTypeOK, LoadK, bankVars, ReadSide
<1>3. PICK addr, fill, buf :
        addr \in Nat /\ addr = KAddr(k_tile_idx) /\ fill = kv_fill_cnt' /\ buf = k_buf'[active_bank]
  BY <1>2
<1>4. kv_fill_cnt # 0 => ReaderServes(BEATS_PER_TILE_KV, kv_fill_cnt)
  BY <1>1 DEF IInv, PortInv, CoreReaderAgree, Awaiting
<1>5. Load(kv_fill_cnt, addr, k_buf[active_bank])
  BY <1>1, <1>3 DEF KVLoadInv
<1>6. Loading(BEATS_PER_TILE_KV, kv_fill_cnt, fill, addr, k_buf[active_bank], buf, beat)
  <2>1. CASE kv_fill_cnt = 0
    BY <1>3, <2>1 DEF LoadK, Pulses, Cmd, Loading
  <2>2. CASE kv_fill_cnt # 0
    <3>1. ~rd_cmd'.valid
      BY <2>2, CommandTypes DEF LoadK, Pulses
    <3>2. CASE kv_fill_cnt <= BEATS_PER_TILE_KV /\ beat.valid
      <4>1. /\ k_buf' = [k_buf EXCEPT ![active_bank][kv_fill_cnt - 1] = beat.data]
            /\ beat.last \/ kv_fill_cnt = BEATS_PER_TILE_KV \/ fill = kv_fill_cnt + 1
        BY <1>3, <2>2, <3>2 DEF LoadK
      <4>2. buf = [k_buf[active_bank] EXCEPT ![kv_fill_cnt - 1] = beat.data]
        BY <1>1, <1>3, <4>1
      <4> QED
        BY <1>1, <2>2, <3>1, <3>2, <4>1, <4>2 DEF Loading
    <3>3. CASE ~(kv_fill_cnt <= BEATS_PER_TILE_KV /\ beat.valid)
      BY <1>1, <1>3, <2>2, <3>1, <3>3 DEF LoadK, Loading
    <3> QED
      BY <3>2, <3>3
  <2> QED
    BY <2>1, <2>2
<1>7. IF Fills(BEATS_PER_TILE_KV, kv_fill_cnt, beat)
      THEN Filled(buf, run', addr, BEATS_PER_TILE_KV)
      ELSE Load(fill, addr, buf)'
  BY <1>1, <1>3, <1>4, <1>5, <1>6, LoadEdge
<1>8. /\ ms' = IF Fills(BEATS_PER_TILE_KV, kv_fill_cnt, beat) THEN "S_LOAD_V" ELSE "S_LOAD_K"
      /\ Fills(BEATS_PER_TILE_KV, kv_fill_cnt, beat) => kv_fill_cnt' = 0 /\ rd_cmd' = NoCmd
  BY <1>1 DEF LoadK, Fills, Pulses
<1>9. KVLoadInv'
  <2>1. KAddr(k_tile_idx)' = addr
    BY <1>2, <1>3 DEF tileVars, KAddr
  <2>2. k_buf'[active_bank'] = buf
    BY <1>2, <1>3
  <2>3. CASE Fills(BEATS_PER_TILE_KV, kv_fill_cnt, beat)
    BY <1>7, <1>8, <2>1, <2>2, <2>3, CommandTypes DEF KVLoadInv, Load, Filled
  <2>4. CASE ~Fills(BEATS_PER_TILE_KV, kv_fill_cnt, beat)
    BY <1>3, <1>7, <1>8, <2>1, <2>2, <2>4 DEF KVLoadInv, Load, Points, Filled
  <2> QED
    BY <2>3, <2>4
<1>10. QLoadInv'
  BY <1>1, <1>2, <1>8 DEF QLoadInv, Filled, tileVars, QAddr
<1> QED
  BY <1>8, <1>9, <1>10 DEF LoadInv, PrefetchInv

\* S_LOAD_V.
LEMMA LoadVFills ==
  ASSUME IInv, QLoadInv, KVLoadInv, NEW arready, NEW rvalid, NEW beat,
         ReadSide(arready, rvalid, beat), LoadV(rd_cmd_ready, beat)
  PROVE  LoadInv'
<1>1. /\ ms = "S_LOAD_V" /\ rd_data_ready /\ pf_state = "PF_IDLE"
      /\ kv_fill_cnt \in Nat /\ BEATS_PER_TILE_KV \in Nat \ {0}
      /\ v_buf \in [Banks -> [0 .. BEATS_PER_TILE_KV - 1 -> Beat]] /\ active_bank \in Banks
  BY CoreAssumption
     DEF LoadV, rd_data_ready, IInv, TypeOK, MasterTypeOK, PrefetchTypeOK, DataTypeOK, KVBeats,
         PortInv, OneReader
<1>2. /\ VAddr(k_tile_idx) \in Nat
      /\ UNCHANGED <<tileVars, active_bank, pf_state, q_buf, k_buf, run>>
  BY TileAddresses DEF IInv, TypeOK, MasterTypeOK, LoadV, bankVars, pfVars, ReadSide
<1>3. PICK addr, fill, buf :
        addr \in Nat /\ addr = VAddr(k_tile_idx) /\ fill = kv_fill_cnt' /\ buf = v_buf'[active_bank]
  BY <1>2
<1>4. kv_fill_cnt # 0 => ReaderServes(BEATS_PER_TILE_KV, kv_fill_cnt)
  BY <1>1 DEF IInv, PortInv, CoreReaderAgree, Awaiting
<1>5. Load(kv_fill_cnt, addr, v_buf[active_bank])
  BY <1>1, <1>3 DEF KVLoadInv
<1>6. Loading(BEATS_PER_TILE_KV, kv_fill_cnt, fill, addr, v_buf[active_bank], buf, beat)
  BY <1>1, <1>3, CommandTypes DEF LoadV, Pulses, Cmd, Loading
<1>7. IF Fills(BEATS_PER_TILE_KV, kv_fill_cnt, beat)
      THEN Filled(buf, run', addr, BEATS_PER_TILE_KV)
      ELSE Load(fill, addr, buf)'
  BY <1>1, <1>3, <1>4, <1>5, <1>6, LoadEdge
<1>8. ms' = IF Fills(BEATS_PER_TILE_KV, kv_fill_cnt, beat) THEN "S_COMPUTE" ELSE "S_LOAD_V"
  BY <1>1 DEF LoadV, Fills
<1>9. KVLoadInv'
  <2>1. VAddr(k_tile_idx)' = addr /\ KAddr(k_tile_idx)' = KAddr(k_tile_idx)
    BY <1>2, <1>3 DEF tileVars, KAddr, VAddr
  <2>2. v_buf'[active_bank'] = buf
    BY <1>2, <1>3
  <2>3. Filled(k_buf[active_bank], run, KAddr(k_tile_idx), BEATS_PER_TILE_KV)'
    BY <1>1, <1>2, <2>1 DEF KVLoadInv, Filled
  <2>4. CASE Fills(BEATS_PER_TILE_KV, kv_fill_cnt, beat)
    BY <1>7, <1>8, <2>1, <2>2, <2>3, <2>4 DEF KVLoadInv, Filled
  <2>5. CASE ~Fills(BEATS_PER_TILE_KV, kv_fill_cnt, beat)
    BY <1>3, <1>7, <1>8, <2>1, <2>2, <2>3, <2>5 DEF KVLoadInv, Load, Points, Filled
  <2> QED
    BY <2>4, <2>5
<1>10. QLoadInv'
  BY <1>1, <1>2, <1>8 DEF QLoadInv, Filled, tileVars, QAddr
<1> QED
  BY <1>1, <1>2, <1>9, <1>10 DEF LoadInv, PrefetchInv
\* The prefetcher in one of its four working states: it asks for the tile at addr, or
\* takes it into buf, a bank of K or V, which becomes nextBuf.
Prefetching(asking, taking, addr, buf, nextBuf, beat) ==
  /\ pf_state \in {asking, taking}
  /\ pf_state = asking => Load(0, addr, buf)
  /\ pf_state = taking => Load(pf_fill_cnt, addr, buf)
  /\ rd_cmd' = IF pf_state = asking THEN Cmd(addr, BEATS_PER_TILE_KV) ELSE NoCmd
  /\ nextBuf = IF pf_state = taking /\ beat.valid
               THEN [buf EXCEPT ![pf_fill_cnt - 1] = beat.data] ELSE buf

\* What comes of it: it still asks, it takes, or it goes on with the tile complete.
Prefetched(asking, taking, next, addr, nextBuf) ==
  \/ pf_state' = asking /\ Load(0, addr, nextBuf)'
  \/ \E fill : pf_state' = taking /\ fill = pf_fill_cnt' /\ Load(fill, addr, nextBuf)'
  \/ pf_state' = next /\ rd_cmd' = NoCmd /\ Filled(nextBuf, run', addr, BEATS_PER_TILE_KV)

\* One tile of the prefetcher, K or V, on its way to the other bank.
LEMMA PrefetchFills ==
  ASSUME IInv, ms = "S_COMPUTE",
         NEW arready, NEW rvalid, NEW beat, ReadSide(arready, rvalid, beat),
         SameTile(rd_cmd_ready, beat),
         NEW addr \in Nat, NEW buf \in [0 .. BEATS_PER_TILE_KV - 1 -> Beat], NEW nextBuf,
         NEW asking, NEW taking, NEW next,
         <<asking, taking, next>> \in {<<"PF_CMD_K", "PF_DATA_K", "PF_CMD_V">>,
                                       <<"PF_CMD_V", "PF_DATA_V", "PF_DONE">>},
         Prefetching(asking, taking, addr, buf, nextBuf, beat)
  PROVE  Prefetched(asking, taking, next, addr, nextBuf)
<1>0. /\ \/ asking = "PF_CMD_K" /\ taking = "PF_DATA_K" /\ next = "PF_CMD_V"
         \/ asking = "PF_CMD_V" /\ taking = "PF_DATA_V" /\ next = "PF_DONE"
      /\ pf_state \in {asking, taking}
      /\ pf_state = asking => Load(0, addr, buf)
      /\ pf_state = taking => Load(pf_fill_cnt, addr, buf)
      /\ rd_cmd' = IF pf_state = asking THEN Cmd(addr, BEATS_PER_TILE_KV) ELSE NoCmd
      /\ nextBuf = IF pf_state = taking /\ beat.valid
                   THEN [buf EXCEPT ![pf_fill_cnt - 1] = beat.data] ELSE buf
  <2>1. \/ asking = "PF_CMD_K" /\ taking = "PF_DATA_K" /\ next = "PF_CMD_V"
        \/ asking = "PF_CMD_V" /\ taking = "PF_DATA_V" /\ next = "PF_DONE"
    OBVIOUS
  <2> QED
    BY <2>1, Zenon DEF Prefetching
<1>1. /\ BEATS_PER_TILE_KV \in Nat \ {0}
      /\ pf_fill_cnt \in Nat
      /\ pf_state' = PrefetchNext(rd_cmd_ready, beat)[1]
      /\ pf_fill_cnt' = PrefetchNext(rd_cmd_ready, beat)[2]
  BY CoreAssumption DEF IInv, TypeOK, PrefetchTypeOK, SameTile
<1>2. CASE pf_state = asking
  <2>1. PICK fill : fill = IF rd_cmd_ready THEN 1 ELSE 0
    OBVIOUS
  <2>2. nextBuf = buf /\ rd_cmd'.addr = addr
    BY <1>0, <1>2 DEF Cmd
  <2>3. Loading(BEATS_PER_TILE_KV, 0, fill, addr, buf, nextBuf, beat)
    BY <1>0, <2>1, <2>2 DEF Loading
  <2>4. Load(0, addr, buf)
    BY <1>0, <1>2
  <2>5. Load(fill, addr, nextBuf)'
    BY <1>0, <1>1, <2>3, <2>4, LoadEdge DEF Fills
  <2>6. CASE rd_cmd_ready
    <3>1. pf_state' = taking /\ pf_fill_cnt' = 1
      BY <1>0, <1>1, <1>2, <2>6 DEF PrefetchNext
    <3> QED
      BY <2>1, <2>5, <2>6, <3>1 DEF Prefetched
  <2>7. CASE ~rd_cmd_ready
    <3>1. pf_state' = asking
      BY <1>0, <1>1, <1>2, <2>7 DEF PrefetchNext
    <3>2. fill = 0
      BY <1>0, <2>1, <2>7
    <3> QED
      BY <2>5, <3>1, <3>2 DEF Prefetched
  <2> QED
    BY <1>0, <2>6, <2>7
<1>3. CASE pf_state = taking
  <2>1. /\ pf_fill_cnt \in 1 .. BEATS_PER_TILE_KV
        /\ rd_data_ready
        /\ pf_state \in {"PF_DATA_K", "PF_DATA_V"}
    BY <1>0, <1>3 DEF IInv, PortInv, OneReader, rd_data_ready
  <2>2. ReaderServes(BEATS_PER_TILE_KV, pf_fill_cnt)
    BY <1>0, <2>1 DEF IInv, PortInv, CoreReaderAgree, Awaiting
  <2>3. rd_cmd' = NoCmd /\ ~rd_cmd'.valid
    BY <1>0, <1>3, CommandTypes
  <2>4. CASE beat.valid
    <3>1. nextBuf = [buf EXCEPT ![pf_fill_cnt - 1] = beat.data]
      BY <1>0, <1>3, <2>4
    <3>2. PICK fill : fill = pf_fill_cnt + 1
      OBVIOUS
    <3>3. Loading(BEATS_PER_TILE_KV, pf_fill_cnt, fill, addr, buf, nextBuf, beat)
      BY <1>0, <2>1, <2>3, <2>4, <3>1, <3>2 DEF Loading
    <3>4. IF Fills(BEATS_PER_TILE_KV, pf_fill_cnt, beat)
          THEN Filled(nextBuf, run', addr, BEATS_PER_TILE_KV)
          ELSE Load(fill, addr, nextBuf)'
      BY <1>0, <1>1, <1>3, <2>2, <3>3, LoadEdge
    <3>5. CASE Fills(BEATS_PER_TILE_KV, pf_fill_cnt, beat)
      <4>1. pf_state' = next
        BY <1>0, <1>1, <1>3, <2>4, <3>5 DEF PrefetchNext, Fills
      <4> QED
        BY <2>3, <3>4, <3>5, <4>1 DEF Prefetched
    <3>6. CASE ~Fills(BEATS_PER_TILE_KV, pf_fill_cnt, beat)
      <4>1. pf_state' = taking /\ pf_fill_cnt' = fill
        BY <1>0, <1>1, <1>3, <2>1, <2>4, <3>2, <3>6 DEF PrefetchNext, Fills
      <4> QED
        BY <3>4, <3>6, <4>1 DEF Prefetched
    <3> QED
      BY <1>0, <3>5, <3>6
  <2>5. CASE ~beat.valid
    <3>1. PICK fill : fill = pf_fill_cnt
      OBVIOUS
    <3>2. nextBuf = buf
      BY <1>0, <2>5
    <3>3. Loading(BEATS_PER_TILE_KV, pf_fill_cnt, fill, addr, buf, nextBuf, beat)
      BY <1>0, <2>1, <2>3, <2>5, <3>1, <3>2 DEF Loading
    <3>4. Load(fill, addr, nextBuf)'
      BY <1>0, <1>1, <1>3, <2>2, <2>5, <3>3, LoadEdge DEF Fills
    <3>5. pf_state' = taking /\ pf_fill_cnt' = fill
      BY <1>0, <1>1, <1>3, <2>1, <2>5, <3>1 DEF PrefetchNext
    <3> QED
      BY <3>4, <3>5 DEF Prefetched
  <2> QED
    BY <1>0, <2>4, <2>5
<1> QED
  BY <1>0, <1>2, <1>3
\* S_COMPUTE.
LEMMA ComputeFills ==
  ASSUME IInv, WorkInv, LoadInv,
         NEW arready, NEW rvalid, NEW beat, ReadSide(arready, rvalid, beat),
         Compute(rd_cmd_ready, beat)
  PROVE  LoadInv'
<1>1. /\ ms = "S_COMPUTE" /\ UNCHANGED <<q_tile_idx, q_buf, run>> /\ PrefetchStore(beat)
      /\ rd_cmd' = PrefetchCmd
  BY DEF Compute, Pulses, ReadSide
<1>2. /\ QLoadInv /\ KVLoadInv /\ PrefetchInv
      /\ k_tile_idx \in Nat /\ k_tile_idx + 1 \in Nat
      /\ active_bank \in Banks /\ pref_target_bank \in Banks
      /\ k_buf \in [Banks -> [KVBeats -> Beat]] /\ v_buf \in [Banks -> [KVBeats -> Beat]]
      /\ pf_state # "PF_IDLE" => pref_target_bank # active_bank
  BY <1>1 DEF LoadInv, IInv, TypeOK, MasterTypeOK, PrefetchTypeOK, DataTypeOK, WorkInv, BankInv,
              Banks
<1>3. CASE LastTileDone
  BY <1>3 DEF LastTileDone, LoadInv, QLoadInv, KVLoadInv, PrefetchInv
<1>4. CASE NextTile
  <2>1. /\ pf_state = "PF_DONE" /\ k_tile_idx' = k_tile_idx + 1 /\ ms' = ms
        /\ active_bank' = pref_target_bank
        /\ pf_state' \in {"PF_IDLE", "PF_CMD_K"}
    BY <1>4 DEF NextTile
  <2>2. UNCHANGED <<k_buf, v_buf>> /\ ~rd_cmd'.valid
    BY <1>1, <2>1, CommandTypes DEF PrefetchStore, PrefetchCmd
  <2>3. QLoadInv'
    BY <1>1, <1>2, <2>1 DEF QLoadInv, Filled, QAddr
  <2>4. KVLoadInv'
    BY <1>1, <1>2, <2>1, <2>2 DEF PrefetchInv, KVLoadInv, Filled, KAddr, VAddr
  <2>5. PrefetchInv'
    BY <2>1, <2>2 DEF PrefetchInv, Load
  <2> QED
    BY <2>3, <2>4, <2>5 DEF LoadInv
<1>5. CASE SameTile(rd_cmd_ready, beat)
  <2>1. /\ UNCHANGED <<ms, k_tile_idx, active_bank>>
        /\ pf_state' = PrefetchNext(rd_cmd_ready, beat)[1]
        /\ pref_target_bank' = IF pf_state = "PF_IDLE" /\ k_tile_idx < NUM_K_TILES - 1
                               THEN 1 - active_bank ELSE pref_target_bank
    BY <1>5 DEF SameTile
  <2>2. /\ k_buf'[active_bank] = k_buf[active_bank]
        /\ v_buf'[active_bank] = v_buf[active_bank]
    BY <1>1, <1>2 DEF PrefetchStore
  <2>3. QLoadInv'
    BY <1>1, <1>2, <2>1 DEF QLoadInv, Filled, QAddr
  <2>4. KVLoadInv'
    <3>1. /\ k_buf'[active_bank'] = k_buf[active_bank]
          /\ v_buf'[active_bank'] = v_buf[active_bank]
          /\ KAddr(k_tile_idx') = KAddr(k_tile_idx) /\ VAddr(k_tile_idx') = VAddr(k_tile_idx)
      BY <2>1, <2>2
    <3> QED
      BY <1>1, <1>2, <2>1, <3>1 DEF KVLoadInv, Filled
  <2>5. PrefetchInv'
    <3>1. PICK bank, kAddr, vAddr, kNext, vNext :
            /\ bank \in Banks /\ kAddr \in Nat /\ vAddr \in Nat
            /\ bank = pref_target_bank
            /\ kAddr = KAddr(k_tile_idx + 1) /\ vAddr = VAddr(k_tile_idx + 1)
            /\ kNext = k_buf'[bank] /\ vNext = v_buf'[bank]
      BY <1>2, TileAddresses
    <3>2. /\ k_buf[bank] \in [0 .. BEATS_PER_TILE_KV - 1 -> Beat]
          /\ v_buf[bank] \in [0 .. BEATS_PER_TILE_KV - 1 -> Beat]
          /\ kNext = IF pf_state = "PF_DATA_K" /\ beat.valid
                     THEN [k_buf[bank] EXCEPT ![pf_fill_cnt - 1] = beat.data] ELSE k_buf[bank]
          /\ vNext = IF pf_state = "PF_DATA_V" /\ beat.valid
                     THEN [v_buf[bank] EXCEPT ![pf_fill_cnt - 1] = beat.data] ELSE v_buf[bank]
      BY <1>1, <1>2, <3>1 DEF PrefetchStore, KVBeats
    <3>3. /\ (k_tile_idx + 1)' = k_tile_idx + 1
          /\ KAddr(k_tile_idx + 1)' = kAddr /\ VAddr(k_tile_idx + 1)' = vAddr
          /\ run' = run /\ ms' = "S_COMPUTE"
      BY <1>1, <2>1, <3>1 DEF KAddr, VAddr
    <3>4. pf_state # "PF_IDLE" =>
            /\ pref_target_bank' = bank
            /\ k_buf'[pref_target_bank'] = kNext /\ v_buf'[pref_target_bank'] = vNext
      BY <2>1, <3>1
    <3>5. CASE pf_state = "PF_IDLE"
      <4>1. pf_state' \in {"PF_IDLE", "PF_CMD_K"} /\ ~rd_cmd'.valid
        BY <1>1, <2>1, <3>5, CommandTypes DEF PrefetchNext, PrefetchCmd
      <4> QED
        BY <4>1 DEF PrefetchInv, Load
    <3>6. CASE pf_state \in {"PF_CMD_K", "PF_DATA_K"}
      <4>1. /\ pf_state = "PF_CMD_K" => Load(0, kAddr, k_buf[bank])
            /\ pf_state = "PF_DATA_K" => Load(pf_fill_cnt, kAddr, k_buf[bank])
        BY <1>1, <1>2, <3>1 DEF PrefetchInv
      <4>2. rd_cmd' = IF pf_state = "PF_CMD_K" THEN Cmd(kAddr, BEATS_PER_TILE_KV) ELSE NoCmd
        BY <1>1, <3>1, <3>6 DEF PrefetchCmd
      <4>3. Prefetching("PF_CMD_K", "PF_DATA_K", kAddr, k_buf[bank], kNext, beat)
        BY <3>2, <3>6, <4>1, <4>2 DEF Prefetching
      <4>4. Prefetched("PF_CMD_K", "PF_DATA_K", "PF_CMD_V", kAddr, kNext)
        BY <1>1, <1>5, <3>1, <3>2, <4>3, PrefetchFills
      <4>5. CASE pf_state' = "PF_CMD_K" /\ Load(0, kAddr, kNext)'
        BY <3>3, <3>4, <3>6, <4>5 DEF PrefetchInv, Load
      <4>6. ASSUME NEW fill, pf_state' = "PF_DATA_K", fill = pf_fill_cnt',
                   Load(fill, kAddr, kNext)'
            PROVE  PrefetchInv'
        BY <3>3, <3>4, <3>6, <4>6 DEF PrefetchInv, Load, Points, Filled
      <4>7. CASE /\ pf_state' = "PF_CMD_V" /\ rd_cmd' = NoCmd
                 /\ Filled(kNext, run', kAddr, BEATS_PER_TILE_KV)
        BY <3>3, <3>4, <3>6, <4>7, CommandTypes DEF PrefetchInv, Load, Filled
      <4> QED
        BY <4>4, <4>5, <4>6, <4>7 DEF Prefetched
    <3>7. CASE pf_state \in {"PF_CMD_V", "PF_DATA_V"}
      <4>1. /\ pf_state = "PF_CMD_V" => Load(0, vAddr, v_buf[bank])
            /\ pf_state = "PF_DATA_V" => Load(pf_fill_cnt, vAddr, v_buf[bank])
            /\ Filled(kNext, run, kAddr, BEATS_PER_TILE_KV)
        BY <1>1, <1>2, <3>1, <3>2, <3>7 DEF PrefetchInv
      <4>2. rd_cmd' = IF pf_state = "PF_CMD_V" THEN Cmd(vAddr, BEATS_PER_TILE_KV) ELSE NoCmd
        BY <1>1, <3>1, <3>7 DEF PrefetchCmd
      <4>3. Prefetching("PF_CMD_V", "PF_DATA_V", vAddr, v_buf[bank], vNext, beat)
        BY <3>2, <3>7, <4>1, <4>2 DEF Prefetching
      <4>4. Prefetched("PF_CMD_V", "PF_DATA_V", "PF_DONE", vAddr, vNext)
        BY <1>1, <1>5, <3>1, <3>2, <4>3, PrefetchFills
      <4>5. CASE pf_state' = "PF_CMD_V" /\ Load(0, vAddr, vNext)'
        BY <3>3, <3>4, <3>7, <4>1, <4>5 DEF PrefetchInv, Load, Filled
      <4>6. ASSUME NEW fill, pf_state' = "PF_DATA_V", fill = pf_fill_cnt',
                   Load(fill, vAddr, vNext)'
            PROVE  PrefetchInv'
        BY <3>3, <3>4, <3>7, <4>1, <4>6 DEF PrefetchInv, Load, Points, Filled
      <4>7. CASE /\ pf_state' = "PF_DONE" /\ rd_cmd' = NoCmd
                 /\ Filled(vNext, run', vAddr, BEATS_PER_TILE_KV)
        BY <3>3, <3>4, <3>7, <4>1, <4>7 DEF PrefetchInv, Filled
      <4> QED
        BY <4>4, <4>5, <4>6, <4>7 DEF Prefetched
    <3>8. CASE pf_state = "PF_DONE"
      <4>1. pf_state' = "PF_DONE" /\ kNext = k_buf[bank] /\ vNext = v_buf[bank]
        BY <2>1, <3>2, <3>8 DEF PrefetchNext
      <4> QED
        BY <1>1, <1>2, <3>1, <3>3, <3>4, <3>8, <4>1 DEF PrefetchInv, Filled
    <3> QED
      BY <3>5, <3>6, <3>7, <3>8 DEF IInv, TypeOK, PrefetchTypeOK
  <2> QED
    BY <2>3, <2>4, <2>5 DEF LoadInv
<1> QED
  BY <1>3, <1>4, <1>5 DEF Compute
\* The loads, kept at every edge.
LEMMA LoadInvStep ==
  ASSUME IInv, WorkInv, LoadInv,
         NEW start, NEW softReset, NEW arready, NEW rvalid, NEW awready, NEW wready,
         NEW bvalid, NEW recip, NEW advance, NEW beat,
         Turn(start, softReset, arready, rvalid, awready, wready, bvalid, recip, advance, beat)
  PROVE  LoadInv'
<1>1. MasterClock(start, softReset, rd_cmd_ready, beat, wr_cmd_ready, in_ready(wready), recip)
  BY DEF Turn
<1>2. ms # "S_IDLE" => ReadSide(arready, rvalid, beat)
  BY TurnReads
<1>3. QLoadInv /\ KVLoadInv /\ PrefetchInv
  BY DEF LoadInv
<1>4. CASE LoadQ(rd_cmd_ready, beat)
  BY <1>2, <1>3, <1>4, LoadQFills DEF LoadQ
<1>5. CASE LoadK(rd_cmd_ready, beat)
  BY <1>2, <1>3, <1>5, LoadKFills DEF LoadK
<1>6. CASE LoadV(rd_cmd_ready, beat)
  BY <1>2, <1>3, <1>6, LoadVFills DEF LoadV
<1>7. CASE Compute(rd_cmd_ready, beat)
  BY <1>2, <1>7, ComputeFills DEF Compute
<1>8. CASE InitContext
  <2>1. /\ ms = "S_INIT_CONTEXT" /\ ms' = "S_LOAD_K" /\ kv_fill_cnt' = 0
        /\ rd_cmd' = NoCmd /\ UNCHANGED <<q_tile_idx, q_buf>>
    BY <1>8 DEF InitContext, Pulses, bufVars
  <2>2. run' = run
    BY <1>2, <2>1 DEF ReadSide
  <2>3. QLoadInv'
    BY <1>3, <2>1, <2>2 DEF QLoadInv, Filled, QAddr
  <2> QED
    BY <2>1, <2>3, CommandTypes DEF LoadInv, KVLoadInv, PrefetchInv, Load
<1>9. CASE \/ SoftReset \/ Idle(start) \/ Normalize(recip)
           \/ WriteO(wr_cmd_ready, in_ready(wready)) \/ NextQ \/ Done
  <2>1. \/ ms' \in {"S_IDLE", "S_NORMALIZE", "S_WRITE_O", "S_NEXT_Q", "S_DONE"}
        \/ ms' = "S_LOAD_Q" /\ q_fill_cnt' = 0 /\ rd_cmd' = NoCmd
    BY <1>9 DEF SoftReset, Idle, Start, Normalize, RequestRecip, TakeRecip, ScaleRow, WriteO,
                NextQ, Done, Pulses
  <2> QED
    BY <2>1, CommandTypes DEF LoadInv, QLoadInv, KVLoadInv, PrefetchInv, Load
<1> QED
  BY <1>1, <1>4, <1>5, <1>6, <1>7, <1>8, <1>9 DEF MasterClock

-----------------------------------------------------------------------------
(* What the pipelines read.                                                *)

OperandInv == IInv /\ WorkInv /\ LoadInv

\* The operands' invariant holds at the start.
LEMMA InitOperands == Init => OperandInv
<1> SUFFICES ASSUME Init PROVE OperandInv
  OBVIOUS
<1>1. IInv
  BY InitInv
<1>2. WorkInv
  BY DEF Init, CoreInit, WorkInv, EngineInv, BankInv, RowsOK, FreshRows
<1>3. LoadInv
  BY DEF Init, CoreInit, LoadInv, QLoadInv, KVLoadInv, PrefetchInv
<1> QED
  BY <1>1, <1>2, <1>3 DEF OperandInv

\* Every step keeps it.
LEMMA NextOperands ==
  ASSUME HOST_RESETS # "any", OperandInv, [Next]_vars
  PROVE  OperandInv'
<1>1. IInv /\ WorkInv /\ LoadInv /\ IInv'
  BY NextInv DEF OperandInv
<1>2. CASE UNCHANGED vars
  BY <1>1, <1>2 DEF vars, coreVars, channelVars, readerVars, readSlaveVars, tileVars, fillVars,
     bankVars, pfVars, normVars, bufVars, engineVars, OperandInv, WorkInv, EngineInv, BankInv,
     RowsOK, LoadInv, QLoadInv, KVLoadInv, PrefetchInv, Load, Points, Filled, QAddr, KAddr, VAddr
<1>3. CASE Next
  <2>1. PICK start, softReset, arready, rvalid, awready, wready, bvalid, recip, advance, beat :
          Turn(start, softReset, arready, rvalid, awready, wready, bvalid, recip, advance, beat)
    BY <1>1, <1>3, TurnParts
  <2>2. WorkInv'
    BY <1>1, <2>1, WorkStep DEF IInv, PortInv
  <2>3. LoadInv'
    BY <1>1, <2>1, LoadInvStep
  <2> QED
    BY <1>1, <2>2, <2>3 DEF OperandInv
<1> QED
  BY <1>2, <1>3

\* While the compute machine runs, the buffers it reads hold the Q tile and the K/V tile
\* the indices name, of this run: whatever the memory's timing, and with soft resets at
\* any time outside the compute machine's and the write DMA's work.
THEOREM OperandsAreLoaded ==
  ASSUME HOST_RESETS # "any"
  PROVE  Spec => []OperandsLoaded
<1>1. ASSUME OperandInv PROVE OperandsLoaded
  <2>1. SUFFICES ASSUME cs = "C_DP_RUN"
                 PROVE  /\ QTileIn(q_buf, q_tile_idx)
                        /\ KTileIn(k_buf[active_bank], k_tile_idx)
                        /\ VTileIn(v_buf[active_bank], k_tile_idx)
    BY DEF OperandsLoaded
  <2>2. ms = "S_COMPUTE"
    BY <1>1, <2>1 DEF OperandInv, WorkInv, EngineInv
  <2>3. /\ Filled(q_buf, run, QAddr(q_tile_idx), BEATS_PER_TILE_Q)
        /\ Filled(k_buf[active_bank], run, KAddr(k_tile_idx), BEATS_PER_TILE_KV)
        /\ Filled(v_buf[active_bank], run, VAddr(k_tile_idx), BEATS_PER_TILE_KV)
    BY <1>1, <2>2 DEF OperandInv, LoadInv, QLoadInv, KVLoadInv
  <2> QED
    BY <2>3 DEF Filled, QTileIn, KTileIn, VTileIn, TagFor, QBeats, KVBeats
<1> QED
  BY InitOperands, NextOperands, <1>1, PTL DEF Spec

\* And none of it moves under them: the prefetcher writes the other bank only, and nothing
\* but the compute machine touches the rows' contexts.
THEOREM OperandsAreStable ==
  ASSUME HOST_RESETS # "any"
  PROVE  Spec => OperandsStable
<1>1. ASSUME OperandInv, [Next]_vars
      PROVE  [cs = "C_DP_RUN" /\ cs' = "C_DP_RUN" =>
                /\ UNCHANGED <<q_buf, tileVars, active_bank>>
                /\ k_buf'[active_bank] = k_buf[active_bank]
                /\ v_buf'[active_bank] = v_buf[active_bank]
                /\ \A b \in Batches \ {comp_batch} : row_ctx'[b] = row_ctx[b]]_vars
  <2>1. CASE Next /\ cs = "C_DP_RUN"
    <3>1. IInv /\ WorkInv
      BY <1>1 DEF OperandInv
    <3>2. PICK start, softReset, arready, rvalid, awready, wready, bvalid, recip, advance, beat :
            Turn(start, softReset, arready, rvalid, awready, wready, bvalid, recip, advance, beat)
      BY <2>1, <3>1, TurnParts
    <3> QED
      BY <2>1, <3>1, <3>2, StableStep
  <2> QED
    BY <1>1, <2>1
<1> QED
  BY InitOperands, NextOperands, <1>1, PTL DEF Spec, OperandsStable
-----------------------------------------------------------------------------
(* Sets of keys.                                                           *)

\* The keys of the tiles so far: none at first, those of one more tile with each tile,
\* key by key.
LEMMA KeysGrow ==
  ASSUME NEW r, NEW t, NEW b, NEW u \in Nat
  PROVE  /\ KeysBefore(r, t, b, 0) = {}
         /\ KeysBefore(r, t, b, u) \subseteq KeysBefore(r, t, b, u + 1)
         /\ \A n \in KVBeats : Key(r, t, b, u, n) \in KeysBefore(r, t, b, u + 1)
         /\ KeysBefore(r, t, b, u + 1) \subseteq
              KeysBefore(r, t, b, u) \cup KeysOf(r, t, b, u, BEATS_PER_TILE_KV)
         /\ KeysOf(r, t, b, u, 0) = {}
         /\ \A n \in Nat : KeysOf(r, t, b, u, n + 1) =
                             KeysOf(r, t, b, u, n) \cup {Key(r, t, b, u, n)}
<1>1. KeysBefore(r, t, b, 0) = {} /\ KeysOf(r, t, b, u, 0) = {}
  BY DEF KeysBefore, KeysOf
<1>2. KeysBefore(r, t, b, u) \subseteq KeysBefore(r, t, b, u + 1)
  BY DEF KeysBefore
<1>3. \A n \in KVBeats : Key(r, t, b, u, n) \in KeysBefore(r, t, b, u + 1)
  BY DEF KeysBefore
<1>4. ASSUME NEW key \in KeysBefore(r, t, b, u + 1), key \notin KeysBefore(r, t, b, u)
      PROVE  key \in KeysOf(r, t, b, u, BEATS_PER_TILE_KV)
  <2>1. PICK w \in 0 .. (u + 1) - 1, j \in KVBeats : key = Key(r, t, b, w, j)
    BY DEF KeysBefore
  <2>2. w = u
    BY <1>4, <2>1 DEF KeysBefore
  <2> QED
    BY <2>1, <2>2 DEF KeysOf, KVBeats
<1>5. ASSUME NEW n \in Nat
      PROVE  KeysOf(r, t, b, u, n + 1) = KeysOf(r, t, b, u, n) \cup {Key(r, t, b, u, n)}
  <2>1. 0 .. (n + 1) - 1 = (0 .. n - 1) \cup {n}
    OBVIOUS
  <2> QED
    BY <2>1, Zenon DEF KeysOf
<1> QED
  BY <1>1, <1>2, <1>3, <1>4, <1>5

\* There are keys to come.
LEMMA SomeKeys ==
  ASSUME NEW r, NEW t, NEW b
  PROVE  KeysBefore(r, t, b, NUM_K_TILES) # {}
<1>1. 0 \in 0 .. NUM_K_TILES - 1 /\ 0 \in KVBeats
  BY CoreAssumption DEF KVBeats
<1>2. Key(r, t, b, 0, 0) \in KeysBefore(r, t, b, NUM_K_TILES)
  BY <1>1 DEF KeysBefore
<1> QED
  BY <1>2

\* What the pipelines read is the key the indices mean.
LEMMA ContributionIsKey ==
  ASSUME LoadInv, ms = "S_COMPUTE", NEW b, NEW j \in KVBeats
  PROVE  Contribution(b, j) = Key(run, q_tile_idx, b, k_tile_idx, j)
<1>1. /\ Filled(q_buf, run, QAddr(q_tile_idx), BEATS_PER_TILE_Q)
      /\ Filled(k_buf[active_bank], run, KAddr(k_tile_idx), BEATS_PER_TILE_KV)
      /\ Filled(v_buf[active_bank], run, VAddr(k_tile_idx), BEATS_PER_TILE_KV)
  BY DEF LoadInv, QLoadInv, KVLoadInv
<1>2. {q_buf[i] : i \in {i \in QBeats : BatchOf(i) = b}} =
      {[run |-> run, addr |-> QAddr(q_tile_idx) + i] : i \in {i \in QBeats : BatchOf(i) = b}}
  <2>1. \A i \in QBeats : q_buf[i] = [run |-> run, addr |-> QAddr(q_tile_idx) + i]
    BY <1>1 DEF Filled, QBeats
  <2> QED
    BY <2>1, Zenon
<1>3. /\ k_buf[active_bank][j] = [run |-> run, addr |-> KAddr(k_tile_idx) + j]
      /\ v_buf[active_bank][j] = [run |-> run, addr |-> VAddr(k_tile_idx) + j]
  BY <1>1 DEF Filled, KVBeats
<1> QED
  BY <1>2, <1>3 DEF Contribution, Key

\* The compute machine at work.
LEMMA RowsWhileComputing ==
  ASSUME IInv, WorkInv, LoadInv, RowInv, cs # "C_IDLE" \/ comp_start,
         NEW start, NEW softReset, NEW arready, NEW rvalid, NEW awready, NEW wready,
         NEW bvalid, NEW recip, NEW advance, NEW beat,
         Turn(start, softReset, arready, rvalid, awready, wready, bvalid, recip, advance, beat)
  PROVE  RowInv'
<1>1. /\ ms = "S_COMPUTE" /\ ~comp_done
      /\ Compute(rd_cmd_ready, beat) /\ SameTile(rd_cmd_ready, beat)
      /\ row_ctx' = IF RetiresBatch(advance)
                    THEN [row_ctx EXCEPT ![comp_batch] = eng_ctx] ELSE row_ctx
      /\ run' = run
  BY Working DEF WorkInv
<1>2. /\ ms' = "S_COMPUTE" /\ q_tile_idx' = q_tile_idx /\ k_tile_idx' = k_tile_idx
      /\ EngineClock(advance)
  BY <1>1 DEF Compute, SameTile, Turn
<1>3. /\ row_ctx = [b \in Batches |-> row_ctx[b]]
      /\ comp_batch \in Batches /\ comp_kj \in 0 .. BEATS_PER_TILE_KV
      /\ k_tile_idx \in Nat /\ BEATS_PER_TILE_KV \in Nat \ {0} /\ NUM_BATCHES \in Nat \ {0}
      /\ cs \in {"C_IDLE", "C_DP_RUN", "C_DONE"}
  BY CoreAssumption DEF WorkInv, RowsOK, IInv, TypeOK, EngineTypeOK, MasterTypeOK
<1>4. /\ \A b \in Batches : RowHolds(b)
      /\ cs = "C_DP_RUN" /\ comp_kj > 0 => EngineHolds(comp_batch)
  BY <1>1 DEF RowInv
<1> SUFFICES /\ \A b \in Batches : RowHolds(b)'
             /\ cs' = "C_DP_RUN" /\ comp_kj' > 0 => EngineHolds(comp_batch)'
  BY <1>2 DEF RowInv
<1>5. CASE Launch
  <2>1. ~RetiresBatch(advance) /\ cs = "C_IDLE" /\ comp_kj' = 0 /\ comp_batch' = 0 /\ ~comp_done'
    BY <1>1, <1>5 DEF Launch, RetiresBatch
  <2>2. \A b \in Batches : ~Computed(b)'
    BY <1>5, <2>1 DEF Computed, Launch, Batches
  <2> QED
    BY <1>1, <1>2, <1>4, <2>1, <2>2 DEF RowHolds
<1>6. CASE ConsumeKey(advance)
  <2>1. /\ cs = "C_DP_RUN" /\ comp_kj \in KVBeats
        /\ comp_kj' = comp_kj + 1 /\ ~comp_done'
        /\ UNCHANGED <<cs, comp_batch, row_ctx>>
        /\ eng_ctx'.once = (IF comp_kj = 0 THEN row_ctx[comp_batch].once ELSE eng_ctx.once)
                             \cup {Contribution(comp_batch, comp_kj)}
    BY <1>1, <1>3, <1>6 DEF ConsumeKey, RetiresBatch, Accumulate, KVBeats
  <2>2. \A b \in Batches : RowHolds(b)'
    BY <1>1, <1>2, <1>4, <2>1 DEF RowHolds, Computed
  <2>3. EngineHolds(comp_batch)'
    <3>1. PICK before, after, sofar, next, key :
            /\ before = KeysBefore(run, q_tile_idx, comp_batch, k_tile_idx)
            /\ after = KeysBefore(run, q_tile_idx, comp_batch, k_tile_idx + 1)
            /\ sofar = KeysOf(run, q_tile_idx, comp_batch, k_tile_idx, comp_kj)
            /\ next = KeysOf(run, q_tile_idx, comp_batch, k_tile_idx, comp_kj + 1)
            /\ key = Key(run, q_tile_idx, comp_batch, k_tile_idx, comp_kj)
      OBVIOUS
    <3>2. Contribution(comp_batch, comp_kj) = key
      BY <1>1, <2>1, <3>1, ContributionIsKey
    <3>3. /\ before \subseteq after /\ key \in after
          /\ next = sofar \cup {key}
          /\ comp_kj = 0 => sofar = {}
      <4>1. comp_kj \in Nat
        BY <1>3
      <4> QED
        BY <1>3, <2>1, <3>1, <4>1, KeysGrow
    <3>4. comp_kj = 0 => /\ before \subseteq row_ctx[comp_batch].once
                         /\ row_ctx[comp_batch].once \subseteq after
      BY <1>3, <1>4, <3>1 DEF RowHolds
    <3>5. comp_kj # 0 => /\ before \subseteq eng_ctx.once /\ sofar \subseteq eng_ctx.once
                         /\ eng_ctx.once \subseteq after
      BY <1>3, <1>4, <2>1, <3>1 DEF EngineHolds
    <3>6. before \subseteq eng_ctx'.once /\ next \subseteq eng_ctx'.once
          /\ eng_ctx'.once \subseteq after
      BY <2>1, <3>2, <3>3, <3>4, <3>5
    <3> QED
      BY <1>1, <1>2, <2>1, <3>1, <3>6 DEF EngineHolds
  <2> QED
    BY <2>1, <2>2, <2>3
<1>7. CASE RetireBatch(advance)
  <2>1. /\ cs = "C_DP_RUN" /\ comp_kj = BEATS_PER_TILE_KV /\ ~comp_done'
        /\ row_ctx' = [row_ctx EXCEPT ![comp_batch] = eng_ctx]
        /\ IF comp_batch = NUM_BATCHES - 1
           THEN cs' = "C_DONE"
           ELSE cs' = "C_DP_RUN" /\ comp_batch' = comp_batch + 1 /\ comp_kj' = 0
    BY <1>1, <1>7 DEF RetireBatch, RetiresBatch
  <2>2. ASSUME NEW b \in Batches PROVE RowHolds(b)'
    <3>1. PICK before, after, all :
            /\ before = KeysBefore(run, q_tile_idx, b, k_tile_idx)
            /\ after = KeysBefore(run, q_tile_idx, b, k_tile_idx + 1)
            /\ all = KeysOf(run, q_tile_idx, b, k_tile_idx, BEATS_PER_TILE_KV)
      OBVIOUS
    <3>2. CASE b = comp_batch
      <4>1. before \subseteq eng_ctx.once /\ all \subseteq eng_ctx.once
            /\ eng_ctx.once \subseteq after
        BY <1>3, <1>4, <2>1, <3>1, <3>2 DEF EngineHolds
      <4>2. after \subseteq before \cup all
        BY <1>3, <3>1, KeysGrow
      <4>3. row_ctx'[b] = eng_ctx
        BY <1>3, <2>1, <3>2
      <4> QED
        BY <1>1, <1>2, <3>1, <4>1, <4>2, <4>3 DEF RowHolds
    <3>3. CASE b # comp_batch
      <4>1. row_ctx'[b] = row_ctx[b]
        BY <1>3, <2>1, <3>3
      <4>2. Computed(b)' => Computed(b)
        BY <1>3, <2>1, <3>3 DEF Computed, Batches
      <4> QED
        BY <1>1, <1>2, <1>4, <4>1, <4>2 DEF RowHolds
    <3> QED
      BY <3>2, <3>3
  <2> QED
    BY <2>1, <2>2
<1>8. CASE InFlight(advance)
  <2>1. UNCHANGED <<cs, comp_batch, comp_kj, eng_ctx, row_ctx>> /\ ~comp_done'
    BY <1>1, <1>8 DEF InFlight, RetiresBatch
  <2> QED
    BY <1>1, <1>2, <1>4, <2>1 DEF RowHolds, EngineHolds, Computed
<1>9. CASE Finish
  <2>1. cs = "C_DONE" /\ cs' = "C_IDLE" /\ row_ctx' = row_ctx
    BY <1>1, <1>9 DEF Finish, RetiresBatch
  <2>2. \A b \in Batches : Computed(b)
    BY <2>1 DEF Computed
  <2> QED
    BY <1>1, <1>2, <1>4, <2>1, <2>2 DEF RowHolds
<1> QED
  BY <1>2, <1>5, <1>6, <1>7, <1>8, <1>9 DEF EngineClock
\* The compute machine at rest.
LEMMA AtRest ==
  ASSUME IInv, WorkInv, cs = "C_IDLE", ~comp_start,
         NEW start, NEW softReset, NEW arready, NEW rvalid, NEW awready, NEW wready,
         NEW bvalid, NEW recip, NEW advance, NEW beat,
         Turn(start, softReset, arready, rvalid, awready, wready, bvalid, recip, advance, beat)
  PROVE  /\ cs' = "C_IDLE" /\ ~comp_done'
         /\ row_ctx' = IF ~softReset /\ ms = "S_INIT_CONTEXT" THEN FreshRows ELSE row_ctx
<1>1. cs' = "C_IDLE" /\ ~comp_done'
  BY DEF Turn, EngineClock, Launch, ConsumeKey, RetireBatch, RetiresBatch, InFlight, Finish
<1>2. RowCtxNext(softReset, advance)
  BY DEF Turn
<1>3. row_ctx' = IF ~softReset /\ ms = "S_INIT_CONTEXT" THEN FreshRows ELSE row_ctx
  BY <1>2, RowsAtRest
<1> QED
  BY <1>1, <1>3

\* Between two tiles, and before the first.
LEMMA RowsBetweenTiles ==
  ASSUME IInv, WorkInv, RowInv, cs = "C_IDLE", ~comp_start,
         NEW start, NEW softReset, NEW arready, NEW rvalid, NEW awready, NEW wready,
         NEW bvalid, NEW recip, NEW advance, NEW beat,
         Turn(start, softReset, arready, rvalid, awready, wready, bvalid, recip, advance, beat)
  PROVE  RowInv'
<1>1. /\ cs' = "C_IDLE" /\ ~comp_done'
      /\ row_ctx' = IF ~softReset /\ ms = "S_INIT_CONTEXT" THEN FreshRows ELSE row_ctx
  BY AtRest
<1>2. ms # "S_IDLE" => run' = run
  BY DEF Turn, Accepts
<1>3. MasterClock(start, softReset, rd_cmd_ready, beat, wr_cmd_ready, in_ready(wready), recip)
  BY DEF Turn
<1>4. k_tile_idx \in Nat
  BY DEF IInv, TypeOK, MasterTypeOK
<1>5. \A b : ~Computed(b)'
  BY <1>1 DEF Computed
<1>6. CASE ~softReset /\ InitContext
  BY <1>1, <1>6 DEF InitContext, RowInv
<1>7. CASE LoadK(rd_cmd_ready, beat)
  <2>1. ms = "S_LOAD_K" /\ ms' \in {"S_LOAD_K", "S_LOAD_V"} /\ k_tile_idx' = k_tile_idx
    BY <1>7 DEF LoadK, tileVars
  <2> QED
    BY <1>1, <2>1 DEF RowInv
<1>8. CASE LoadV(rd_cmd_ready, beat)
  <2>1. ms = "S_LOAD_V" /\ ms' \in {"S_LOAD_V", "S_COMPUTE"} /\ k_tile_idx' = k_tile_idx
    BY <1>8 DEF LoadV, tileVars
  <2>2. k_tile_idx = 0 /\ row_ctx' = FreshRows
    BY <1>1, <2>1 DEF RowInv
  <2>3. ASSUME NEW b \in Batches PROVE RowHolds(b)'
    <3>1. row_ctx'[b].once = {}
      BY <2>2 DEF FreshRows, FreshCtx
    <3>2. KeysBefore(run', q_tile_idx', b, 0) = {}
      BY DEF KeysBefore
    <3> QED
      BY <1>5, <2>1, <2>2, <3>1, <3>2 DEF RowHolds
  <2> QED
    BY <1>1, <2>1, <2>2, <2>3 DEF RowInv
<1>9. CASE Compute(rd_cmd_ready, beat)
  <2>1. /\ ms = "S_COMPUTE" /\ row_ctx' = row_ctx /\ q_tile_idx' = q_tile_idx /\ run' = run
        /\ \A b \in Batches : RowHolds(b)
    BY <1>1, <1>2, <1>9 DEF Compute, RowInv
  <2>2. CASE LastTileDone
    BY <1>1, <2>2 DEF LastTileDone, RowInv
  <2>3. CASE NextTile
    <3>1. k_tile_idx' = k_tile_idx + 1 /\ ms' = ms /\ comp_done
      BY <2>3 DEF NextTile
    <3>2. ASSUME NEW b \in Batches PROVE RowHolds(b)'
      <4>1. row_ctx[b].once = KeysBefore(run, q_tile_idx, b, k_tile_idx + 1)
        BY <2>1, <3>1 DEF RowHolds, Computed
      <4>2. KeysBefore(run, q_tile_idx, b, k_tile_idx + 1) \subseteq
              KeysBefore(run, q_tile_idx, b, (k_tile_idx + 1) + 1)
        BY <1>4, KeysGrow
      <4> QED
        BY <1>5, <2>1, <3>1, <4>1, <4>2 DEF RowHolds
    <3> QED
      BY <1>1, <2>1, <3>1, <3>2 DEF RowInv
  <2>4. CASE SameTile(rd_cmd_ready, beat)
    <3>1. UNCHANGED <<ms, k_tile_idx>>
      BY <2>4 DEF SameTile
    <3>2. \A b \in Batches : RowHolds(b)'
      BY <1>5, <2>1, <3>1 DEF RowHolds
    <3> QED
      BY <1>1, <2>1, <3>1, <3>2 DEF RowInv
  <2> QED
    BY <1>9, <2>2, <2>3, <2>4 DEF Compute
<1>10. CASE \/ SoftReset \/ Idle(start) \/ LoadQ(rd_cmd_ready, beat) \/ Normalize(recip)
            \/ WriteO(wr_cmd_ready, in_ready(wready)) \/ NextQ \/ Done
  <2>1. ms' \notin {"S_LOAD_K", "S_LOAD_V", "S_COMPUTE"}
    BY <1>10 DEF SoftReset, Idle, Start, LoadQ, Normalize, RequestRecip, TakeRecip, ScaleRow,
                 WriteO, NextQ, Done
  <2> QED
    BY <1>1, <2>1 DEF RowInv
<1> QED
  BY <1>3, <1>6, <1>7, <1>8, <1>9, <1>10 DEF MasterClock

-----------------------------------------------------------------------------
(* Normalisation.                                                          *)

\* Every tile computed, the rows are inverted and scaled one batch after the other.
LEMMA NormInvStep ==
  ASSUME IInv, WorkInv, RowInv, NormInv, \A n, d : NoData # [num |-> n, den |-> d],
         NEW start, NEW softReset, NEW arready, NEW rvalid, NEW awready, NEW wready,
         NEW bvalid, NEW recip, NEW advance, NEW beat,
         Turn(start, softReset, arready, rvalid, awready, wready, bvalid, recip, advance, beat)
  PROVE  NormInv'
<1>1. MasterClock(start, softReset, rd_cmd_ready, beat, wr_cmd_ready, in_ready(wready), recip)
  BY DEF Turn
<1>2. ms # "S_IDLE" => run' = run
  BY DEF Turn, Accepts
<1>3. ms # "S_COMPUTE" => cs = "C_IDLE" /\ ~comp_start
  BY DEF WorkInv, EngineInv, IInv, TypeOK, FlagTypeOK
<1>4. /\ o_buf = [b \in Batches |-> o_buf[b]]
      /\ norm_qi \in Batches /\ NUM_BATCHES \in Nat \ {0}
      /\ NUM_K_TILES \in Nat /\ k_tile_idx \in Nat
  BY CoreAssumption DEF NormInv, IInv, TypeOK, MasterTypeOK
<1>5. CASE Compute(rd_cmd_ready, beat)
  <2>1. o_buf' = o_buf /\ run' = run /\ q_tile_idx' = q_tile_idx
    BY <1>2, <1>5 DEF Compute
  <2>2. CASE LastTileDone
    <3>1. /\ ms = "S_COMPUTE" /\ comp_done /\ cs = "C_IDLE" /\ ~comp_start
          /\ k_tile_idx + 1 = NUM_K_TILES
          /\ ms' = "S_NORMALIZE" /\ norm_qi' = 0 /\ ~norm_row_ready'
      BY <1>4, <1>5, <2>2 DEF Compute, LastTileDone, WorkInv, EngineInv
    <3>2. row_ctx' = row_ctx
      BY <3>1, AtRest
    <3>3. \A b \in Batches : row_ctx[b].once = KeysBefore(run, q_tile_idx, b, NUM_K_TILES)
      BY <3>1 DEF RowInv, RowHolds, Computed
    <3>4. \A b \in Batches : ~(b < norm_qi')
      BY <3>1 DEF Batches
    <3> QED
      BY <1>4, <2>1, <3>1, <3>2, <3>3, <3>4 DEF NormInv
  <2>3. CASE ~LastTileDone
    <3>1. ms' = "S_COMPUTE"
      BY <1>5, <2>3 DEF Compute, NextTile, SameTile
    <3> QED
      BY <1>4, <2>1, <3>1 DEF NormInv
  <2> QED
    BY <2>2, <2>3
<1>6. CASE Normalize(recip)
  <2>1. /\ ms = "S_NORMALIZE" /\ run' = run /\ q_tile_idx' = q_tile_idx
        /\ cs = "C_IDLE" /\ ~comp_start
    BY <1>2, <1>3, <1>6 DEF Normalize, tileVars
  <2>2. row_ctx' = row_ctx
    BY <2>1, AtRest
  <2>3. /\ \A b \in Batches : row_ctx[b].once = KeysBefore(run, q_tile_idx, b, NUM_K_TILES)
        /\ \A b \in Batches : b < norm_qi => Complete(run, q_tile_idx, b, o_buf[b])
        /\ norm_row_ready => norm_row_recip = row_ctx[norm_qi]
    BY <2>1 DEF NormInv
  <2>4. CASE RequestRecip
    <3>1. row_ctx[norm_qi] # FreshCtx
      <4>1. row_ctx[norm_qi].once # {}
        BY <1>4, <2>3, SomeKeys
      <4> QED
        BY <4>1 DEF FreshCtx
    <3>2. UNCHANGED <<ms, norm_qi, norm_row_ready, norm_row_recip, o_buf>>
      BY <2>4, <3>1 DEF RequestRecip
    <3> QED
      BY <1>4, <2>1, <2>2, <2>3, <3>2 DEF NormInv, Complete
  <2>5. CASE TakeRecip(recip)
    <3>1. /\ UNCHANGED <<ms, norm_qi, o_buf>>
          /\ norm_row_ready' => norm_row_recip' = row_ctx[norm_qi]
      BY <2>5 DEF TakeRecip
    <3> QED
      BY <1>4, <2>1, <2>2, <2>3, <3>1 DEF NormInv, Complete
  <2>6. CASE ScaleRow(recip)
    <3>1. CASE ~recip
      <4>1. UNCHANGED <<ms, norm_qi, norm_row_ready, norm_row_recip, o_buf>>
        BY <2>6, <3>1 DEF ScaleRow
      <4> QED
        BY <1>4, <2>1, <2>2, <2>3, <4>1 DEF NormInv, Complete
    <3>2. CASE recip
      <4>1. /\ norm_row_ready /\ ~norm_row_ready'
            /\ o_buf' = [o_buf EXCEPT ![norm_qi] = [num |-> row_ctx[norm_qi],
                                                   den |-> norm_row_recip]]
            /\ IF norm_qi = NUM_BATCHES - 1
               THEN ms' = "S_WRITE_O"
               ELSE ms' = "S_NORMALIZE" /\ norm_qi' = norm_qi + 1
        BY <2>1, <2>6, <3>2 DEF ScaleRow
      <4>2. o_buf' = [b \in Batches |-> o_buf'[b]]
        BY <1>4, <4>1
      <4>3. Complete(run, q_tile_idx, norm_qi, o_buf'[norm_qi])
        <5>1. o_buf'[norm_qi] = [num |-> row_ctx[norm_qi], den |-> row_ctx[norm_qi]]
          BY <1>4, <2>3, <4>1
        <5> QED
          BY <1>4, <2>3, <5>1 DEF Complete
      <4>4. \A b \in Batches : b <= norm_qi => Complete(run, q_tile_idx, b, o_buf'[b])
        <5> SUFFICES ASSUME NEW b \in Batches, b <= norm_qi
                     PROVE  Complete(run, q_tile_idx, b, o_buf'[b])
          OBVIOUS
        <5>1. CASE b = norm_qi
          BY <4>3, <5>1
        <5>2. CASE b # norm_qi
          <6>1. b < norm_qi /\ o_buf'[b] = o_buf[b]
            BY <1>4, <4>1, <5>2 DEF Batches
          <6> QED
            BY <2>3, <6>1
        <5> QED
          BY <5>1, <5>2
      <4>5. CASE norm_qi = NUM_BATCHES - 1
        <5>1. \A b \in Batches : b <= norm_qi
          BY <1>4, <4>5 DEF Batches
        <5> QED
          BY <2>1, <4>1, <4>2, <4>4, <4>5, <5>1 DEF NormInv, Complete
      <4>6. CASE norm_qi # NUM_BATCHES - 1
        <5>1. \A b \in Batches : b < norm_qi + 1 => b <= norm_qi
          BY <1>4 DEF Batches
        <5> QED
          BY <2>1, <2>2, <2>3, <4>1, <4>2, <4>4, <4>6, <5>1 DEF NormInv, Complete
      <4> QED
        BY <4>5, <4>6
    <3> QED
      BY <3>1, <3>2
  <2> QED
    BY <1>6, <2>4, <2>5, <2>6 DEF Normalize
<1>7. CASE WriteO(wr_cmd_ready, in_ready(wready))
  <2>1. /\ ms = "S_WRITE_O" /\ ms' \in {"S_WRITE_O", "S_NEXT_Q"}
        /\ UNCHANGED <<q_tile_idx, o_buf>> /\ run' = run
    BY <1>2, <1>7 DEF WriteO, tileVars
  <2> QED
    BY <1>4, <2>1 DEF NormInv, Complete
<1>8. CASE \/ SoftReset \/ Idle(start) \/ LoadQ(rd_cmd_ready, beat) \/ InitContext
           \/ LoadK(rd_cmd_ready, beat) \/ LoadV(rd_cmd_ready, beat) \/ NextQ \/ Done
  <2>1. ms' \notin {"S_NORMALIZE", "S_WRITE_O"} /\ o_buf' = o_buf
    BY <1>8 DEF SoftReset, Idle, Start, LoadQ, InitContext, LoadK, LoadV, NextQ, Done
  <2> QED
    BY <1>4, <2>1 DEF NormInv
<1> QED
  BY <1>1, <1>5, <1>6, <1>7, <1>8 DEF MasterClock
-----------------------------------------------------------------------------
(* Out to memory.                                                          *)

\* Tiles do not overlap: the beats of an earlier tile lie below those of a later one.
LEMMA TilesApart ==
  ASSUME NEW t \in Nat, NEW u \in Nat, t < u, NEW i \in QBeats, NEW j \in Nat
  PROVE  OAddr(t) + i < OAddr(u) + j
<1>1. PICK d \in Nat : u = t + 1 + d
  <2>1. u - t - 1 \in Nat /\ u = t + 1 + (u - t - 1)
    OBVIOUS
  <2> QED
    BY <2>1
<1>2. PICK size \in Nat : size = BEATS_PER_TILE_Q
  BY CoreAssumption
<1>3. u * size = t * size + size + d * size
  BY <1>1
<1>4. t * size \in Nat /\ d * size \in Nat
  OBVIOUS
<1>5. PICK base \in Nat : base = O_BASE
  BY CoreAssumption
<1>6. i \in Nat /\ i < size
  BY <1>2 DEF QBeats
<1>7. PICK x \in Nat, y \in Nat : x = t * size /\ y = d * size
  BY <1>4
<1>8. OAddr(t) = base + x /\ OAddr(u) = base + (x + size + y)
  BY <1>2, <1>3, <1>5, <1>7 DEF OAddr
<1> QED
  BY <1>6, <1>8

\* Every beat of an O tile belongs to a batch.
LEMMA BatchInRange ==
  ASSUME NEW i \in QBeats
  PROVE  BatchOf(i) \in Batches
<1>1. PICK size, n : /\ size \in Nat \ {0} /\ n \in Nat \ {0}
                     /\ size = BEATS_PER_TILE_Q /\ n = NUM_BATCHES
  BY CoreAssumption
<1>2. i \in Nat /\ i + 1 <= size
  BY <1>1 DEF QBeats
<1>3. PICK x \in Nat : x = i * n
  BY <1>1, <1>2
<1>4. x < size * n
  <2>1. PICK d \in Nat : size = i + 1 + d
    <3>1. size - i - 1 \in Nat /\ size = i + 1 + (size - i - 1)
      BY <1>1, <1>2
    <3> QED
      BY <3>1
  <2>2. size * n = i * n + n + d * n /\ d * n \in Nat
    BY <1>1, <1>2, <2>1
  <2> QED
    BY <1>1, <1>3, <2>2
<1>5. x \div size \in 0 .. n - 1
  BY <1>1, <1>3, <1>4
<1> QED
  BY <1>1, <1>3, <1>5 DEF BatchOf, Batches
\* The write command and the burst made of it go to the tile the core writes.
LEMMA OutAddressStep ==
  ASSUME IInv, CoreWriterAgree, OutAddressInv,
         NEW start, NEW softReset, NEW arready, NEW rvalid, NEW awready, NEW wready,
         NEW bvalid, NEW recip, NEW advance, NEW beat,
         Turn(start, softReset, arready, rvalid, awready, wready, bvalid, recip, advance, beat)
  PROVE  OutAddressInv'
<1>1. /\ MasterClock(start, softReset, rd_cmd_ready, beat, wr_cmd_ready, in_ready(wready), recip)
      /\ WriterClock(wr_cmd.valid, wr_cmd.addr, wr_cmd.len, wr_data_valid, awready,
                     wready, bvalid, FALSE)
      /\ o_write_cnt \in Nat
      /\ w_state \in {"W_IDLE", "W_ADDR", "W_DATA", "W_RESP"}
  <2>1. o_write_cnt \in Nat /\ w_state \in {"W_IDLE", "W_ADDR", "W_DATA", "W_RESP"}
    BY CoreAssumption DEF IInv, TypeOK, MasterTypeOK, WriterTypeOK
  <2> QED
    BY <2>1 DEF Turn
<1>2. CASE ~(WriteO(wr_cmd_ready, in_ready(wready)) /\ ms' = "S_WRITE_O")
  <2>1. ms' = "S_WRITE_O" => o_write_cnt' = 0 /\ wr_cmd' = NoCmd
    BY <1>1, <1>2 DEF MasterClock, SoftReset, Idle, Start, LoadQ, InitContext, LoadK, LoadV,
       Compute, LastTileDone, NextTile, SameTile, Normalize, RequestRecip, TakeRecip, ScaleRow,
       NextQ, Done, Pulses
  <2> QED
    BY <2>1, CommandTypes DEF OutAddressInv
<1>3. CASE WriteO(wr_cmd_ready, in_ready(wready)) /\ ms' = "S_WRITE_O"
  <2>1. /\ ms = "S_WRITE_O" /\ q_tile_idx' = q_tile_idx
        /\ o_write_cnt = 0 => /\ wr_cmd' = Cmd(OAddr(q_tile_idx), BEATS_PER_TILE_Q)
                              /\ o_write_cnt' = IF wr_cmd_ready THEN 1 ELSE 0
        /\ o_write_cnt # 0 => ~wr_cmd'.valid
    BY <1>3, CommandTypes DEF WriteO, Pulses, tileVars
  <2>2. /\ wr_cmd.valid => wr_cmd.addr = OAddr(q_tile_idx)
        /\ o_write_cnt > 0 /\ w_state \in {"W_ADDR", "W_DATA"} => aw_addr_r = OAddr(q_tile_idx)
        /\ OAddr(q_tile_idx)' = OAddr(q_tile_idx)
    BY <2>1 DEF OutAddressInv
  <2>3. wr_cmd'.valid => wr_cmd'.addr = OAddr(q_tile_idx)
    BY <2>1 DEF Cmd
  <2>4. ASSUME o_write_cnt' > 0, w_state' \in {"W_ADDR", "W_DATA"}
        PROVE  aw_addr_r' = OAddr(q_tile_idx)
    <3>1. CASE AcceptWriteCmd(wr_cmd.valid, wr_cmd.addr, wr_cmd.len)
      BY <2>2, <3>1 DEF AcceptWriteCmd
    <3>2. CASE w_state \in {"W_ADDR", "W_DATA"}
      <4>1. aw_addr_r' = aw_addr_r
        BY <1>1, <3>2 DEF WriterClock, AcceptWriteCmd, wr_cmd_ready, SendAw, SendBeat,
                          TakeResponse, WriterHold
      <4>2. o_write_cnt > 0
        BY <1>1, <2>1, <2>4, <3>2 DEF wr_cmd_ready
      <4> QED
        BY <2>2, <3>2, <4>1, <4>2
    <3>3. CASE w_state \in {"W_IDLE", "W_RESP"} /\
               ~AcceptWriteCmd(wr_cmd.valid, wr_cmd.addr, wr_cmd.len)
      BY <1>1, <2>4, <3>3 DEF WriterClock, SendAw, awvalid, SendBeat, wvalid, TakeResponse,
                              WriterHold
    <3> QED
      BY <1>1, <3>1, <3>2, <3>3
  <2> QED
    BY <2>1, <2>2, <2>3, <2>4 DEF OutAddressInv
<1> QED
  BY <1>2, <1>3

\* What an edge does to memory: nothing, or the beat of the core goes to its place.
Handed(wready) == ms = "S_WRITE_O" /\ wr_data_valid /\ in_ready(wready)

\* Memory takes the beat the core hands over at its place in the tile, and nothing else.
LEMMA MemoryEdge ==
  ASSUME IInv, CoreWriterAgree, WriteBurstAgree, OutAddressInv,
         NEW start, NEW softReset, NEW arready, NEW rvalid, NEW awready, NEW wready,
         NEW bvalid, NEW recip, NEW advance, NEW beat,
         Turn(start, softReset, arready, rvalid, awready, wready, bvalid, recip, advance, beat)
  PROVE  IF Handed(wready)
         THEN \A a \in O_ADDRS :
                o_mem'[a] = IF a = OAddr(q_tile_idx) + (o_write_cnt - 1) THEN wr_data ELSE o_mem[a]
         ELSE o_mem' = o_mem
<1>1. WriteSlaveClock(awvalid /\ awready, aw_addr_r, aw_len_r,
                      wvalid(wr_data_valid) /\ wready, wr_data, bvalid /\ bready)
  BY DEF Turn
<1>2. CASE Handed(wready)
  <2>1. /\ ms = "S_WRITE_O" /\ o_write_cnt \in 1 .. BEATS_PER_TILE_Q
        /\ w_state = "W_DATA" /\ wready /\ wr_data_valid
    BY <1>2 DEF Handed, wr_data_valid, in_ready
  <2>2. /\ beat_cnt = o_write_cnt - 1
        /\ aw_addr_r = OAddr(q_tile_idx)
        /\ wr_addr = aw_addr_r + beat_cnt
    BY <2>1 DEF CoreWriterAgree, OutAddressInv, WriteBurstAgree
  <2>3. WriteData(wr_data)
    BY <1>1, <2>1 DEF WriteSlaveClock, awvalid, wvalid
  <2> QED
    BY <1>2, <2>2, <2>3 DEF WriteData
<1>3. CASE ~Handed(wready)
  <2>1. ~(wvalid(wr_data_valid) /\ wready)
    BY <1>3 DEF Handed, wvalid, wr_data_valid, in_ready
  <2>2. o_mem' = o_mem
    BY <1>1, <2>1 DEF WriteSlaveClock, WriteAddress
  <2> QED
    BY <1>3, <2>2
<1> QED
  BY <1>2, <1>3

\* The reserved region holds every beat of O.
OutputReserved == \A t \in 0 .. NUM_Q_TILES - 1, i \in QBeats : OAddr(t) + i \in O_ADDRS

\* Handing over the next beat of the tile.
LEMMA BeatOut ==
  ASSUME IInv, NormInv, CoreWriterAgree, WriteBurstAgree, OutAddressInv, OutInv, OutputReserved,
         NEW start, NEW softReset, NEW arready, NEW rvalid, NEW awready, NEW wready,
         NEW bvalid, NEW recip, NEW advance, NEW beat,
         Turn(start, softReset, arready, rvalid, awready, wready, bvalid, recip, advance, beat),
         Handed(wready)
  PROVE  /\ \A t \in 0 .. q_tile_idx - 1, i \in QBeats : Out(run, t, i)'
         /\ \A i \in 0 .. o_write_cnt - 1 : Out(run, q_tile_idx, i)'
<1>1. /\ ms = "S_WRITE_O" /\ o_write_cnt \in 1 .. BEATS_PER_TILE_Q
      /\ q_tile_idx \in 0 .. NUM_Q_TILES - 1 /\ NUM_Q_TILES \in Nat \ {0}
      /\ BEATS_PER_TILE_Q \in Nat \ {0}
  BY CoreAssumption DEF Handed, wr_data_valid, IInv, TypeOK, MasterTypeOK
<1>2. run' = run
  BY <1>1 DEF Turn, Accepts
<1>3. q_tile_idx' = q_tile_idx
  BY <1>1 DEF Turn, MasterClock, SoftReset, Idle, LoadQ, InitContext, LoadK, LoadV, Compute,
              Normalize, WriteO, NextQ, Done, tileVars
<1>4. PICK at, n : /\ n \in QBeats /\ n = o_write_cnt - 1
                   /\ at = OAddr(q_tile_idx) + n
  BY <1>1 DEF QBeats
<1>5. \A a \in O_ADDRS : o_mem'[a] = IF a = at THEN wr_data ELSE o_mem[a]
  BY <1>4, MemoryEdge
<1>6. Complete(run, q_tile_idx, BatchOf(n), wr_data)
  BY <1>1, <1>4, BatchInRange DEF NormInv, wr_data
<1>7. ASSUME NEW t \in 0 .. q_tile_idx - 1, NEW i \in QBeats
      PROVE  Out(run, t, i)'
  <2>1. Out(run, t, i)
    BY <1>1, <1>7 DEF OutInv, RunStages
  <2>2. OAddr(t) + i # at
    <3>1. t \in Nat /\ q_tile_idx \in Nat /\ t < q_tile_idx /\ n \in Nat
      BY <1>1, <1>4 DEF QBeats
    <3>2. OAddr(t) + i < at
      BY <1>4, <3>1, TilesApart
    <3>3. OAddr(t) \in Nat /\ OAddr(q_tile_idx) \in Nat /\ i \in Nat
      BY <3>1, TileAddresses DEF QBeats
    <3> QED
      BY <1>4, <3>1, <3>2, <3>3
  <2>3. OAddr(t) + i \in O_ADDRS
    <3>1. t \in 0 .. NUM_Q_TILES - 1
      BY <1>1
    <3> QED
      BY <3>1 DEF OutputReserved
  <2>4. o_mem'[OAddr(t) + i] = o_mem[OAddr(t) + i]
    BY <1>5, <2>2, <2>3
  <2> QED
    BY <1>2, <2>1, <2>4 DEF Out, Complete
<1>8. ASSUME NEW i \in 0 .. o_write_cnt - 1
      PROVE  Out(run, q_tile_idx, i)'
  <2>1. i \in QBeats /\ OAddr(q_tile_idx) + i \in O_ADDRS
    BY <1>1 DEF OutputReserved, QBeats
  <2>2. CASE i = n
    <3>1. o_mem'[OAddr(q_tile_idx) + i] = wr_data
      BY <1>4, <1>5, <2>1, <2>2
    <3> QED
      BY <1>2, <1>3, <1>6, <2>2, <3>1 DEF Out, Complete
  <2>3. CASE i # n
    <3>1. i \in 0 .. o_write_cnt - 2
      BY <1>1, <1>4, <2>3
    <3>2. Out(run, q_tile_idx, i)
      BY <1>1, <3>1 DEF OutInv
    <3>3. OAddr(q_tile_idx) + i # at
      BY <1>1, <1>4, <2>1, <2>3, TileAddresses DEF QBeats
    <3>4. o_mem'[OAddr(q_tile_idx) + i] = o_mem[OAddr(q_tile_idx) + i]
      BY <1>5, <2>1, <3>3
    <3> QED
      BY <1>2, <1>3, <3>2, <3>4 DEF Out, Complete
  <2> QED
    BY <2>2, <2>3
<1> QED
  BY <1>7, <1>8

\* The results in memory, kept at every edge.
LEMMA OutInvStep ==
  ASSUME IInv, NormInv, CoreWriterAgree, WriteBurstAgree, OutAddressInv, OutInv, OutputReserved,
         NEW start, NEW softReset, NEW arready, NEW rvalid, NEW awready, NEW wready,
         NEW bvalid, NEW recip, NEW advance, NEW beat,
         Turn(start, softReset, arready, rvalid, awready, wready, bvalid, recip, advance, beat)
  PROVE  OutInv'
<1>1. MasterClock(start, softReset, rd_cmd_ready, beat, wr_cmd_ready, in_ready(wready), recip)
  BY DEF Turn
<1>2. ms # "S_IDLE" => run' = run
  BY DEF Turn, Accepts
<1>3. /\ q_tile_idx \in 0 .. NUM_Q_TILES - 1 /\ NUM_Q_TILES \in Nat \ {0}
      /\ o_write_cnt \in Nat /\ BEATS_PER_TILE_Q \in Nat \ {0}
  BY CoreAssumption DEF IInv, TypeOK, MasterTypeOK
<1>4. ~Handed(wready) => o_mem' = o_mem
  BY MemoryEdge
<1>5. CASE softReset
  BY <1>1, <1>5 DEF MasterClock, SoftReset, Pulses, OutInv, RunStages
<1>6. CASE ~softReset /\ WriteO(wr_cmd_ready, in_ready(wready))
  <2>1. /\ ms = "S_WRITE_O" /\ q_tile_idx' = q_tile_idx /\ run' = run /\ ~o_done'
        /\ ms' \in {"S_WRITE_O", "S_NEXT_Q"}
    BY <1>2, <1>6 DEF WriteO, Pulses, tileVars
  <2>2. CASE Handed(wready)
    <3>1. /\ \A t \in 0 .. q_tile_idx - 1, i \in QBeats : Out(run, t, i)'
          /\ \A i \in 0 .. o_write_cnt - 1 : Out(run, q_tile_idx, i)'
      BY <2>2, BeatOut
    <3>2. /\ o_write_cnt' = o_write_cnt + 1
          /\ ms' = "S_NEXT_Q" => o_write_cnt = BEATS_PER_TILE_Q
      <4>1. wr_data_valid /\ in_ready(wready) /\ o_write_cnt # 0
        BY <1>3, <2>2 DEF Handed, wr_data_valid
      <4> QED
        BY <1>6, <4>1 DEF WriteO
    <3>3. 0 .. o_write_cnt' - 2 = 0 .. o_write_cnt - 1
      BY <1>3, <3>2
    <3> QED
      BY <2>1, <3>1, <3>2, <3>3 DEF OutInv, RunStages, QBeats
  <2>3. CASE ~Handed(wready)
    <3>1. /\ ms' = "S_WRITE_O" /\ o_mem' = o_mem
          /\ o_write_cnt' \in {0, 1, o_write_cnt}
      BY <1>4, <1>6, <2>3 DEF WriteO, Handed
    <3>2. \A i \in 0 .. o_write_cnt' - 2 : i \in 0 .. o_write_cnt - 2
      <4>1. PICK n \in Nat : n = o_write_cnt'
        BY <1>3, <3>1
      <4>2. ASSUME NEW i \in 0 .. n - 2 PROVE i \in 0 .. o_write_cnt - 2
        <5>1. i \in Nat /\ i <= n - 2
          OBVIOUS
        <5>2. n = 0 \/ n = 1 \/ n = o_write_cnt
          BY <3>1, <4>1
        <5> QED
          BY <1>3, <5>1, <5>2
      <4> QED
        BY <4>1, <4>2
    <3> QED
      BY <2>1, <3>1, <3>2 DEF OutInv, RunStages, Out, Complete
  <2> QED
    BY <2>2, <2>3
<1>7. CASE ~softReset /\ ~WriteO(wr_cmd_ready, in_ready(wready))
  <2>1. ~Handed(wready)
    BY <1>1, <1>7 DEF Handed, MasterClock, Idle, LoadQ, InitContext, LoadK, LoadV, Compute,
                      Normalize, NextQ, Done
  <2>2. o_mem' = o_mem
    BY <1>4, <2>1
  <2>3. CASE Idle(start)
    <3>1. /\ ~o_done'
          /\ ms' = "S_IDLE" \/ (ms' = "S_LOAD_Q" /\ q_tile_idx' = 0)
      BY <2>3 DEF Idle, Start, Pulses
    <3> QED
      BY <3>1 DEF OutInv, RunStages
  <2>4. CASE NextQ
    <3>1. /\ ms = "S_NEXT_Q" /\ run' = run /\ ~o_done'
          /\ IF q_tile_idx = NUM_Q_TILES - 1
             THEN ms' = "S_DONE"
             ELSE ms' = "S_LOAD_Q" /\ q_tile_idx' = q_tile_idx + 1
      BY <1>2, <2>4 DEF NextQ, Pulses
    <3>2. \A t \in 0 .. q_tile_idx, i \in QBeats : Out(run, t, i)
      BY <1>3, <3>1 DEF OutInv, RunStages
    <3>3. \A t \in 0 .. q_tile_idx, i \in QBeats : Out(run, t, i)'
      BY <2>2, <3>1, <3>2 DEF Out, Complete
    <3>4. q_tile_idx # NUM_Q_TILES - 1 => 0 .. q_tile_idx' - 1 = 0 .. q_tile_idx
      BY <1>3, <3>1
    <3> QED
      BY <3>1, <3>3, <3>4 DEF OutInv, RunStages
  <2>5. CASE Done
    <3>1. ms = "S_DONE" /\ run' = run /\ ms' = "S_IDLE"
      BY <1>2, <2>5 DEF Done
    <3> QED
      BY <2>2, <3>1 DEF OutInv, RunStages, Out, Complete
  <2>6. CASE ~Idle(start) /\ ~NextQ /\ ~Done
    <3>1. /\ ms \in RunStages \ {"S_WRITE_O", "S_NEXT_Q"}
          /\ ms' \in RunStages \ {"S_NEXT_Q"}
          /\ q_tile_idx' = q_tile_idx /\ ~o_done'
          /\ ms' = "S_WRITE_O" => o_write_cnt' = 0
      <4>1. CASE LoadQ(rd_cmd_ready, beat) \/ InitContext \/ LoadK(rd_cmd_ready, beat)
                 \/ LoadV(rd_cmd_ready, beat)
        BY <4>1 DEF LoadQ, InitContext, LoadK, LoadV, Pulses, tileVars, RunStages
      <4>2. CASE Compute(rd_cmd_ready, beat)
        BY <4>2 DEF Compute, LastTileDone, NextTile, SameTile, Pulses, RunStages
      <4>3. CASE Normalize(recip)
        BY <4>3 DEF Normalize, RequestRecip, TakeRecip, ScaleRow, Pulses, tileVars, RunStages
      <4> QED
        BY <1>1, <1>7, <2>6, <4>1, <4>2, <4>3 DEF MasterClock
    <3>2. run' = run
      BY <1>2, <3>1 DEF RunStages
    <3>3. \A t \in 0 .. q_tile_idx - 1, i \in QBeats : Out(run, t, i)
      BY <3>1 DEF OutInv
    <3>4. \A t \in 0 .. q_tile_idx - 1, i \in QBeats : Out(run, t, i)'
      BY <2>2, <3>2, <3>3 DEF Out, Complete
    <3>5. ms' = "S_WRITE_O" => 0 .. o_write_cnt' - 2 = {}
      BY <3>1
    <3> QED
      BY <3>1, <3>4, <3>5 DEF OutInv, RunStages
  <2> QED
    BY <2>3, <2>4, <2>5, <2>6
<1> QED
  BY <1>5, <1>6, <1>7
-----------------------------------------------------------------------------
(* What a run leaves in memory.                                            *)

\* What memory holds before anything is written is not a row.
UnwrittenIsNoRow == \A n, d : NoData # [num |-> n, den |-> d]

ResultInv ==
  /\ OperandInv
  /\ BurstInv /\ WriterPortInv
  /\ RowInv /\ NormInv /\ OutInv /\ OutAddressInv

\* The results' invariant holds at the start.
LEMMA InitResults == Init => ResultInv
<1> SUFFICES ASSUME Init PROVE ResultInv
  OBVIOUS
<1>1. OperandInv /\ BurstInv /\ WriterPortInv
  BY InitOperands, WriteInit
<1>2. RowInv /\ NormInv
  BY DEF Init, CoreInit, RowInv, NormInv
<1>3. OutInv /\ OutAddressInv
  BY DEF Init, CoreInit, OutInv, OutAddressInv, RunStages
<1> QED
  BY <1>1, <1>2, <1>3 DEF ResultInv

\* A step that changes nothing keeps the results.
LEMMA StutterResults ==
  ASSUME ResultInv, UNCHANGED vars
  PROVE  RowInv' /\ NormInv' /\ OutInv' /\ OutAddressInv'
<1>1. UNCHANGED <<coreVars, w_state, aw_addr_r, o_mem, run>>
  BY DEF vars, writerVars, writeSlaveVars
<1>2. UNCHANGED <<ms, q_tile_idx, k_tile_idx, cs, comp_done, comp_batch, comp_kj, eng_ctx,
                  row_ctx, norm_qi, norm_row_ready, norm_row_recip, o_buf, o_write_cnt, o_done,
                  wr_cmd, w_state, aw_addr_r, o_mem, run>>
  BY <1>1 DEF coreVars, tileVars, engineVars, normVars
<1>3. RowInv'
  BY <1>2 DEF ResultInv, RowInv, RowHolds, EngineHolds, Computed
<1>4. NormInv'
  BY <1>2 DEF ResultInv, NormInv, Complete
<1>5. OutInv'
  BY <1>2 DEF ResultInv, OutInv, Out, Complete
<1>6. OutAddressInv'
  BY <1>2 DEF ResultInv, OutAddressInv
<1> QED
  BY <1>3, <1>4, <1>5, <1>6

\* Every step keeps them.
LEMMA NextResults ==
  ASSUME HOST_RESETS # "any", BEATS_PER_TILE_Q <= AW_LEN_MOD, OutputReserved, UnwrittenIsNoRow,
         ResultInv, [Next]_vars
  PROVE  ResultInv'
<1>1. /\ OperandInv /\ OperandInv'
      /\ IInv /\ WorkInv /\ LoadInv /\ TypeOK
      /\ BurstInv /\ WriterPortInv /\ RowInv /\ NormInv /\ OutInv /\ OutAddressInv
  BY NextOperands DEF ResultInv, OperandInv, IInv
<1>2. CASE UNCHANGED vars
  BY <1>1, <1>2, WriteStutter, StutterResults DEF ResultInv
<1>3. CASE Next
  <2>1. PICK start, softReset, arready, rvalid, awready, wready, bvalid, recip, advance, beat :
          Turn(start, softReset, arready, rvalid, awready, wready, bvalid, recip, advance, beat)
    BY <1>1, <1>3, TurnParts
  <2>2. BurstInv' /\ WriterPortInv'
    BY <1>1, <1>3, BurstNext, WriterPortNext
  <2>3. RowInv'
    <3>1. CASE cs # "C_IDLE" \/ comp_start
      BY <1>1, <2>1, <3>1, RowsWhileComputing
    <3>2. CASE cs = "C_IDLE" /\ ~comp_start
      BY <1>1, <2>1, <3>2, RowsBetweenTiles
    <3> QED
      BY <3>1, <3>2
  <2>4. NormInv'
    BY <1>1, <2>1, NormInvStep DEF UnwrittenIsNoRow
  <2>5. CoreWriterAgree /\ WriteBurstAgree
    BY <1>1 DEF WriterPortInv, BurstInv
  <2>6. OutInv'
    BY <1>1, <2>1, <2>5, OutInvStep
  <2>7. OutAddressInv'
    BY <1>1, <2>1, <2>5, OutAddressStep
  <2> QED
    BY <1>1, <2>2, <2>3, <2>4, <2>6, <2>7 DEF ResultInv
<1> QED
  BY <1>2, <1>3

\* All the keys of a run are all that softmax(QK^T)V asks for.
LEMMA AllKeys ==
  ASSUME NEW t, NEW b
  PROVE  Expected(t, b) = KeysBefore(run, t, b, NUM_K_TILES)
<1>1. \A x : x \in Expected(t, b) <=>
              \E u \in 0 .. NUM_K_TILES - 1, j \in KVBeats : x = Key(run, t, b, u, j)
  BY SMT DEF Expected, Key, TagFor
<1>2. ASSUME NEW x \in KeysBefore(run, t, b, NUM_K_TILES)
      PROVE  x \in Expected(t, b)
  <2>1. PICK u \in 0 .. NUM_K_TILES - 1, j \in KVBeats : x = Key(run, t, b, u, j)
    BY DEF KeysBefore
  <2> QED
    BY <1>1, <2>1
<1>3. ASSUME NEW x \in Expected(t, b)
      PROVE  x \in KeysBefore(run, t, b, NUM_K_TILES)
  <2>1. PICK u \in 0 .. NUM_K_TILES - 1, j \in KVBeats : x = Key(run, t, b, u, j)
    BY <1>1
  <2> QED
    BY <2>1 DEF KeysBefore
<1> QED
  BY <1>2, <1>3

\* When the core reports done, memory holds every beat of O at its address, divided by its
\* own sum, and made of every key of this run and nothing else: for every number and size
\* of tiles and every timing, if a Q tile fits in one burst of the write DMA, the host
\* reserved the O region, and soft resets stay out of the compute machine's and the write
\* DMA's work.
THEOREM DoneAfterWriting ==
  ASSUME HOST_RESETS # "any", BEATS_PER_TILE_Q <= AW_LEN_MOD, OutputReserved, UnwrittenIsNoRow
  PROVE  Spec => []DoneMeansWritten
<1>1. ResultInv => DoneMeansWritten
  <2>1. SUFFICES ASSUME ResultInv, o_done,
                        NEW t \in 0 .. NUM_Q_TILES - 1, NEW i \in QBeats
                 PROVE  OutputIsComplete(t, i)
    BY DEF DoneMeansWritten
  <2>2. Out(run, t, i)
    BY <2>1 DEF ResultInv, OutInv
  <2> QED
    BY <2>2, AllKeys DEF Out, Complete, OutputIsComplete
<1>2. ResultInv /\ [Next]_vars => ResultInv'
  BY NextResults
<1> QED
  BY InitResults, <1>1, <1>2, PTL DEF Spec

-----------------------------------------------------------------------------
(* No key twice.                                                           *)

\* A key that is not among those of the tiles before, nor among those before it.
LEMMA NewKey ==
  ASSUME NEW r, NEW t, NEW b, NEW u \in Nat, NEW n \in Nat
  PROVE  Key(r, t, b, u, n) \notin KeysBefore(r, t, b, u) \cup KeysOf(r, t, b, u, n)
<1>1. ASSUME NEW w \in 0 .. u - 1, NEW j \in KVBeats, Key(r, t, b, u, n) = Key(r, t, b, w, j)
      PROVE  FALSE
  <2>1. <<t, u>> = <<t, w>>
    BY <1>1 DEF Key
  <2> QED
    BY <2>1
<1>2. ASSUME NEW j \in 0 .. n - 1, Key(r, t, b, u, n) = Key(r, t, b, u, j)
      PROVE  FALSE
  <2>1. [run |-> r, addr |-> KAddr(u) + n] = [run |-> r, addr |-> KAddr(u) + j]
    BY <1>2 DEF Key
  <2>2. PICK a \in Nat : a = KAddr(u)
    <3>1. u * BEATS_PER_TILE_KV \in Nat
      BY CoreAssumption
    <3> QED
      BY <3>1, CoreAssumption DEF KAddr
  <2> QED
    BY <2>1, <2>2
<1>3. Key(r, t, b, u, n) \notin KeysBefore(r, t, b, u)
  BY <1>1 DEF KeysBefore
<1>4. Key(r, t, b, u, n) \notin KeysOf(r, t, b, u, n)
  BY <1>2 DEF KeysOf
<1> QED
  BY <1>3, <1>4

\* The compute machine at work.
LEMMA OnceWhileComputing ==
  ASSUME FAST_MEMORY, IInv, WorkInv, LoadInv, OnceInv, cs # "C_IDLE" \/ comp_start,
         NEW start, NEW softReset, NEW arready, NEW rvalid, NEW awready, NEW wready,
         NEW bvalid, NEW recip, NEW advance, NEW beat,
         Turn(start, softReset, arready, rvalid, awready, wready, bvalid, recip, advance, beat)
  PROVE  OnceInv'
<1>1. /\ ms = "S_COMPUTE" /\ ~comp_done
      /\ Compute(rd_cmd_ready, beat) /\ SameTile(rd_cmd_ready, beat)
      /\ row_ctx' = IF RetiresBatch(advance)
                    THEN [row_ctx EXCEPT ![comp_batch] = eng_ctx] ELSE row_ctx
      /\ run' = run
  BY Working DEF WorkInv
<1>2. /\ ms' = "S_COMPUTE" /\ q_tile_idx' = q_tile_idx /\ k_tile_idx' = k_tile_idx
      /\ EngineClock(advance)
      /\ cs' = "C_DONE" => k_tile_idx = NUM_K_TILES - 1 \/ pf_state' = "PF_DONE"
  BY <1>1 DEF Compute, SameTile, Turn, PrefetchKeepsUp
<1>3. /\ row_ctx = [b \in Batches |-> row_ctx[b]]
      /\ comp_batch \in Batches /\ comp_kj \in 0 .. BEATS_PER_TILE_KV
      /\ k_tile_idx \in Nat /\ BEATS_PER_TILE_KV \in Nat \ {0} /\ NUM_BATCHES \in Nat \ {0}
      /\ cs \in {"C_IDLE", "C_DP_RUN", "C_DONE"}
  BY CoreAssumption DEF WorkInv, RowsOK, IInv, TypeOK, EngineTypeOK, MasterTypeOK
<1>4. /\ \A b \in Batches : row_ctx[b].again = {}
      /\ \A b \in Batches :
           ~Computed(b) => row_ctx[b].once \subseteq KeysBefore(run, q_tile_idx, b, k_tile_idx)
      /\ cs = "C_DP_RUN" /\ comp_kj > 0 =>
           /\ eng_ctx.again = {}
           /\ eng_ctx.once \subseteq KeysBefore(run, q_tile_idx, comp_batch, k_tile_idx)
                               \cup KeysOf(run, q_tile_idx, comp_batch, k_tile_idx, comp_kj)
  BY <1>1 DEF OnceInv
<1>5. CASE Launch
  <2>1. ~RetiresBatch(advance) /\ cs = "C_IDLE" /\ cs' = "C_DP_RUN" /\ comp_kj' = 0
        /\ comp_batch' = 0 /\ ~comp_done'
    BY <1>1, <1>5 DEF Launch, RetiresBatch
  <2>2. \A b \in Batches : ~Computed(b)
    BY <1>1, <2>1 DEF Computed
  <2>3. row_ctx' = row_ctx
    BY <1>1, <2>1
  <2> QED
    BY <1>2, <1>4, <1>1, <2>1, <2>2, <2>3 DEF OnceInv
<1>6. CASE ConsumeKey(advance)
  <2>1. /\ cs = "C_DP_RUN" /\ comp_kj \in KVBeats
        /\ comp_kj' = comp_kj + 1 /\ ~comp_done'
        /\ UNCHANGED <<cs, comp_batch, row_ctx>>
        /\ eng_ctx' = Accumulate(IF comp_kj = 0 THEN row_ctx[comp_batch] ELSE eng_ctx,
                                 Contribution(comp_batch, comp_kj))
    BY <1>1, <1>3, <1>6 DEF ConsumeKey, RetiresBatch, KVBeats
  <2>2. \A b \in Batches : Computed(b)' => Computed(b)
    BY <2>1 DEF Computed
  <2>3. \A b \in Batches : Computed(b) => Computed(b)'
    BY <1>1, <2>1 DEF Computed
  <2>4. PICK before, sofar, next, key :
          /\ before = KeysBefore(run, q_tile_idx, comp_batch, k_tile_idx)
          /\ sofar = KeysOf(run, q_tile_idx, comp_batch, k_tile_idx, comp_kj)
          /\ next = KeysOf(run, q_tile_idx, comp_batch, k_tile_idx, comp_kj + 1)
          /\ key = Key(run, q_tile_idx, comp_batch, k_tile_idx, comp_kj)
    OBVIOUS
  <2>5. PICK ctx : ctx = IF comp_kj = 0 THEN row_ctx[comp_batch] ELSE eng_ctx
    OBVIOUS
  <2>6. ctx.again = {} /\ ctx.once \subseteq before \cup sofar
    <3>1. CASE comp_kj = 0
      <4>1. ~Computed(comp_batch)
        BY <1>1, <1>3, <2>1 DEF Computed, Batches
      <4> QED
        BY <1>3, <1>4, <2>4, <2>5, <3>1, <4>1
    <3>2. CASE comp_kj # 0
      <4>1. comp_kj > 0
        BY <1>3, <3>2
      <4> QED
        BY <1>4, <2>1, <2>4, <2>5, <3>2, <4>1
    <3> QED
      BY <3>1, <3>2
  <2>7. key \notin before \cup sofar /\ next = sofar \cup {key}
    <3>1. comp_kj \in Nat
      BY <1>3
    <3> QED
      BY <1>3, <2>4, <3>1, NewKey, KeysGrow
  <2>8. eng_ctx' = Accumulate(ctx, key)
    BY <1>1, <2>1, <2>4, <2>5, ContributionIsKey
  <2>9. eng_ctx'.again = {} /\ eng_ctx'.once \subseteq before \cup next
    BY <2>6, <2>7, <2>8 DEF Accumulate
  <2> QED
    BY <1>1, <1>2, <1>4, <2>1, <2>2, <2>3, <2>4, <2>9 DEF OnceInv
<1>7. CASE RetireBatch(advance)
  <2>1. /\ cs = "C_DP_RUN" /\ comp_kj = BEATS_PER_TILE_KV /\ ~comp_done'
        /\ row_ctx' = [row_ctx EXCEPT ![comp_batch] = eng_ctx]
        /\ IF comp_batch = NUM_BATCHES - 1
           THEN cs' = "C_DONE"
           ELSE cs' = "C_DP_RUN" /\ comp_batch' = comp_batch + 1 /\ comp_kj' = 0
    BY <1>1, <1>7 DEF RetireBatch, RetiresBatch
  <2>2. eng_ctx.again = {}
    BY <1>3, <1>4, <2>1
  <2>3. \A b \in Batches : row_ctx'[b].again = {}
    BY <1>3, <1>4, <2>1, <2>2
  <2>4. ASSUME NEW b \in Batches, ~Computed(b)'
        PROVE  row_ctx'[b].once \subseteq KeysBefore(run, q_tile_idx, b, k_tile_idx)
    <3>1. cs' = "C_DP_RUN" /\ comp_batch' = comp_batch + 1 /\ ~(b < comp_batch + 1)
      BY <2>1, <2>4 DEF Computed
    <3>2. b # comp_batch /\ ~(b < comp_batch)
      BY <1>3, <3>1 DEF Batches
    <3>3. ~Computed(b)
      BY <1>1, <2>1, <3>2 DEF Computed
    <3>4. row_ctx'[b] = row_ctx[b]
      BY <1>3, <2>1, <3>2
    <3> QED
      BY <1>4, <3>3, <3>4
  <2>5. cs' = "C_DP_RUN" => ~(comp_kj' > 0)
    BY <2>1
  <2> QED
    BY <1>1, <1>2, <2>1, <2>3, <2>4, <2>5 DEF OnceInv
<1>8. CASE InFlight(advance)
  <2>1. UNCHANGED <<cs, comp_batch, comp_kj, eng_ctx, row_ctx>> /\ cs = "C_DP_RUN" /\ ~comp_done'
    BY <1>1, <1>8 DEF InFlight, RetiresBatch
  <2>2. \A b \in Batches : Computed(b)' <=> Computed(b)
    BY <1>1, <2>1 DEF Computed
  <2> QED
    BY <1>1, <1>2, <1>4, <2>1, <2>2 DEF OnceInv
<1>9. CASE Finish
  <2>1. cs = "C_DONE" /\ cs' = "C_IDLE" /\ comp_done' /\ row_ctx' = row_ctx
    BY <1>1, <1>9 DEF Finish, RetiresBatch
  <2>2. k_tile_idx = NUM_K_TILES - 1 \/ pf_state = "PF_DONE"
    BY <2>1 DEF OnceInv
  <2>3. pf_state = "PF_DONE" => pf_state' = "PF_DONE"
    BY <1>1 DEF SameTile, PrefetchNext
  <2>4. \A b \in Batches : Computed(b)'
    BY <2>1 DEF Computed
  <2> QED
    BY <1>2, <1>4, <2>1, <2>2, <2>3, <2>4 DEF OnceInv
<1> QED
  BY <1>2, <1>5, <1>6, <1>7, <1>8, <1>9 DEF EngineClock

\* Between two tiles, and before the first.
LEMMA OnceBetweenTiles ==
  ASSUME IInv, WorkInv, RowInv, OnceInv, cs = "C_IDLE", ~comp_start,
         NEW start, NEW softReset, NEW arready, NEW rvalid, NEW awready, NEW wready,
         NEW bvalid, NEW recip, NEW advance, NEW beat,
         Turn(start, softReset, arready, rvalid, awready, wready, bvalid, recip, advance, beat)
  PROVE  OnceInv'
<1>1. /\ cs' = "C_IDLE" /\ ~comp_done'
      /\ row_ctx' = IF ~softReset /\ ms = "S_INIT_CONTEXT" THEN FreshRows ELSE row_ctx
  BY AtRest
<1>2. MasterClock(start, softReset, rd_cmd_ready, beat, wr_cmd_ready, in_ready(wready), recip)
      /\ (ms # "S_IDLE" => run' = run)
  BY DEF Turn, Accepts
<1>3. \A b \in Batches : row_ctx'[b].again = {}
  BY <1>1 DEF FreshRows, FreshCtx, OnceInv
<1> SUFFICES ASSUME ms' = "S_COMPUTE", NEW b \in Batches
             PROVE  row_ctx'[b].once \subseteq KeysBefore(run', q_tile_idx', b, k_tile_idx')
  BY <1>1, <1>3 DEF OnceInv
<1>4. CASE LoadV(rd_cmd_ready, beat)
  <2>1. ms = "S_LOAD_V" /\ row_ctx = FreshRows
    BY <1>4 DEF LoadV, RowInv
  <2>2. row_ctx'[b].once = {}
    BY <1>1, <2>1 DEF FreshRows, FreshCtx
  <2> QED
    BY <2>2
<1>5. CASE Compute(rd_cmd_ready, beat)
  <2>1. /\ ms = "S_COMPUTE" /\ row_ctx' = row_ctx /\ q_tile_idx' = q_tile_idx /\ run' = run
        /\ RowHolds(b)
        /\ ~Computed(b) => row_ctx[b].once \subseteq KeysBefore(run, q_tile_idx, b, k_tile_idx)
    BY <1>1, <1>2, <1>5 DEF Compute, RowInv, OnceInv
  <2>2. CASE NextTile
    <3>1. k_tile_idx' = k_tile_idx + 1
      BY <2>2 DEF NextTile
    <3> QED
      BY <2>1, <3>1 DEF RowHolds
  <2>3. CASE SameTile(rd_cmd_ready, beat)
    <3>1. ~comp_done /\ k_tile_idx' = k_tile_idx
      BY <2>3 DEF SameTile, OnceInv
    <3>2. ~Computed(b)
      BY <3>1 DEF Computed
    <3> QED
      BY <2>1, <3>1, <3>2
  <2>4. ~LastTileDone
    BY DEF LastTileDone
  <2> QED
    BY <1>5, <2>2, <2>3, <2>4 DEF Compute
<1>6. ~(\/ SoftReset \/ Idle(start) \/ LoadQ(rd_cmd_ready, beat) \/ InitContext
        \/ LoadK(rd_cmd_ready, beat) \/ Normalize(recip)
        \/ WriteO(wr_cmd_ready, in_ready(wready)) \/ NextQ \/ Done)
  BY DEF SoftReset, Idle, Start, LoadQ, InitContext, LoadK, Normalize, RequestRecip, TakeRecip,
         ScaleRow, WriteO, NextQ, Done
<1> QED
  BY <1>2, <1>4, <1>5, <1>6 DEF MasterClock

\* With memory fast enough that the next tile is always there in time, no key is
\* accumulated twice: for every number and size of tiles and every timing that keeps the
\* prefetches in time.
THEOREM ComputedOnce ==
  ASSUME HOST_RESETS # "any", FAST_MEMORY
  PROVE  Spec => []AccumulatedOnce
<1> DEFINE Inv == OperandInv /\ RowInv /\ OnceInv
<1>1. Init => Inv
  <2> SUFFICES ASSUME Init PROVE Inv
    OBVIOUS
  <2>1. OperandInv
    BY InitOperands
  <2>2. RowInv /\ OnceInv
    BY DEF Init, CoreInit, RowInv, OnceInv, FreshRows, FreshCtx
  <2> QED
    BY <2>1, <2>2
<1>2. Inv => AccumulatedOnce
  BY DEF OnceInv, AccumulatedOnce
<1>3. Inv /\ [Next]_vars => Inv'
  <2> SUFFICES ASSUME Inv, [Next]_vars PROVE Inv'
    OBVIOUS
  <2>1. OperandInv' /\ IInv /\ WorkInv /\ LoadInv /\ RowInv /\ OnceInv
    BY NextOperands DEF OperandInv, IInv
  <2>2. CASE UNCHANGED vars
    <3>1. UNCHANGED <<ms, q_tile_idx, k_tile_idx, pf_state, cs, comp_done, comp_batch, comp_kj,
                      eng_ctx, row_ctx, run>>
      BY <2>2 DEF vars, coreVars, tileVars, engineVars, pfVars
    <3>2. RowInv' /\ OnceInv'
      BY <2>1, <3>1 DEF RowInv, RowHolds, EngineHolds, Computed, OnceInv
    <3> QED
      BY <2>1, <3>2
  <2>3. CASE Next
    <3>1. PICK start, softReset, arready, rvalid, awready, wready, bvalid, recip, advance, beat :
            Turn(start, softReset, arready, rvalid, awready, wready, bvalid, recip, advance, beat)
      BY <2>1, <2>3, TurnParts
    <3>2. CASE cs # "C_IDLE" \/ comp_start
      BY <2>1, <3>1, <3>2, RowsWhileComputing, OnceWhileComputing
    <3>3. CASE cs = "C_IDLE" /\ ~comp_start
      BY <2>1, <3>1, <3>3, RowsBetweenTiles, OnceBetweenTiles
    <3> QED
      BY <2>1, <3>2, <3>3
  <2> QED
    BY <2>2, <2>3
<1> QED
  BY <1>1, <1>2, <1>3, PTL DEF Spec
=============================================================================
