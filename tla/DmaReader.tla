----------------------------- MODULE DmaReader -----------------------------
(***************************************************************************)
(* The AXI4 read DMA, rtl/bus/fa_dma_reader.sv.  One command asks for a    *)
(* run of consecutive beats; the reader splits it into INCR bursts of at   *)
(* most MAX_BURST_BEATS beats and passes the R channel through to the      *)
(* core, flagging the last beat of the whole command.                      *)
(*                                                                         *)
(* Addresses are counted in beats.  The ports of the Verilog module are    *)
(* the parameters of ReaderClock, one application of which is one rising   *)
(* clock edge; combinational outputs are state functions.                  *)
(***************************************************************************)
EXTENDS Naturals

CONSTANT MAX_BURST_BEATS    \* 1 << AXI_LEN_W, the longest AXI burst

ASSUME BurstAssumption == MAX_BURST_BEATS \in Nat \ {0}

VARIABLES
  ar_state,             \* "AR_IDLE", "AR_SEND" or "AR_STREAM"
  ar_addr_r,            \* first beat address of the current burst
  ar_len_r,             \* beats - 1 of the current burst
  total_beats_left_r,   \* beats of the command not yet transferred
  burst_beats_r,        \* beats of the burst not yet transferred
  rd_error              \* sticky: some R beat had a response other than OKAY

readerVars ==
  <<ar_state, ar_addr_r, ar_len_r, total_beats_left_r, burst_beats_r, rd_error>>

ReaderInit ==
  /\ ar_state = "AR_IDLE"
  /\ ar_addr_r = 0
  /\ ar_len_r = 0
  /\ total_beats_left_r = 0
  /\ burst_beats_r = 0
  /\ rd_error = FALSE

-----------------------------------------------------------------------------
(* Combinational outputs.                                                  *)

\* Mutant of rd_cmd_ready: another command is taken while data still streams.
ReadyWhileStreaming == ar_state # "AR_SEND"
\* Mutant of arvalid: a length of zero is read as nothing to ask for.
NoSingleBeatBurst == ar_state = "AR_SEND" /\ ar_len_r # 0
\* Mutant of out_last: the last beat of a burst is taken for that of the command.
LastOfBurst == burst_beats_r = 1
\* Mutant of ClipBurst: the AXI limit is forgotten.
Unclipped(beats) == beats

rd_cmd_ready == ar_state = "AR_IDLE"
arvalid      == ar_state = "AR_SEND"
out_last     == total_beats_left_r = 1

ClipBurst(beats) == IF beats > MAX_BURST_BEATS THEN MAX_BURST_BEATS ELSE beats

-----------------------------------------------------------------------------
(* One always_ff case arm per action.                                      *)

AcceptCmd(cmdValid, cmdAddr, cmdLen) ==
  /\ rd_cmd_ready
  /\ cmdValid
  /\ ar_state' = "AR_SEND"
  /\ ar_addr_r' = cmdAddr
  /\ ar_len_r' = ClipBurst(cmdLen + 1) - 1
  /\ total_beats_left_r' = cmdLen + 1
  /\ burst_beats_r' = ClipBurst(cmdLen + 1)

SendAr(arready) ==
  /\ arvalid
  /\ arready
  /\ ar_state' = "AR_STREAM"
  /\ UNCHANGED <<ar_addr_r, ar_len_r, total_beats_left_r, burst_beats_r>>

\* The last beat of the command: back to AR_IDLE, whatever the burst counter says.
LastBeat ==
  /\ total_beats_left_r = 1
  /\ ar_state' = "AR_IDLE"
  /\ burst_beats_r' = 0
  /\ UNCHANGED <<ar_addr_r, ar_len_r>>

\* Mutant of NextBurst: sized with the count from before this beat.
NextBurstStaleCount ==
  /\ total_beats_left_r # 1
  /\ burst_beats_r = 1
  /\ ar_state' = "AR_SEND"
  /\ ar_addr_r' = ar_addr_r + ar_len_r + 1
  /\ burst_beats_r' = ClipBurst(total_beats_left_r)
  /\ ar_len_r' = ClipBurst(total_beats_left_r) - 1

\* The last beat of a burst that is not the last of the command: the next burst
\* starts where this one ended.
NextBurst ==
  /\ total_beats_left_r # 1
  /\ burst_beats_r = 1
  /\ ar_state' = "AR_SEND"
  /\ ar_addr_r' = ar_addr_r + ar_len_r + 1
  /\ burst_beats_r' = ClipBurst(total_beats_left_r - 1)
  /\ ar_len_r' = ClipBurst(total_beats_left_r - 1) - 1

InnerBeat ==
  /\ total_beats_left_r # 1
  /\ burst_beats_r # 1
  /\ burst_beats_r' = burst_beats_r - 1
  /\ UNCHANGED <<ar_state, ar_addr_r, ar_len_r>>

StreamBeat(rvalid, outReady) ==
  /\ ar_state = "AR_STREAM"
  /\ rvalid
  /\ outReady
  /\ total_beats_left_r' = total_beats_left_r - 1
  /\ LastBeat \/ NextBurst \/ InnerBeat

ReaderHold(cmdValid, arready, rvalid, outReady) ==
  /\ ar_state = "AR_IDLE" => ~cmdValid
  /\ ar_state = "AR_SEND" => ~arready
  /\ ar_state = "AR_STREAM" => ~(rvalid /\ outReady)
  /\ UNCHANGED <<ar_state, ar_addr_r, ar_len_r, total_beats_left_r, burst_beats_r>>

\* The error flag has an always_ff of its own; nothing but rst_n clears it.
ReaderError(rvalid, outReady, rerr) ==
  rd_error' = (rd_error \/ (rvalid /\ outReady /\ rerr))

ReaderClock(cmdValid, cmdAddr, cmdLen, arready, rvalid, rerr, outReady) ==
  /\ \/ AcceptCmd(cmdValid, cmdAddr, cmdLen)
     \/ SendAr(arready)
     \/ StreamBeat(rvalid, outReady)
     \/ ReaderHold(cmdValid, arready, rvalid, outReady)
  /\ ReaderError(rvalid, outReady, rerr)

-----------------------------------------------------------------------------
ReaderTypeOK ==
  /\ ar_state \in {"AR_IDLE", "AR_SEND", "AR_STREAM"}
  /\ ar_addr_r \in Nat
  /\ ar_len_r \in 0 .. MAX_BURST_BEATS - 1
  /\ total_beats_left_r \in Nat
  /\ burst_beats_r \in 0 .. MAX_BURST_BEATS
  /\ rd_error \in BOOLEAN
=============================================================================
