----------------------------- MODULE DmaWriter -----------------------------
(***************************************************************************)
(* The AXI4 write DMA, rtl/bus/fa_dma_writer.sv: one command, one burst.   *)
(* Its cmd_len port has AXI_LEN_W bits while the core drives 16, so the    *)
(* length is kept modulo AW_LEN_MOD; the beat counter wraps likewise.      *)
(* Ports are the parameters of WriterClock.                                *)
(***************************************************************************)
EXTENDS Naturals

CONSTANT AW_LEN_MOD     \* 2^AXI_LEN_W

ASSUME AwLenAssumption == AW_LEN_MOD \in Nat \ {0}

VARIABLES
  w_state,      \* "W_IDLE", "W_ADDR", "W_DATA" or "W_RESP"
  aw_addr_r,    \* beat address of the burst
  aw_len_r,     \* beats - 1 of the burst
  beat_cnt,     \* beats of the burst already transferred
  wr_error      \* sticky: some B response other than OKAY

writerVars == <<w_state, aw_addr_r, aw_len_r, beat_cnt, wr_error>>

WriterInit ==
  /\ w_state = "W_IDLE"
  /\ aw_addr_r = 0
  /\ aw_len_r = 0
  /\ beat_cnt = 0
  /\ wr_error = FALSE

-----------------------------------------------------------------------------
(* Combinational outputs.                                                  *)

\* Mutant of wr_cmd_ready: ready again before the response is in.
ReadyBeforeResponse == w_state \in {"W_IDLE", "W_RESP"}

wr_cmd_ready     == w_state = "W_IDLE"
awvalid          == w_state = "W_ADDR"
wvalid(inValid)  == w_state = "W_DATA" /\ inValid
wlast            == beat_cnt = aw_len_r
in_ready(wready) == w_state = "W_DATA" /\ wready
bready           == w_state = "W_RESP"

-----------------------------------------------------------------------------
AcceptWriteCmd(cmdValid, cmdAddr, cmdLen) ==
  /\ wr_cmd_ready
  /\ cmdValid
  /\ w_state' = "W_ADDR"
  /\ aw_addr_r' = cmdAddr
  /\ aw_len_r' = cmdLen % AW_LEN_MOD
  /\ beat_cnt' = 0

SendAw(awready) ==
  /\ awvalid
  /\ awready
  /\ w_state' = "W_DATA"
  /\ UNCHANGED <<aw_addr_r, aw_len_r, beat_cnt>>

\* Mutant of SendBeat: a beat counts as sent although the memory was not ready.
CountsWithoutReady(inValid, wready) ==
  /\ wvalid(inValid)
  /\ beat_cnt' = (beat_cnt + 1) % AW_LEN_MOD
  /\ w_state' = IF wlast THEN "W_RESP" ELSE "W_DATA"
  /\ UNCHANGED <<aw_addr_r, aw_len_r>>

SendBeat(inValid, wready) ==
  /\ wvalid(inValid)
  /\ wready
  /\ beat_cnt' = (beat_cnt + 1) % AW_LEN_MOD
  /\ w_state' = IF wlast THEN "W_RESP" ELSE "W_DATA"
  /\ UNCHANGED <<aw_addr_r, aw_len_r>>

TakeResponse(bvalid) ==
  /\ bready
  /\ bvalid
  /\ w_state' = "W_IDLE"
  /\ UNCHANGED <<aw_addr_r, aw_len_r, beat_cnt>>

WriterHold(cmdValid, inValid, awready, wready, bvalid) ==
  /\ w_state = "W_IDLE" => ~cmdValid
  /\ w_state = "W_ADDR" => ~awready
  /\ w_state = "W_DATA" => ~(inValid /\ wready)
  /\ w_state = "W_RESP" => ~bvalid
  /\ UNCHANGED <<w_state, aw_addr_r, aw_len_r, beat_cnt>>

WriterError(bvalid, berr) ==
  wr_error' = (wr_error \/ (bready /\ bvalid /\ berr))

WriterClock(cmdValid, cmdAddr, cmdLen, inValid, awready, wready, bvalid, berr) ==
  /\ \/ AcceptWriteCmd(cmdValid, cmdAddr, cmdLen)
     \/ SendAw(awready)
     \/ SendBeat(inValid, wready)
     \/ TakeResponse(bvalid)
     \/ WriterHold(cmdValid, inValid, awready, wready, bvalid)
  /\ WriterError(bvalid, berr)

-----------------------------------------------------------------------------
WriterTypeOK ==
  /\ w_state \in {"W_IDLE", "W_ADDR", "W_DATA", "W_RESP"}
  /\ aw_addr_r \in Nat
  /\ aw_len_r \in 0 .. AW_LEN_MOD - 1
  /\ beat_cnt \in 0 .. AW_LEN_MOD - 1
  /\ wr_error \in BOOLEAN
=============================================================================
