---------------------------- MODULE AxiLiteRegs ----------------------------
(***************************************************************************)
(* The register file, rtl/bus/fa_axi_lite_regs.sv.  A word is the set of   *)
(* its bits that are 1, so that CTRL = {START, SOFT_RESET} and the like    *)
(* can be written; registers that only hold what was written to them are   *)
(* PLAIN_REGS.  Every part of the always_ff block is one operator.         *)
(***************************************************************************)
EXTENDS Naturals

CONSTANTS
  PLAIN_REGS,     \* CFG, the bases, STRIDE_BYTES, NEG_LARGE, SCALE
  RESET_WORD      \* their values after reset

\* Bits of CTRL and STATUS.
START == 0
SOFT_RESET == 1
IRQ_EN == 2
BUSY == 0
DONE == 1

Words == SUBSET {0, 1, 2}
Addresses == {"CTRL", "STATUS"} \cup PLAIN_REGS

ASSUME RegsAssumption ==
  /\ PLAIN_REGS \cap {"CTRL", "STATUS", "none"} = {}
  /\ RESET_WORD \in [PLAIN_REGS -> Words]

VARIABLES
  aw_seen, awaddr_latched,      \* the write address channel and its one-deep latch
  w_seen, wdata_latched,        \* the write data channel, likewise
  bvalid, rvalid,
  reg,                          \* CTRL and the plain registers
  done_sticky,
  o_start_pulse

writeChannelVars == <<aw_seen, awaddr_latched, w_seen, wdata_latched>>
regsVars == <<writeChannelVars, bvalid, rvalid, reg, done_sticky, o_start_pulse>>

RegsInit ==
  /\ aw_seen = FALSE /\ awaddr_latched = "CTRL"
  /\ w_seen = FALSE /\ wdata_latched = {}
  /\ bvalid = FALSE
  /\ rvalid = FALSE
  /\ reg = [a \in {"CTRL"} \cup PLAIN_REGS |-> IF a = "CTRL" THEN {} ELSE RESET_WORD[a]]
  /\ done_sticky = FALSE
  /\ o_start_pulse = FALSE

-----------------------------------------------------------------------------
(* Combinational outputs.                                                  *)

awready == ~aw_seen
wready  == ~w_seen
arready == ~rvalid

write_fire == aw_seen /\ w_seen /\ ~bvalid

o_soft_reset == SOFT_RESET \in reg["CTRL"]

\* STATUS as a read finds it.
StatusWord(busy) == {b \in {BUSY, DONE} : (b = BUSY /\ busy) \/ (b = DONE /\ done_sticky)}

-----------------------------------------------------------------------------
(* What a write does.                                                      *)

StartsRun(addr, word) == addr = "CTRL" /\ START \in word

\* Mutant of ClearsDone: a start leaves the flag of the run before.
ClearsDoneOnStatusOnly(addr, word) == addr = "STATUS" /\ DONE \in word

ClearsDone(addr, word) == StartsRun(addr, word) \/ (addr = "STATUS" /\ DONE \in word)

\* Mutant of Stored: the bits of CTRL can be set but not taken back.
StoredNeverCleared(regs, addr, word) ==
  [a \in DOMAIN regs |->
     IF a # addr THEN regs[a]
     ELSE IF a = "CTRL" THEN regs[a] \cup (word \cap {SOFT_RESET, IRQ_EN}) ELSE word]

\* CTRL keeps SOFT_RESET and IRQ_EN; START is not stored.
Stored(regs, addr, word) ==
  [a \in DOMAIN regs |->
     IF a # addr THEN regs[a]
     ELSE IF a = "CTRL" THEN word \cap {SOFT_RESET, IRQ_EN} ELSE word]

-----------------------------------------------------------------------------
(* The always_ff block.  A channel that is accepted cannot fire at the     *)
(* same edge, since it was not seen before.                                *)

AddressChannel(awvalid, awaddr) ==
  IF awvalid /\ awready
  THEN aw_seen' = TRUE /\ awaddr_latched' = awaddr
  ELSE aw_seen' = (aw_seen /\ ~write_fire) /\ UNCHANGED awaddr_latched

\* Mutant of DataChannel: a write leaves its data behind for the next one.
DataChannelKeeps(wvalid, wdata) ==
  IF wvalid /\ wready
  THEN w_seen' = TRUE /\ wdata_latched' = wdata
  ELSE UNCHANGED <<w_seen, wdata_latched>>

DataChannel(wvalid, wdata) ==
  IF wvalid /\ wready
  THEN w_seen' = TRUE /\ wdata_latched' = wdata
  ELSE w_seen' = (w_seen /\ ~write_fire) /\ UNCHANGED wdata_latched

PerformWrite ==
  /\ reg' = IF write_fire THEN Stored(reg, awaddr_latched, wdata_latched) ELSE reg
  /\ o_start_pulse' = (write_fire /\ StartsRun(awaddr_latched, wdata_latched))

\* Mutant of WriteResponse: the response is withdrawn whether or not it was taken.
ResponseForOneCycle(bready) == bvalid' = write_fire
\* Mutant of WriteResponse: the response stays after it was taken.
ResponseStays(bready) == bvalid' = (write_fire \/ bvalid)

WriteResponse(bready) == bvalid' = (write_fire \/ (bvalid /\ ~bready))

ReadResponse(arvalid, rready) == rvalid' = ((arvalid /\ arready) \/ (rvalid /\ ~rready))

\* Mutant of DoneFlag: the flag lasts as long as the core's pulse.
DoneFlagNotSticky(done) == done_sticky' = done

\* The assignment under i_done is the last one: it wins over a clear.
DoneFlag(done) ==
  done_sticky' = (done \/ (done_sticky /\
                    ~(write_fire /\ ClearsDone(awaddr_latched, wdata_latched))))

RegsClock(awvalid, awaddr, wvalid, wdata, bready, arvalid, rready, done) ==
  /\ AddressChannel(awvalid, awaddr)
  /\ DataChannel(wvalid, wdata)
  /\ PerformWrite
  /\ WriteResponse(bready)
  /\ ReadResponse(arvalid, rready)
  /\ DoneFlag(done)
=============================================================================
