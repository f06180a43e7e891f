---------------------------- MODULE ReadChannel ----------------------------
(***************************************************************************)
(* The read DMA wired to a memory: what is common to the attention IP and  *)
(* to the DMA on its own.  cmd is the command port of the reader,          *)
(* outReady the ready signal of its client.                                *)
(*                                                                         *)
(* The memory behind the AXI read channels is not part of the repository:  *)
(* any slave that accepts an address and then returns the beats of that    *)
(* burst in order.  The read DMA has one burst in flight, so one burst is  *)
(* all the slave has to remember.  A beat is tagged with the run for which *)
(* its address was accepted, since the host may reload the operands        *)
(* between two runs.                                                       *)
(***************************************************************************)
EXTENDS DmaReader

VARIABLES
  rd_left,      \* beats of the current burst still to be returned
  rd_addr,      \* address of the next one
  rd_run        \* the run in which the burst's address was accepted

readSlaveVars == <<rd_left, rd_addr, rd_run>>

ReadSlaveInit == rd_left = 0 /\ rd_addr = 0 /\ rd_run = 0

ReadBeat == [run |-> rd_run, addr |-> rd_addr]

ReadAddress(araddr, arlen, run) ==
  /\ rd_left' = arlen + 1
  /\ rd_addr' = araddr
  /\ rd_run' = run

ReadData ==
  /\ rd_left' = rd_left - 1
  /\ rd_addr' = rd_addr + 1
  /\ UNCHANGED rd_run

\* One clock edge: the AR handshake, the R handshake, or neither.
ReadSlaveClock(arFire, araddr, arlen, rFire, run) ==
  IF arFire THEN ReadAddress(araddr, arlen, run)
  ELSE IF rFire THEN ReadData
  ELSE UNCHANGED readSlaveVars

-----------------------------------------------------------------------------
channelVars == <<readerVars, readSlaveVars>>

ReadChannelClock(cmd, arready, rvalid, rerr, outReady, tag) ==
  /\ ReaderClock(cmd.valid, cmd.addr, cmd.len, arready, rvalid, rerr, outReady)
  /\ ReadSlaveClock(arvalid /\ arready, ar_addr_r, ar_len_r, rvalid /\ outReady, tag)

\* Reader and memory count the same beats: the memory has exactly the rest of the
\* current burst to deliver, that burst is within the command, and it ends where
\* the address register says the next one starts.
BurstAgree ==
  /\ rd_left = IF ar_state = "AR_STREAM" THEN burst_beats_r ELSE 0
  /\ ar_state # "AR_IDLE" => burst_beats_r \in 1 .. total_beats_left_r
  /\ ar_state = "AR_IDLE" => total_beats_left_r = 0
  /\ ar_state = "AR_SEND" => burst_beats_r = ar_len_r + 1
  /\ ar_state = "AR_STREAM" => rd_addr + burst_beats_r = ar_addr_r + ar_len_r + 1

\* Bursts are as long as they can be, so a command of n beats takes the fewest bursts
\* AXI allows: whenever an address is offered, the burst is a full one or all the
\* rest.
MaximalBursts ==
  ar_state = "AR_SEND" => ar_len_r + 1 = ClipBurst(total_beats_left_r)
=============================================================================
