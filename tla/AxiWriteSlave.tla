--------------------------- MODULE AxiWriteSlave ---------------------------
(***************************************************************************)
(* The memory behind the AXI write channels, which is not part of the      *)
(* repository: a slave that accepts an address, takes the beats of that    *)
(* burst in order and answers with one response.                           *)
(***************************************************************************)
EXTENDS Naturals

CONSTANTS
  O_ADDRS,      \* the beat addresses the host reserved for O
  NoData        \* what an O address holds before anything is written

VARIABLES
  wr_left,      \* beats of the current write burst still to come, 0 if none
  wr_addr,      \* address of the next one
  b_pending,    \* a finished write burst whose response is still to be given
  o_mem         \* contents of the O region

writeSlaveVars == <<wr_left, wr_addr, b_pending, o_mem>>

WriteSlaveInit ==
  /\ wr_left = 0
  /\ wr_addr = 0
  /\ b_pending = FALSE
  /\ o_mem = [a \in O_ADDRS |-> NoData]

WriteAddress(awaddr, awlen) ==
  /\ wr_left' = awlen + 1
  /\ wr_addr' = awaddr
  /\ UNCHANGED o_mem

\* A write outside the reserved region lands in memory that is not modelled.
WriteData(data) ==
  /\ wr_left' = wr_left - 1
  /\ wr_addr' = wr_addr + 1
  /\ o_mem' = [a \in O_ADDRS |-> IF a = wr_addr THEN data ELSE o_mem[a]]

\* One clock edge.  The response becomes available with the burst's last beat.
WriteSlaveClock(awFire, awaddr, awlen, wFire, data, bFire) ==
  /\ IF awFire THEN WriteAddress(awaddr, awlen)
     ELSE IF wFire THEN WriteData(data)
     ELSE UNCHANGED <<wr_left, wr_addr, o_mem>>
  /\ b_pending' = ((wFire /\ wr_left = 1) \/ (b_pending /\ ~bFire))
=============================================================================
