------------------------- MODULE ControlProperties -------------------------
(***************************************************************************)
(* What the register file, the counters and the core promise a host, over  *)
(* ControlPlane.                                                           *)
(***************************************************************************)
EXTENDS ControlPlane, FiniteSetsExt

\* Registers, counters and queues keep their types.
ControlTypeOK ==
  /\ ms \in STAGES \cup {"S_IDLE", "S_DONE"}
  /\ o_busy \in BOOLEAN /\ o_done \in BOOLEAN
  /\ aw_seen \in BOOLEAN /\ w_seen \in BOOLEAN /\ bvalid \in BOOLEAN /\ rvalid \in BOOLEAN
  /\ awaddr_latched \in Addresses /\ wdata_latched \in Words
  /\ reg \in [{"CTRL"} \cup PLAIN_REGS -> Words]
  /\ done_sticky \in BOOLEAN /\ o_start_pulse \in BOOLEAN
  /\ o_run_count \in Nat /\ perf \in [COUNTERS -> Nat] /\ cycle_counter \in Nat
  /\ aw_q \in Seq(Addresses) /\ w_q \in Seq(Words) /\ b_due \in Nat
  /\ reading \in {"none", "addr", "data"}

-----------------------------------------------------------------------------
(* The bus.                                                                *)

\* The writes that were issued and have not taken effect: latched or still with the
\* host, addresses and words each in their own queue.
Undone ==
  LET addrs == (IF aw_seen THEN <<awaddr_latched>> ELSE <<>>) \o aw_q
      words == (IF w_seen THEN <<wdata_latched>> ELSE <<>>) \o w_q
  IN [i \in 1 .. Min({Len(addrs), Len(words)}) |-> Write(addrs[i], words[i])]

RF == INSTANCE RegisterFile WITH
  WRITES <- FREE_WRITES \cup {StartWrite, ResetWrite, ClearWrite},
  INITIAL_REGS <- [a \in {"CTRL"} \cup PLAIN_REGS |-> IF a = "CTRL" THEN {} ELSE RESET_WORD[a]],
  pending <- Undone,
  owed <- IF bvalid THEN 1 ELSE 0,
  regs <- reg, done <- done_sticky, started <- o_start_pulse

\* Although address and data come over channels of their own, each with a latch that
\* fills before, after or together with the other's, every write takes effect exactly
\* once, in order, with its own data, and is answered after it has.
ImplementsRegisterFile == RF!RegisterFileSpec

\* A host that carries on gets an answer to every write: no order of the channels and
\* no pipelining of writes makes the register file and the host wait for each other.
WritesAnswered == b_due > 0 ~> b_due = 0

-----------------------------------------------------------------------------
(* The driver.                                                             *)

\* From the moment its start is answered until it has seen the end or given up, a
\* driver that polls is told the truth about the run it started: DONE is set if and
\* only if that run is over, whatever the runs before it left behind and however
\* the end of a run and the clearing of DONE fall together.
PollingSeesTheRun ==
  d_state = "POLLING" => (done_sticky <=> ms = "S_IDLE" /\ ~o_busy /\ ~o_done)

\* Every start of a driver is served: it sees DONE, or gives the run up.
DriverServed == d_state = "STARTING" ~> d_state \in {"SEEN", "RESETTING"}

-----------------------------------------------------------------------------
(* The counters.                                                           *)

\* During a run of a driver the per-run counters cover that run from its first cycle,
\* as the core's own cycle counter does, and the stages add up to the whole.
CountersCoverRun ==
  d_state # "FREE" /\ (ms # "S_IDLE" \/ d_state = "SEEN") =>
    /\ perf["busy_cycles"] = cycle_counter
    /\ perf["busy_cycles"] = MapThenSumSet(LAMBDA c : perf[c], STAGES)

\* What dv/uvm/env/fa_scoreboard.sv compares: the run counter and the number of writes
\* to CTRL with the START bit, once the pulse of the last one has passed.
RunCountIsStartWrites == ~o_start_pulse => o_run_count = start_writes

\* The same for the driver, which never sets START and SOFT_RESET together.
DriverRunsCounted == d_state # "FREE" => RunCountIsStartWrites
=============================================================================
