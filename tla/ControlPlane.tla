---------------------------- MODULE ControlPlane ----------------------------
(***************************************************************************)
(* Host, register file, performance counters and core as the top level     *)
(* wires them.  Every step is one clock edge.  The host is either a driver *)
(* that goes through start, poll and clear one transaction at a time, as   *)
(* the sequences of the benches do, or any master ("FREE") that issues     *)
(* writes without waiting for answers.  Either may let the three write     *)
(* channels move at different times.                                       *)
(***************************************************************************)
EXTENDS RunControl, AxiLiteRegs, PerfCounters, Sequences

CONSTANTS
  FREE_WRITES,        \* the writes of a free host, records of addr and word
  MAX_ISSUED,         \* bound: writes of a free host, starts of a driver
  MAX_OUTSTANDING,    \* bound: writes a free host leaves unanswered
  MAX_CYCLES          \* bound: cycles in which a run works

ASSUME PlaneAssumption ==
  /\ FREE_WRITES \subseteq [addr : Addresses, word : Words]
  /\ STAGES \cup {"busy_cycles"} \subseteq COUNTERS
  /\ "busy_cycles" \notin STAGES

VARIABLES
  cycle_counter,      \* the core's count of working cycles, read as CYCLES
  aw_q, w_q,          \* addresses and words issued, not yet accepted
  b_due,              \* writes issued, not yet answered
  reading,            \* "none", "addr" or "data": the host's read of STATUS
  d_state,            \* where the driver is, or "FREE"
  issued,
  start_writes        \* writes of START done so far

hostVars == <<aw_q, w_q, b_due, reading, d_state, issued>>
vars == <<runControlVars, regsVars, perfVars, hostVars, cycle_counter, start_writes>>

Init ==
  /\ RunControlInit
  /\ RegsInit
  /\ PerfInit
  /\ cycle_counter = 0
  /\ aw_q = <<>> /\ w_q = <<>> /\ b_due = 0
  /\ reading = "none"
  /\ d_state \in {"READY", "FREE"}
  /\ issued = 0
  /\ start_writes = 0

-----------------------------------------------------------------------------
(* The core's cycle counter, and the events of the cycle that are counted: *)
(* a counter per stage, and one for all of them.                           *)

CycleCounter(start, softReset) ==
  cycle_counter' =
    IF ~softReset /\ start /\ ms = "S_IDLE" /\ ~o_busy THEN 0
    ELSE IF ~softReset /\ ms \in STAGES THEN cycle_counter + 1
    ELSE cycle_counter

Happening ==
  [c \in COUNTERS |-> IF ms \in STAGES /\ c \in {ms, "busy_cycles"} THEN 1 ELSE 0]

-----------------------------------------------------------------------------
(* The host.                                                               *)

Write(addr, word) == [addr |-> addr, word |-> word]
NoWrite == Write("none", {})
StartWrite == Write("CTRL", {START})
ResetWrite == Write("CTRL", {SOFT_RESET})
ClearWrite == Write("STATUS", {DONE})

\* What the host may write next: a driver starts, gives a run up, clears DONE.
Writes ==
  CASE d_state = "FREE" /\ issued < MAX_ISSUED /\ b_due < MAX_OUTSTANDING -> FREE_WRITES
    [] d_state = "READY" /\ issued < MAX_ISSUED -> {StartWrite}
    [] d_state = "POLLING" /\ reading = "none" -> {ResetWrite}
    [] d_state = "SEEN" -> {ClearWrite}
    [] OTHER -> {}

DriverNext(write, bFire, seesDone) ==
  CASE d_state = "READY" /\ write # NoWrite             -> "STARTING"
    [] d_state = "STARTING" /\ bFire                 -> "POLLING"
    [] d_state = "POLLING" /\ write # NoWrite           -> "RESETTING"
    [] d_state = "POLLING" /\ seesDone               -> "SEEN"
    [] d_state = "SEEN" /\ write # NoWrite              -> "CLEARING"
    [] d_state = "SEEN" /\ write = NoWrite              -> "READY"
    [] d_state \in {"RESETTING", "CLEARING"} /\ bFire -> "READY"
    [] OTHER                                         -> d_state

\* A queue the host works off, given whether its head is accepted and what is issued.
Queue(q, fire, write, entry) ==
  LET rest == IF fire THEN Tail(q) ELSE q
  IN IF write = NoWrite THEN rest ELSE Append(rest, entry)

HostClock(write, read, awFire, wFire, bFire, arFire, rFire) ==
  /\ aw_q' = Queue(aw_q, awFire, write, write.addr)
  /\ w_q' = Queue(w_q, wFire, write, write.word)
  /\ b_due' = b_due + (IF write = NoWrite THEN 0 ELSE 1) - (IF bFire THEN 1 ELSE 0)
  /\ reading' = IF read THEN "addr"
                ELSE IF arFire THEN "data"
                ELSE IF rFire THEN "none" ELSE reading
  /\ d_state' = DriverNext(write, bFire, rFire /\ DONE \in StatusWord(o_busy))
  /\ issued' = IF write # NoWrite /\ (d_state = "FREE" \/ write = StartWrite)
               THEN issued + 1 ELSE issued

-----------------------------------------------------------------------------
Choice(looking) == IF looking THEN BOOLEAN ELSE {FALSE}

AWValid == Choice(aw_q # <<>> /\ awready)
WValid  == Choice(w_q # <<>> /\ wready)
BReady  == Choice(bvalid)
ARValid == Choice(reading = "addr" /\ arready)
RReady  == Choice(rvalid)

NextStages == IF ms \in STAGES /\ cycle_counter + 1 < MAX_CYCLES
              THEN STAGES \cup {"S_DONE"} ELSE {"S_DONE"}

Clock(write, read, awvalid, wvalid, bready, arvalid, rready, next) ==
  /\ RunControlClock(o_start_pulse, o_soft_reset, next)
  /\ CycleCounter(o_start_pulse, o_soft_reset)
  /\ RegsClock(awvalid, IF awvalid THEN Head(aw_q) ELSE "none",
               wvalid, IF wvalid THEN Head(w_q) ELSE {}, bready, arvalid, rready, o_done)
  /\ PerfClock(o_start_pulse, o_soft_reset, Happening)
  /\ HostClock(write, read, awvalid, wvalid, bready, arvalid, rready)
  /\ start_writes' = IF write_fire /\ StartsRun(awaddr_latched, wdata_latched)
                     THEN start_writes + 1 ELSE start_writes

Edge(write, read) ==
  \E awvalid \in AWValid, wvalid \in WValid, bready \in BReady, arvalid \in ARValid,
     rready \in RReady, next \in NextStages :
    Clock(write, read, awvalid, wvalid, bready, arvalid, rready, next)

\* Edges at which the host begins nothing, writes or reads.
Tick == Edge(NoWrite, FALSE)
IssueWrite == \E w \in Writes : Edge(w, FALSE)
IssueRead == reading = "none" /\ d_state = "POLLING" /\ Edge(NoWrite, TRUE)

Next == Tick \/ IssueWrite \/ IssueRead

Spec == Init /\ [][Next]_vars

(***************************************************************************)
(* Fairness.  The clock never stops, the master carries out what it issued *)
(* (it presents address and data, takes answers), a driver keeps polling,  *)
(* and a run ends if it is left alone (RunEnds of AttentionProperties).    *)
(***************************************************************************)
MasterFair ==
  /\ WF_vars(Tick /\ aw_q' # aw_q)
  /\ WF_vars(Tick /\ w_q' # w_q)
  /\ WF_vars(Tick /\ b_due' # b_due)
  /\ WF_vars(Tick /\ reading' # reading)
  /\ WF_vars(IssueRead)

FairSpec ==
  Spec /\ WF_vars(Tick) /\ MasterFair /\ WF_vars(Tick /\ ms \in STAGES /\ ms' = "S_DONE")

=============================================================================
