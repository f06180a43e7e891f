---------------------------- MODULE PerfCounters ----------------------------
(***************************************************************************)
(* The performance counters, rtl/top/fa_perf_counters.sv: one that counts  *)
(* starts, and COUNTERS, which all count events of their own and are       *)
(* cleared together.  The RTL's 32-bit wrap-around is left out.            *)
(***************************************************************************)
EXTENDS Naturals

CONSTANT COUNTERS

VARIABLES
  o_run_count,
  perf            \* the counters that cover one run

perfVars == <<o_run_count, perf>>

PerfInit ==
  /\ o_run_count = 0
  /\ perf = [c \in COUNTERS |-> 0]

ClearAll == perf' = [c \in COUNTERS |-> 0]

PerfSoftReset ==
  /\ ClearAll
  /\ UNCHANGED o_run_count

\* Mutant of PerfStart: the counters of one run go on in the next.
PerfStartAccumulates ==
  /\ o_run_count' = o_run_count + 1
  /\ UNCHANGED perf

PerfStart ==
  /\ o_run_count' = o_run_count + 1
  /\ ClearAll

\* inc[c] is what happened in this cycle of the events c counts.
CountEvents(inc) ==
  /\ perf' = [c \in COUNTERS |-> perf[c] + inc[c]]
  /\ UNCHANGED o_run_count

PerfClock(runStart, softReset, inc) ==
  IF softReset THEN PerfSoftReset
  ELSE IF runStart THEN PerfStart
  ELSE CountEvents(inc)
=============================================================================
