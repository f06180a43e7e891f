----------------------------- MODULE RunControl -----------------------------
(***************************************************************************)
(* The attention core as the host sees it: idle, busy with some stage of a *)
(* run for as long as it takes, done for one cycle.  What the stages do is *)
(* left open; AttentionSystem implements this module with its master FSM.  *)
(***************************************************************************)
CONSTANTS
  STAGES,         \* the states of the master FSM between start and done
  FIRST_STAGE     \* the one a start leads to

ASSUME StageAssumption ==
  /\ FIRST_STAGE \in STAGES
  /\ STAGES \cap {"S_IDLE", "S_DONE"} = {}

VARIABLES
  ms,       \* state of the master FSM
  o_busy,
  o_done

runControlVars == <<ms, o_busy, o_done>>

RunControlInit ==
  /\ ms = "S_IDLE"
  /\ o_busy = FALSE
  /\ o_done = FALSE

Abort ==
  /\ ms' = "S_IDLE"
  /\ o_busy' = FALSE
  /\ o_done' = FALSE

\* A start is looked at in S_IDLE only; elsewhere it is lost.
Begin(start) ==
  /\ ms = "S_IDLE"
  /\ start /\ ~o_busy
  /\ ms' = FIRST_STAGE
  /\ o_busy' = TRUE
  /\ o_done' = FALSE

Rest(start) ==
  /\ ms = "S_IDLE"
  /\ ~(start /\ ~o_busy)
  /\ o_done' = FALSE
  /\ UNCHANGED <<ms, o_busy>>

Work(next) ==
  /\ ms \in STAGES
  /\ ms' = next
  /\ o_done' = FALSE
  /\ UNCHANGED o_busy

Complete ==
  /\ ms = "S_DONE"
  /\ ms' = "S_IDLE"
  /\ o_busy' = FALSE
  /\ o_done' = TRUE

\* One clock edge; next is the state the work of a stage leads to.
RunControlClock(start, softReset, next) ==
  IF softReset THEN Abort
  ELSE Begin(start) \/ Rest(start) \/ Work(next) \/ Complete

RunControlSpec ==
  /\ RunControlInit
  /\ [][\E start, softReset \in BOOLEAN, next \in STAGES \cup {"S_DONE"} :
          RunControlClock(start, softReset, next)]_runControlVars
=============================================================================
