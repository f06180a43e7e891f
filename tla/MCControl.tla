------------------------------ MODULE MCControl ------------------------------
(***************************************************************************)
(* Small instance: two stages, one plain register, every combination of    *)
(* START and SOFT_RESET in a write of CTRL.                                *)
(***************************************************************************)
EXTENDS ControlProperties

MCStages == {"S_LOAD_Q", "S_WRITE_O"}
MCCounters == MCStages \cup {"busy_cycles"}
MCPlainRegs == {"CFG"}
MCResetWord == [a \in MCPlainRegs |-> {}]
MCFreeWrites ==
  {Write("CTRL", w) : w \in SUBSET {START, SOFT_RESET}}
    \cup {ClearWrite, Write("CFG", {0}), Write("CFG", {1})}
=============================================================================
