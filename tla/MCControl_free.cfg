SPECIFICATION Spec
CONSTANTS
  STAGES <- MCStages
  FIRST_STAGE = "S_LOAD_Q"
  PLAIN_REGS <- MCPlainRegs
  RESET_WORD <- MCResetWord
  COUNTERS <- MCCounters
  FREE_WRITES <- MCFreeWrites
  MAX_ISSUED = 3
  MAX_OUTSTANDING = 2
  MAX_CYCLES = 2
INVARIANTS
  RunCountIsStartWrites
