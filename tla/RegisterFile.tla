---------------------------- MODULE RegisterFile ----------------------------
(***************************************************************************)
(* What the register file promises a master on the bus: writes take effect *)
(* one at a time, each once, in the order in which they were issued and    *)
(* with their own data, and are answered after that.  There are no         *)
(* channels and no latches here.                                           *)
(***************************************************************************)
EXTENDS Naturals, Sequences

CONSTANTS
  WRITES,                     \* what a master writes, records of addr and word
  INITIAL_REGS,               \* register contents after reset
  Stored(_, _, _),            \* contents after a write
  StartsRun(_, _),            \* whether a write pulses start
  ClearsDone(_, _)            \* whether a write clears DONE

VARIABLES
  pending,        \* writes issued and not yet done, oldest first
  owed,           \* writes done and not yet answered
  regs, done, started

registerFileVars == <<pending, owed, regs, done, started>>

RegisterFileInit ==
  /\ pending = <<>>
  /\ owed = 0
  /\ regs = INITIAL_REGS
  /\ done = FALSE
  /\ started = FALSE

\* In one cycle the oldest write may be done, an answer taken and a write issued; the
\* core may report the end of a run.
RegisterFileStep(arrived, perform, answer, coreDone) ==
  LET w == Head(pending) IN
  /\ perform => pending # <<>>
  /\ answer => owed > 0
  /\ pending' = (IF perform THEN Tail(pending) ELSE pending) \o arrived
  /\ owed' = owed + (IF perform THEN 1 ELSE 0) - (IF answer THEN 1 ELSE 0)
  /\ regs' = IF perform THEN Stored(regs, w.addr, w.word) ELSE regs
  /\ started' = (perform /\ StartsRun(w.addr, w.word))
  /\ done' = (coreDone \/ (done /\ ~(perform /\ ClearsDone(w.addr, w.word))))

RegisterFileNext ==
  \E arrived \in {<<>>} \cup {<<w>> : w \in WRITES}, perform, answer, coreDone \in BOOLEAN :
    RegisterFileStep(arrived, perform, answer, coreDone)

RegisterFileSpec == RegisterFileInit /\ [][RegisterFileNext]_registerFileVars
=============================================================================
