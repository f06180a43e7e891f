----------------------------- MODULE BeatStream -----------------------------
(***************************************************************************)
(* What a read DMA promises its client: a command for n beats from address *)
(* a is answered with the beats a, a+1, ..., a+n-1 in this order, each     *)
(* once, the n-th and only the n-th flagged as last, before another        *)
(* command is taken.  Nothing is said of bursts.                           *)
(***************************************************************************)
EXTENDS Naturals

VARIABLES
  left,     \* beats of the command in progress still to be delivered
  next,     \* address of the next one, 0 when there is none
  taken     \* the last beat delivered: [addr, last]

streamVars == <<left, next, taken>>

Nothing == [addr |-> 0, last |-> FALSE]

StreamInit == left = 0 /\ next = 0 /\ taken = Nothing

Request ==
  /\ left = 0
  /\ left' \in Nat \ {0}
  /\ next' \in Nat
  /\ UNCHANGED taken

Deliver ==
  /\ left > 0
  /\ left' = left - 1
  /\ next' = IF left = 1 THEN 0 ELSE next + 1
  /\ taken' = [addr |-> next, last |-> left = 1]

StreamNext == Request \/ Deliver

StreamSpec == StreamInit /\ [][StreamNext]_streamVars
=============================================================================
