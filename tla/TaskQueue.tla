----------------------------- MODULE TaskQueue -----------------------------
(* What the task queue runtime promises. Tasks wait in the order in which   *)
(* they were accepted. While a call is under way they are run in that       *)
(* order, each once and each as a whole: its output matrix becomes what the *)
(* C reference model computes from the operands as they are at that time.   *)
(* Tasks are given up only all together, by clear or by a call that         *)
(* answers false. Between calls the caller may write its matrices.          *)
EXTENDS CModel

CONSTANTS
  HeadDim,
  Buffers,   \* the caller's matrices
  Matrices,  \* what the caller writes into them
  Tasks      \* the tasks it may accept, all of them valid

VARIABLES mode, memory, pending, busy, answer

queueVars == <<mode, memory, pending, busy, answer>>

Matrix(memory_, rows) ==
  Evaluated([i \in 0 .. rows - 1 |-> [d \in 0 .. HeadDim - 1 |-> memory_[i * HeadDim + d]]])

\* The output of the model for the operands q, k and v; hard: masked keys are
\* passed over. The result does not depend on the tile sizes, so tiles of one
\* row and one key stand for all that divide the sequence.
ReferenceRows(mode_, q, k, v, n, scale, causal, neg_large, hard) ==
  Applied(LAMBDA in : online_rtl_like(in.q, in.k, in.v, n, 1, 1, scale, causal,
                                      mode_, neg_large, hard),
          [q |-> Matrix(q, n), k |-> Matrix(k, n), v |-> Matrix(v, n)])

ReferenceOutput(t) ==
  LET stored(rows) == [e \in DOMAIN memory[t.o] |->
                         IF e \div HeadDim < t.seq_len THEN rows[e \div HeadDim][e % HeadDim]
                                                       ELSE memory[t.o][e]]
  IN  Applied(stored,
              ReferenceRows(IF mode = "strict_q8_8" THEN "RTL_STRICT" ELSE "RTL_CTX_STEP_ACC24",
                            memory[t.q], memory[t.k], memory[t.v], t.seq_len, t.scale, t.causal,
                            t.neg_large, FALSE))

Init == pending = <<>> /\ busy = FALSE /\ answer = TRUE

\* The call that accepts a task goes on to run what waits, or answers true.
Accept ==
  /\ ~busy
  /\ \E t \in Tasks : pending' = Append(pending, t)
  /\ busy' \/ answer'
  /\ UNCHANGED <<mode, memory>>

Execute ==
  /\ busy /\ pending # <<>>
  /\ pending' = Tail(pending)
  /\ UNCHANGED <<mode, busy, answer>>
  /\ memory' = [memory EXCEPT ![Head(pending).o] = ReferenceOutput(Head(pending))]

GiveUp ==
  /\ pending # <<>> /\ pending' = <<>>
  /\ busy => answer' = FALSE
  /\ busy' = FALSE
  /\ UNCHANGED <<mode, memory>>

\* A call begins or ends: one that ran tasks and answers true has run them all.
Answer ==
  /\ busy' # busy \/ answer' # answer
  /\ busy /\ answer' => pending = <<>>
  /\ UNCHANGED <<mode, memory, pending>>

Write ==
  /\ ~busy
  /\ \E b \in Buffers, m \in Matrices : memory' = [memory EXCEPT ![b] = m]
  /\ UNCHANGED <<mode, pending, busy, answer>>

Next == Accept \/ Execute \/ GiveUp \/ Answer \/ Write

Spec == Init /\ [][Next]_queueVars
=============================================================================
