------------------------------- MODULE MCHost -------------------------------
(* Values for TLC. Head dimension 2; tiles of 8 queries (two batches of two *)
(* row pairs) and 4 keys; sequences of 8 and 16 for the runtime, and of 3   *)
(* and 11 for the runner, whose last tiles, batches and pairs are partly    *)
(* filled; a score stream of 2 packets. Floats have 3 bits of exponent and  *)
(* 3 of fraction, fixed-point words 6 bits, 2 of them fraction.             *)
EXTENDS HostSystem

CONSTANTS qa, ka, va, o1, o2, null

MCBuffers == {qa, ka, va, o1, o2}

\* Numbers that differ from row to row and column to column, below 2^11.
Pattern(a, b, m) == [e \in 0 .. MaxSeqLen * HeadDim - 1 |-> ((a * e * e + b * e) % (2 * m + 1)) - m]

QMatrix == Pattern(37, 101, 400)
KMatrix == Pattern(53, 17, 500)
\* The values grow from row to row, so that a weight on a later key shows.
VMatrix == [e \in 0 .. MaxSeqLen * HeadDim - 1 |->
              Pattern(29, 211, 900)[e] + 60 * (e \div HeadDim)]
ZMatrix == [e \in 0 .. MaxSeqLen * HeadDim - 1 |-> 0]

MCMemory == qa :> QMatrix @@ ka :> KMatrix @@ va :> VMatrix @@ o1 :> ZMatrix @@ o2 :> ZMatrix
MCRewritten == {ka}
MCMatrices == {QMatrix}

\* The default of the tasks and of the runner, -8.
MCNegLarge == -2048

Task(q, o, n, causal_, neg_large_) ==
  [q |-> q, k |-> ka, v |-> va, o |-> o, seq_len |-> n, stride_bytes |-> 2 * HeadDim,
   scale |-> 181, neg_large |-> neg_large_, causal |-> causal_, profile |-> causal_]

\* Two tasks of which one reads what the other writes, a longer one, and one
\* that is refused.
MCTasks ==
  {Task(qa, o1, 8, TRUE, MCNegLarge), Task(o1, o2, 8, FALSE, MCNegLarge),
   Task(qa, o2, 16, TRUE, LowMask), Task(qa, o2, 12, TRUE, LowMask)}

MCOptions ==
  {[mode |-> m, queue_depth |-> 2, xrt_built |-> m # "strict_q8_8"] : m \in RuntimeModes}
    \cup {[mode |-> "xrt", queue_depth |-> 0, xrt_built |-> b] : b \in BOOLEAN}

RunnerCase(n, causal_, verify_) ==
  [opt |-> [xclbin |-> TRUE, seq_len |-> n, causal |-> causal_, verify |-> verify_],
   operands |-> [q |-> QMatrix, k |-> KMatrix, v |-> VMatrix]]

MCRunnerCases ==
  {RunnerCase(3, TRUE, TRUE), RunnerCase(11, TRUE, FALSE), RunnerCase(11, FALSE, TRUE),
   RunnerCase(17, TRUE, FALSE)}

GemvTaskDesc(x, w, y, in, out_) ==
  [x_offset |-> x, w_offset |-> w, y_offset |-> y, in_dim |-> in, out_dim |-> out_]

\* Tasks that share their input, overlap in their output, one whose vector is
\* longer than x_local, and one descriptor more than the kernel has room for.
GemvTasks ==
  {GemvTaskDesc(0, 0, 0, 3, 3), GemvTaskDesc(1, 9, 2, 2, 5), GemvTaskDesc(0, 2, 4, 4, 1),
   GemvTaskDesc(0, 4, 1, 5, 2)}

MCGemvCases ==
  {[x |-> [e \in 0 .. 4 |-> ((37 * e * e + 90) % 700) - 350],
    w |-> [e \in 0 .. 18 |-> ((53 * e * e + 17 * e) % 900) - 450],
    y |-> [e \in 0 .. 7 |-> 0], tasks |-> s] : s \in UNION {[1 .. n -> GemvTasks] : n \in 0 .. 3}}

\* Zero, a subnormal, numbers below, at and above one, one that the fixed-point
\* format has to round, and the largest.
MCOperands ==
  {Float(s, e[1], e[2]) : s \in BOOLEAN,
                          e \in {<<0, 0>>, <<0, 5>>, <<1, 0>>, <<2, 3>>, <<3, 0>>, <<4, 4>>, <<6, 7>>}}

Rows(Value_(_, _), n, d) == [r \in 0 .. n - 1 |-> [e \in 0 .. d - 1 |-> Value_(r, e)]]

CoreCase(d, tq, tk, n, causal_, neg_large_) ==
  [D |-> d, TQ |-> tq, TK |-> tk, SEQ_LEN |-> n, causal |-> causal_, scale |-> 181,
   neg_large |-> neg_large_,
   q |-> Rows(LAMBDA r, e : ((37 * r * r + 101 * e) % 801) - 400, n, d),
   k |-> Rows(LAMBDA r, e : ((53 * r * r + 17 * e) % 1001) - 500, n, d),
   v |-> Rows(LAMBDA r, e : ((29 * r * r + 211 * e) % 1801) + 60 * r - 900, n, d)]

\* Two batches in a tile and four tiles of keys; rows of two chunks and two tiles of
\* queries; a mask value so high that no weight is left in some rows.
MCCoreCases ==
  {CoreCase(2, 16, 4, 16, TRUE, MCNegLarge), CoreCase(4, 8, 4, 16, FALSE, MCNegLarge),
   CoreCase(4, 8, 8, 8, FALSE, 3500)}
=============================================================================
