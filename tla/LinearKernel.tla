---------------------------- MODULE LinearKernel ----------------------------
(* The matrix-vector kernels (fa_q8_8_linear.cpp): the queue kernel the     *)
(* FPGA runs, which takes task descriptors and computes each product in     *)
(* tiles of output rows and lanes of products, and the strict loop it is    *)
(* compared with. x_all, w_all and y_all are flat arrays; a task names its  *)
(* part of each by an offset.                                               *)
(*                                                                          *)
(* The vector of a task is copied to x_local, which has kMaxInDim elements; *)
(* nothing looks whether it fits. In a product of so few elements no sum    *)
(* leaves 64 bits and no rounded one the 32 it is cast to, and 16 of them   *)
(* leave the 32-bit counters of the profile as they are.                    *)
EXTENDS HlsAttention

CONSTANTS
  kMaxQueueTasks,  \* 16 task descriptors on chip
  kTileOut,        \* 32 output rows of a tile
  kMaxInDim        \* 256 elements of x_local

ASSUME LinearShape ==
  /\ {kMaxQueueTasks, kTileOut} \subseteq Nat \ {0} /\ kMaxQueueTasks <= 16
  /\ kMaxInDim \in 1 .. 256

\* What a descriptor says: where the operands of a task are, and its dimensions,
\* which are words of 16 bits.
Words == 0 .. 65535
GemvDescriptors == [x_offset : Nat, w_offset : Nat, y_offset : Nat, in_dim : Words, out_dim : Words]

VARIABLES
  gpc,                       \* where the queue kernel stands, or "overrun"
  x_all, w_all, y_all,       \* memory
  tasks, task_count,         \* the descriptors and their number
  task_idx, out_start,       \* the loops
  x_local,                   \* the input vector on chip
  gemv_prof

linearVars == <<gpc, x_all, w_all, y_all, tasks, task_count, task_idx, out_start, x_local, gemv_prof>>

ClearedGemvProfile ==
  [calls |-> 0, count |-> 0, desc_loads |-> 0, x_elems |-> 0, w_elems |-> 0, y_elems |-> 0,
   macs |-> 0, tile_iters |-> 0, max_in |-> 0, max_out |-> 0]

OutTiles(out_dim) == (out_dim + kTileOut - 1) \div kTileOut

update_queue_profile(p, t) ==
  LET larger(a, b) == IF a > b THEN a ELSE b
      elems == t.in_dim * t.out_dim
  IN  [calls |-> p.calls, count |-> p.count + 1, desc_loads |-> p.desc_loads + 1,
       x_elems |-> p.x_elems + t.in_dim, w_elems |-> p.w_elems + elems,
       y_elems |-> p.y_elems + t.out_dim, macs |-> p.macs + elems,
       tile_iters |-> p.tile_iters + OutTiles(t.out_dim),
       max_in |-> larger(p.max_in, t.in_dim), max_out |-> larger(p.max_out, t.out_dim)]

q8_8_round_shift(v) == sat_s16(RoundShift8(v))

\* Row row of the matrix of task t.
WeightRow(w, t, row) == [i \in 0 .. t.in_dim - 1 |-> w[t.w_offset + row * t.in_dim + i]]

\* y with the rows of task t in rows_ computed, from the vector on chip.
compute_tile(x, w, y, t, rows_) ==
  LET acc(row) == dotprod_q8_8_single(x, WeightRow(w, t, row), t.in_dim)
  IN  Evaluated([e \in DOMAIN y |-> IF e - t.y_offset \in rows_
                                    THEN q8_8_round_shift(acc(e - t.y_offset)) ELSE y[e]])

load_x_tile(x, t) == [i \in 0 .. t.in_dim - 1 |-> x[t.x_offset + i]]

\* The operands of task t are in memory and its output has a place there.
OperandsInMemory(x, w, places, t) ==
  /\ \A i \in 0 .. t.in_dim - 1 : x[t.x_offset + i] \in S16
  /\ \A i \in 0 .. t.in_dim * t.out_dim - 1 : w[t.w_offset + i] \in S16
  /\ \A i \in 0 .. t.out_dim - 1 : t.y_offset + i \in places

-----------------------------------------------------------------------------
(* The strict queue. *)

\* Row row of the product of task t, one sum over the elements in memory.
StrictSum(x, w, t, row) ==
  MapThenSumSet(LAMBDA i : x[t.x_offset + i] * w[t.w_offset + row * t.in_dim + i], 0 .. t.in_dim - 1)

run_gemv_strict(x, w, y, t) ==
  Evaluated([e \in DOMAIN y |-> IF e - t.y_offset \in 0 .. t.out_dim - 1
                                THEN q8_8_round_shift(StrictSum(x, w, t, e - t.y_offset)) ELSE y[e]])

run_gemv_queue_strict(x, w, y, tasks_) ==
  FoldLeft(LAMBDA s, t : [y |-> run_gemv_strict(x, w, s.y, t), prof |-> update_queue_profile(s.prof, t)],
           [y |-> y, prof |-> [ClearedGemvProfile EXCEPT !.calls = 1]], tasks_)

-----------------------------------------------------------------------------
(* The queue kernel. *)

bounded_tasks == IF task_count < kMaxQueueTasks THEN task_count ELSE kMaxQueueTasks
GemvTask == tasks[task_idx]

LinearInit ==
  /\ gpc = "idle"
  /\ task_idx = 0 /\ out_start = 0
  /\ x_local = <<>>
  /\ gemv_prof = ClearedGemvProfile

StartQueue ==
  /\ gpc = "idle"
  /\ gpc' = "next_task"
  /\ gemv_prof' = [ClearedGemvProfile EXCEPT !.calls = 1]
  /\ task_idx' = 0
  /\ UNCHANGED <<x_all, w_all, y_all, tasks, task_count, out_start, x_local>>

NextFits == tasks[task_idx + 1].in_dim <= kMaxInDim

\* A mutant of LoadTask: the loop over tiles goes on where the last task's ended.
LoadTaskKeepsRow ==
  /\ gpc = "next_task" /\ task_idx < bounded_tasks /\ NextFits
  /\ task_idx' = task_idx + 1
  /\ gemv_prof' = update_queue_profile(gemv_prof, tasks[task_idx'])
  /\ x_local' = load_x_tile(x_all, tasks[task_idx'])
  /\ gpc' = "tiles"
  /\ UNCHANGED <<x_all, w_all, y_all, tasks, task_count, out_start>>

LoadTask ==
  /\ gpc = "next_task" /\ task_idx < bounded_tasks /\ NextFits
  /\ task_idx' = task_idx + 1
  /\ gemv_prof' = update_queue_profile(gemv_prof, tasks[task_idx'])
  /\ x_local' = load_x_tile(x_all, tasks[task_idx'])
  /\ out_start' = 0
  /\ gpc' = "tiles"
  /\ UNCHANGED <<x_all, w_all, y_all, tasks, task_count>>

\* The vector is longer than x_local and is copied over what lies behind it. What
\* the kernel does from there on is undefined.
LoadOverruns ==
  /\ gpc = "next_task" /\ task_idx < bounded_tasks /\ ~NextFits
  /\ gpc' = "overrun"
  /\ UNCHANGED <<x_all, w_all, y_all, tasks, task_count, task_idx, out_start, x_local, gemv_prof>>

ComputeTile ==
  /\ gpc = "tiles" /\ out_start < GemvTask.out_dim
  /\ LET left      == GemvTask.out_dim - out_start
         valid_out == IF left < kTileOut THEN left ELSE kTileOut
     IN  y_all' = compute_tile(x_local, w_all, y_all, GemvTask, out_start .. out_start + valid_out - 1)
  /\ out_start' = out_start + kTileOut
  /\ UNCHANGED <<gpc, x_all, w_all, tasks, task_count, task_idx, x_local, gemv_prof>>

TaskComputed ==
  /\ gpc = "tiles" /\ out_start >= GemvTask.out_dim
  /\ gpc' = "next_task"
  /\ UNCHANGED <<x_all, w_all, y_all, tasks, task_count, task_idx, out_start, x_local, gemv_prof>>

QueueDone ==
  /\ gpc = "next_task" /\ task_idx = bounded_tasks
  /\ gpc' = "done"
  /\ UNCHANGED <<x_all, w_all, y_all, tasks, task_count, task_idx, out_start, x_local, gemv_prof>>

LinearStep == StartQueue \/ LoadTask \/ LoadOverruns \/ ComputeTile \/ TaskComputed \/ QueueDone
=============================================================================
