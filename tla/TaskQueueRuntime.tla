-------------------------- MODULE TaskQueueRuntime --------------------------
(* The runtime a llama program hands its attention blocks to                *)
(* (fpga/integration/llama). submit keeps a task, which names the caller's  *)
(* matrices and does not copy them; drain runs the tasks kept one after the *)
(* other, in software (the HLS kernel compiled for the host, or the strict  *)
(* kernel) or on the FPGA through XRT, whose calls may throw. The calls are *)
(* synchronous: the caller goes on when one has returned.                   *)
EXTENDS TiledKernel

CONSTANTS
  Buffers,       \* the caller's matrices
  NullBuffer,    \* a null pointer
  MaxCalls,      \* calls the caller makes (bound)
  MaxThrows      \* XRT calls that throw (bound)

ASSUME RuntimeBounds == MaxCalls \in Nat /\ MaxThrows \in Nat

RuntimeModes == {"software_hls", "strict_q8_8", "xrt"}

\* RuntimeOptions; xrt_built says whether FA_RUNTIME_ENABLE_XRT was set.
RuntimeOptions == [mode : RuntimeModes, queue_depth : Nat, xrt_built : BOOLEAN]

\* AttentionTask: q, k, v and o are pointers, profile says whether there is one.
AttentionTask ==
  [q : Buffers \cup {NullBuffer}, k : Buffers \cup {NullBuffer}, v : Buffers \cup {NullBuffer},
   o : Buffers \cup {NullBuffer}, seq_len : Int, stride_bytes : Int, scale : S16,
   neg_large : S16, causal : BOOLEAN, profile : BOOLEAN]

VARIABLES
  options, initialized, queue,
  bo,                              \* bytes of each device buffer, 0 for none
  capacity_bytes,
  memory,                          \* the caller's matrices
  profile,                         \* and its profile counters
  rpc,                             \* where the call stands
  drain_idx,                       \* the task drain is at
  answer,                          \* what the last call returned
  calls, throws,
  accepted, executed, dropped      \* tasks, counted for the properties

countVars   == <<accepted, executed, dropped>>
deviceVars  == <<bo, capacity_bytes>>
hostVars    == <<memory, profile>>
runtimeVars == <<options, initialized, queue, deviceVars, hostVars, rpc, drain_idx,
                 answer, calls, throws, countVars>>

BoNames == {"q", "k", "v", "o"}
MatrixElems(seq_len) == seq_len * HeadDim
kDefaultStrideBytes == 2 * HeadDim

RuntimeInit ==
  /\ initialized = FALSE
  /\ queue = <<>>
  /\ bo = [b \in BoNames |-> 0] /\ capacity_bytes = 0
  /\ profile = ClearedProfile
  /\ rpc = "idle" /\ drain_idx = 1
  /\ answer = TRUE
  /\ calls = 0 /\ throws = 0
  /\ accepted = 0 /\ executed = 0 /\ dropped = 0

-----------------------------------------------------------------------------
queue_depth == IF options.queue_depth < 1 THEN 1 ELSE options.queue_depth

validate_task(t) ==
  /\ NullBuffer \notin {t.q, t.k, t.v, t.o}
  /\ t.seq_len \in 1 .. MaxSeqLen
  /\ t.seq_len % TileQ = 0 /\ t.seq_len % TileK = 0
  /\ t.stride_bytes = kDefaultStrideBytes

\* One more XRT call has thrown.
Throws == throws < MaxThrows /\ throws' = throws + 1

\* init inside a call: whether the runtime is ready after it. In xrt mode it
\* opens the device, which may throw.
Opens(ok) ==
  /\ initialized' = ok
  /\ IF initialized THEN ok /\ UNCHANGED throws
     ELSE IF options.mode # "xrt" THEN ok /\ UNCHANGED throws
     ELSE IF ~options.xrt_built THEN ~ok /\ UNCHANGED throws
     ELSE IF ok THEN UNCHANGED throws ELSE Throws

\* The caller's next call.
Called == rpc = "idle" /\ calls < MaxCalls /\ calls' = calls + 1

Init_ ==
  /\ Called
  /\ \E ok \in BOOLEAN : Opens(ok) /\ answer' = ok
  /\ UNCHANGED <<options, queue, deviceVars, hostVars, rpc, drain_idx, countVars, kernelVars>>

Submit(t) ==
  /\ Called
  /\ \E ok \in BOOLEAN :
       /\ Opens(ok)
       /\ IF ok /\ validate_task(t)
          THEN /\ queue' = Append(queue, t)
               /\ accepted' = accepted + 1
               /\ IF Len(queue') >= queue_depth
                  THEN rpc' = "drain" /\ drain_idx' = 1 /\ UNCHANGED answer
                  ELSE answer' = TRUE /\ UNCHANGED <<rpc, drain_idx>>
          ELSE answer' = FALSE /\ UNCHANGED <<queue, accepted, rpc, drain_idx>>
  /\ UNCHANGED <<options, deviceVars, hostVars, executed, dropped, kernelVars>>

Drain ==
  /\ Called
  /\ \E ok \in BOOLEAN :
       /\ Opens(ok)
       /\ IF ok THEN rpc' = "drain" /\ drain_idx' = 1 /\ UNCHANGED answer
                ELSE answer' = FALSE /\ UNCHANGED <<rpc, drain_idx>>
  /\ UNCHANGED <<options, queue, deviceVars, hostVars, countVars, kernelVars>>

Clear ==
  /\ Called
  /\ queue' = <<>>
  /\ dropped' = dropped + Len(queue)
  /\ UNCHANGED <<options, initialized, deviceVars, hostVars, rpc, drain_idx, answer, throws,
                 accepted, executed, kernelVars>>

\* Between two calls the caller may write a matrix again.
Rewrite(b, matrix) ==
  /\ Called
  /\ memory' = [memory EXCEPT ![b] = matrix]
  /\ UNCHANGED <<options, initialized, queue, deviceVars, profile, rpc, drain_idx, answer, throws,
                 countVars, kernelVars>>

-----------------------------------------------------------------------------
(* drain. *)

Current == queue[drain_idx]
Draining == rpc = "drain" /\ drain_idx <= Len(queue)

CallArguments(t) ==
  [q |-> memory[t.q], k |-> memory[t.k], v |-> memory[t.v], null |-> FALSE, seq_len |-> t.seq_len,
   stride_bytes |-> t.stride_bytes, scale |-> t.scale, neg_large |-> t.neg_large, causal |-> t.causal]

\* The task drain is at has left result in its output matrix.
TaskDone(result) ==
  /\ memory' = [memory EXCEPT ![Current.o] = result]
  /\ rpc' = "drain"
  /\ drain_idx' = drain_idx + 1
  /\ executed' = executed + 1

\* Software tasks write their counters into the caller's profile, if any.
SoftwareProfile(counters) ==
  profile' = IF Current.profile THEN counters ELSE profile

RunSoftwareHls ==
  /\ Draining /\ options.mode = "software_hls"
  /\ StartKernel(CallArguments(Current), memory[Current.o], FALSE)
  /\ rpc' = "kernel"
  /\ UNCHANGED <<options, initialized, queue, deviceVars, hostVars, drain_idx, answer, calls,
                 throws, countVars>>

SoftwareHlsDone ==
  /\ rpc = "kernel" /\ options.mode = "software_hls" /\ kpc = "done"
  /\ ReturnKernel
  /\ TaskDone(out) /\ SoftwareProfile(prof)
  /\ UNCHANGED <<options, initialized, queue, deviceVars, answer, calls, throws, accepted, dropped,
                 call, dataflow, tileVars, rows, batchVars, out, prof>>

RunStrict ==
  /\ Draining /\ options.mode = "strict_q8_8"
  /\ LET c == CallArguments(Current)
     IN  TaskDone(run_attention_strict(c, memory[Current.o])) /\ SoftwareProfile(StrictProfile(c))
  /\ UNCHANGED <<options, initialized, queue, deviceVars, answer, calls, throws, accepted, dropped,
                 kernelVars>>

\* Mutant of Thrown: the failure is not reported.
ThrownUnreported ==
  /\ Throws
  /\ rpc' = "idle"
  /\ answer' = TRUE
  /\ queue' = <<>>
  /\ dropped' = dropped + (Len(queue) - drain_idx + 1)

\* A throw ends drain: the tasks not yet run are dropped with the others.
Thrown ==
  /\ Throws
  /\ rpc' = "idle"
  /\ answer' = FALSE
  /\ queue' = <<>>
  /\ dropped' = dropped + (Len(queue) - drain_idx + 1)

\* A mutant of EnsureBuffers: the new capacity is noted before the buffers are there.
EnsureBuffersCapacityFirst ==
  /\ Draining /\ options.mode = "xrt"
  /\ LET matrix_bytes == Current.seq_len * Current.stride_bytes
         order == <<"q", "k", "v", "o">>
         enough == capacity_bytes >= matrix_bytes /\ \A b \in BoNames : bo[b] # 0
         Allocated(n) == [b \in BoNames |-> IF \E i \in 1 .. n : order[i] = b THEN matrix_bytes
                                                                         ELSE bo[b]]
     IN  \/ /\ enough
            /\ rpc' = "launch"
            /\ UNCHANGED <<deviceVars, queue, answer, throws, dropped>>
         \/ /\ ~enough
            /\ bo' = Allocated(4)
            /\ capacity_bytes' = matrix_bytes
            /\ rpc' = "launch"
            /\ UNCHANGED <<queue, answer, throws, dropped>>
         \/ /\ ~enough
            /\ \E n \in 0 .. 3 : bo' = Allocated(n)
            /\ capacity_bytes' = matrix_bytes
            /\ Thrown
  /\ UNCHANGED <<options, initialized, hostVars, drain_idx, calls, accepted, executed, kernelVars>>

\* Device buffers are allocated anew when a task needs more than they hold, one
\* after the other; n of them before an allocation throws.
EnsureBuffers ==
  /\ Draining /\ options.mode = "xrt"
  /\ LET matrix_bytes == Current.seq_len * Current.stride_bytes
         order == <<"q", "k", "v", "o">>
         enough == capacity_bytes >= matrix_bytes /\ \A b \in BoNames : bo[b] # 0
         Allocated(n) == [b \in BoNames |-> IF \E i \in 1 .. n : order[i] = b THEN matrix_bytes
                                                                         ELSE bo[b]]
     IN  \/ /\ enough
            /\ rpc' = "launch"
            /\ UNCHANGED <<deviceVars, queue, answer, throws, dropped>>
         \/ /\ ~enough
            /\ bo' = Allocated(4)
            /\ capacity_bytes' = matrix_bytes
            /\ rpc' = "launch"
            /\ UNCHANGED <<queue, answer, throws, dropped>>
         \/ /\ ~enough
            /\ \E n \in 0 .. 3 : bo' = Allocated(n)
            /\ Thrown
            /\ UNCHANGED capacity_bytes
  /\ UNCHANGED <<options, initialized, hostVars, drain_idx, calls, accepted, executed, kernelVars>>

\* The part of a matrix that a run copies to the device.
Copied(matrix, seq_len) == [e \in 0 .. MatrixElems(seq_len) - 1 |-> matrix[e]]

OnDevice(c) == [c EXCEPT !.q = Copied(@, c.seq_len), !.k = Copied(@, c.seq_len),
                         !.v = Copied(@, c.seq_len)]

ZeroMatrix(seq_len) == [e \in 0 .. MatrixElems(seq_len) - 1 |-> 0]

LaunchXrt ==
  /\ rpc = "launch"
  /\ StartKernel(OnDevice(CallArguments(Current)), ZeroMatrix(Current.seq_len), TRUE)
  /\ rpc' = "kernel"
  /\ UNCHANGED <<options, initialized, queue, deviceVars, hostVars, drain_idx, answer, calls,
                 throws, countVars>>

\* The output comes back when the run is over; the FPGA kernel has no profile.
XrtDone ==
  /\ rpc = "kernel" /\ options.mode = "xrt" /\ kpc = "done"
  /\ ReturnKernel
  /\ TaskDone([e \in DOMAIN memory[Current.o] |-> IF e \in DOMAIN out THEN out[e]
                                                  ELSE memory[Current.o][e]])
  /\ profile' = IF Current.profile THEN ClearedProfile ELSE profile
  /\ UNCHANGED <<options, initialized, queue, deviceVars, answer, calls, throws, accepted, dropped,
                 call, dataflow, tileVars, rows, batchVars, out, prof>>

\* Copying to the device, waiting for the run or copying back throws.
XrtThrows ==
  /\ options.mode = "xrt"
  /\ \/ rpc = "launch" /\ UNCHANGED kpc
     \/ rpc = "kernel" /\ kpc = "done" /\ ReturnKernel
  /\ Thrown
  /\ UNCHANGED <<options, initialized, deviceVars, hostVars, drain_idx, calls, accepted, executed,
                 call, dataflow, tileVars, rows, batchVars, out, prof>>

\* A mutant of DrainReturns: the tasks that were run stay in the queue.
DrainReturnsKeepsQueue ==
  /\ rpc = "drain" /\ drain_idx > Len(queue)
  /\ answer' = TRUE
  /\ rpc' = "idle"
  /\ UNCHANGED <<options, initialized, queue, deviceVars, hostVars, drain_idx, calls, throws,
                 countVars, kernelVars>>

DrainReturns ==
  /\ rpc = "drain" /\ drain_idx > Len(queue)
  /\ queue' = <<>>
  /\ answer' = TRUE
  /\ rpc' = "idle"
  /\ UNCHANGED <<options, initialized, deviceVars, hostVars, drain_idx, calls, throws, countVars,
                 kernelVars>>

DrainStep ==
  \/ RunSoftwareHls \/ SoftwareHlsDone \/ RunStrict
  \/ EnsureBuffers \/ LaunchXrt \/ XrtDone \/ XrtThrows \/ DrainReturns
  \/ rpc = "kernel" /\ KernelStep /\ UNCHANGED runtimeVars
=============================================================================
