-------------------------- MODULE HostSystemProofs --------------------------
(* Of the task queue runtime its bookkeeping, for every queue depth, every  *)
(* set of tasks and every number of calls and of XRT calls that throw: no   *)
(* task is lost or counted twice, the queue never outgrows what was         *)
(* reserved for it, device buffers hold the matrices of a run, and tasks    *)
(* run in order, on the operands of their time.  Of the RTL core its        *)
(* pipelines, for every shape and length of a tile: batches never meet in   *)
(* them.  Of the matrix-vector queue kernel, that its tiles come to what    *)
(* the strict queue does, for every list of descriptors.  Of the attention  *)
(* kernel, that its tiles, banks and batches and the two processes of a     *)
(* batch come to a loop over the keys of each row.                          *)
EXTENDS HostSystem, FoldLemmas, SequenceTheorems

-----------------------------------------------------------------------------
(* The task queue runtime.                                                  *)

\* The tasks not yet run: while a call drains, those from drain_idx on.
Unrun == IF rpc = "idle" THEN Len(queue) ELSE Len(queue) - drain_idx + 1

QueueTypes ==
  /\ options \in RuntimeOptions
  /\ queue \in Seq(Tasks)
  /\ \A i \in 1 .. Len(queue) : validate_task(queue[i])
  /\ rpc \in {"idle", "drain", "launch", "kernel"}
  /\ drain_idx \in Nat \ {0}
  /\ accepted \in Nat /\ executed \in Nat /\ dropped \in Nat

\* drain_idx is a task or, when all are done, the one after the last.
DrainInv ==
  /\ rpc # "idle" => drain_idx <= Len(queue) + 1
  /\ rpc \in {"launch", "kernel"} => drain_idx <= Len(queue)

\* A call returns only with room in the queue.
RoomInv ==
  /\ Len(queue) <= queue_depth
  /\ rpc = "idle" => Len(queue) < queue_depth

CountInv == accepted = executed + dropped + Unrun

\* The capacity noted is that of the smallest device buffer.
CapacityInv ==
  /\ bo \in [BoNames -> Nat] /\ capacity_bytes \in Nat
  /\ \A b \in BoNames : bo[b] >= capacity_bytes

IInv == QueueTypes /\ DrainInv /\ RoomInv /\ CountInv /\ CapacityInv /\ BuffersFit

LEMMA DepthPositive ==
  ASSUME options \in RuntimeOptions
  PROVE  queue_depth \in Nat /\ queue_depth >= 1
BY DEF RuntimeOptions, queue_depth

LEMMA InitIInv == Init => IInv
<1> SUFFICES ASSUME Init PROVE IInv
  OBVIOUS
<1>1. options \in Options
  BY OptionsAssumption DEF Init, TheCase
<1>2. options \in RuntimeOptions
  BY <1>1, OptionsAssumption
<1>3. queue_depth \in Nat /\ queue_depth >= 1
  BY <1>2, DepthPositive
<1>4. QueueTypes
  BY <1>2 DEF Init, RuntimeInit, QueueTypes
<1>5. RoomInv
  BY <1>3 DEF Init, RuntimeInit, RoomInv
<1>6. CapacityInv
  BY DEF Init, RuntimeInit, CapacityInv
<1> QED
  BY <1>4, <1>5, <1>6 DEF Init, RuntimeInit, IInv, DrainInv, CountInv, BuffersFit, Unrun

-----------------------------------------------------------------------------
(* What a step does to the queue, whatever it does besides.                 *)

LEMMA Unaffected ==
  ASSUME IInv,
         UNCHANGED <<options, queue, rpc, drain_idx, deviceVars, accepted, executed, dropped>>
  PROVE  IInv'
<1>1. bo' = bo /\ capacity_bytes' = capacity_bytes
  BY DEF deviceVars
<1>2. queue_depth' = queue_depth
  BY DEF queue_depth
<1>3. BuffersFit'
  BY <1>1 DEF IInv, BuffersFit, Current
<1> QED
  BY <1>1, <1>2, <1>3 DEF IInv, QueueTypes, DrainInv, RoomInv, CountInv, CapacityInv, Unrun

\* A call starts to drain.
LEMMA DrainBegins ==
  ASSUME IInv, rpc = "idle",
         UNCHANGED <<options, queue, deviceVars, accepted, executed, dropped>>,
         rpc' = "drain", drain_idx' = 1
  PROVE  IInv'
<1>1. bo' = bo /\ capacity_bytes' = capacity_bytes
  BY DEF deviceVars
<1>2. queue_depth' = queue_depth
  BY DEF queue_depth
<1>3. Len(queue) \in Nat
  BY DEF IInv, QueueTypes
<1>4. BuffersFit'
  BY DEF BuffersFit
<1> QED
  BY <1>1, <1>2, <1>3, <1>4 DEF IInv, QueueTypes, DrainInv, RoomInv, CountInv, CapacityInv, Unrun

\* The task at drain_idx is on its way, in software or with its buffers there.
LEMMA TaskBegins ==
  ASSUME IInv, Draining,
         UNCHANGED <<options, queue, drain_idx, accepted, executed, dropped>>,
         rpc' \in {"launch", "kernel"}, CapacityInv', BuffersFit'
  PROVE  IInv'
<1>1. queue_depth' = queue_depth
  BY DEF queue_depth
<1> QED
  BY <1>1 DEF IInv, QueueTypes, DrainInv, RoomInv, CountInv, Unrun, Draining

\* It has been run.
LEMMA TaskEnds ==
  ASSUME IInv, rpc # "idle", drain_idx <= Len(queue),
         UNCHANGED <<options, queue, deviceVars, accepted, dropped>>,
         rpc' = "drain", drain_idx' = drain_idx + 1, executed' = executed + 1
  PROVE  IInv'
<1>1. bo' = bo /\ capacity_bytes' = capacity_bytes
  BY DEF deviceVars
<1>2. queue_depth' = queue_depth
  BY DEF queue_depth
<1>3. Len(queue) \in Nat
  BY DEF IInv, QueueTypes
<1>4. BuffersFit'
  BY DEF BuffersFit
<1> QED
  BY <1>1, <1>2, <1>3, <1>4 DEF IInv, QueueTypes, DrainInv, RoomInv, CountInv, CapacityInv, Unrun

\* The queue is cleared; what it held and was not run is dropped.
LEMMA QueueCleared ==
  ASSUME IInv, UNCHANGED <<options, drain_idx, accepted, executed>>,
         queue' = <<>>, rpc' = "idle", dropped' = dropped + Unrun, CapacityInv'
  PROVE  IInv'
<1>1. queue_depth' = queue_depth /\ queue_depth \in Nat /\ queue_depth >= 1
  BY DepthPositive DEF queue_depth, IInv, QueueTypes
<1>2. Len(queue) \in Nat /\ Unrun \in Nat
  BY DEF IInv, QueueTypes, DrainInv, Unrun
<1>3. Len(queue') = 0 /\ queue' \in Seq(Tasks)
  OBVIOUS
<1>4. QueueTypes'
  BY <1>2, <1>3 DEF IInv, QueueTypes
<1>5. CountInv'
  <2>1. Unrun' = 0
    BY <1>3 DEF Unrun
  <2>2. accepted = executed + dropped + Unrun
    BY DEF IInv, CountInv
  <2> QED
    BY <1>2, <2>1, <2>2 DEF IInv, QueueTypes, CountInv
<1>6. RoomInv' /\ DrainInv' /\ BuffersFit'
  BY <1>1, <1>3 DEF RoomInv, DrainInv, BuffersFit
<1> QED
  BY <1>4, <1>5, <1>6 DEF IInv

-----------------------------------------------------------------------------
(* The calls. *)

\* submit: the task is refused, or waits, or fills the queue.
LEMMA SubmitStep ==
  ASSUME IInv, NEW t \in Tasks, Submit(t)
  PROVE  IInv'
<1>1. /\ rpc = "idle"
      /\ UNCHANGED <<options, deviceVars, executed, dropped>>
  BY DEF Submit, Called
<1>2. CASE UNCHANGED <<queue, accepted, rpc, drain_idx>>
  BY <1>1, <1>2, Unaffected
<1>3. CASE /\ validate_task(t)
           /\ queue' = Append(queue, t) /\ accepted' = accepted + 1
           /\ IF Len(queue') >= queue_depth THEN rpc' = "drain" /\ drain_idx' = 1
                                            ELSE UNCHANGED <<rpc, drain_idx>>
  <2>1. bo' = bo /\ capacity_bytes' = capacity_bytes /\ queue_depth' = queue_depth
    BY <1>1 DEF deviceVars, queue_depth
  <2>2. queue_depth \in Nat /\ Len(queue) \in Nat /\ queue \in Seq(Tasks)
    BY DepthPositive DEF IInv, QueueTypes
  <2>3. queue' \in Seq(Tasks) /\ Len(queue') = Len(queue) + 1
    BY <1>3, <2>2
  <2>4. \A i \in 1 .. Len(queue') : validate_task(queue'[i])
    <3>1. \A i \in 1 .. Len(queue) : queue'[i] = queue[i]
      BY <1>3, <2>2
    <3>2. queue'[Len(queue')] = t
      BY <1>3, <2>2
    <3> QED
      BY <1>3, <2>2, <2>3, <3>1, <3>2 DEF IInv, QueueTypes
  <2>5. QueueTypes'
    BY <1>1, <1>3, <2>3, <2>4 DEF IInv, QueueTypes
  <2>6. RoomInv' /\ DrainInv'
    BY <1>1, <1>3, <2>1, <2>2, <2>3 DEF IInv, RoomInv, DrainInv
  <2>7. CountInv'
    <3>1. Unrun' = Unrun + 1
      BY <1>1, <1>3, <2>2, <2>3 DEF Unrun
    <3> QED
      BY <1>1, <1>3, <2>2, <3>1 DEF IInv, QueueTypes, CountInv, Unrun
  <2>8. CapacityInv' /\ BuffersFit'
    BY <1>1, <1>3, <2>1 DEF IInv, CapacityInv, BuffersFit
  <2> QED
    BY <2>5, <2>6, <2>7, <2>8 DEF IInv
<1> QED
  BY <1>2, <1>3 DEF Submit

LEMMA CallStep ==
  ASSUME IInv, CallRuntime
  PROVE  IInv'
<1>1. CASE Init_
  BY <1>1, Unaffected DEF Init_, countVars
<1>2. CASE Drain
  <2>1. rpc = "idle" /\ UNCHANGED <<options, queue, deviceVars, accepted, executed, dropped>>
    BY <1>2 DEF Drain, Called, countVars
  <2>2. (rpc' = "drain" /\ drain_idx' = 1) \/ UNCHANGED <<rpc, drain_idx>>
    BY <1>2 DEF Drain
  <2> QED
    BY <2>1, <2>2, DrainBegins, Unaffected
<1>3. CASE Clear
  <2>1. /\ rpc = "idle" /\ rpc' = "idle" /\ queue' = <<>> /\ dropped' = dropped + Len(queue)
        /\ UNCHANGED <<options, drain_idx, accepted, executed, bo, capacity_bytes>>
    BY <1>3 DEF Clear, Called, deviceVars
  <2>2. CapacityInv'
    BY <2>1 DEF IInv, CapacityInv
  <2> QED
    BY <2>1, <2>2, QueueCleared DEF Unrun
<1>4. ASSUME NEW t \in Tasks, Submit(t) PROVE IInv'
  BY <1>4, SubmitStep
<1>5. ASSUME NEW b \in Rewritten, NEW m \in Matrices, Rewrite(b, m) PROVE IInv'
  BY <1>5, Unaffected DEF Rewrite, countVars
<1> QED
  BY <1>1, <1>2, <1>3, <1>4, <1>5 DEF CallRuntime

-----------------------------------------------------------------------------
(* drain. *)

\* A task that was accepted has a matrix of a natural number of bytes.
LEMMA MatrixBytes ==
  ASSUME IInv, Draining
  PROVE  Current.seq_len * Current.stride_bytes \in Nat
<1>1. drain_idx \in 1 .. Len(queue)
  BY DEF IInv, QueueTypes, Draining
<1>2. validate_task(Current)
  BY <1>1 DEF IInv, QueueTypes, Current
<1>3. Current.seq_len \in Nat /\ Current.stride_bytes \in Nat
  BY <1>2, HlsShape DEF validate_task, kDefaultStrideBytes
<1> QED
  BY <1>3

\* Whether the buffers are enough, are all allocated or some of them, none is
\* then smaller than the capacity noted.
LEMMA BuffersStep ==
  ASSUME IInv, EnsureBuffers
  PROVE  IInv'
<1> DEFINE bytes  == Current.seq_len * Current.stride_bytes
           order  == <<"q", "k", "v", "o">>
           enough == capacity_bytes >= bytes /\ \A b \in BoNames : bo[b] # 0
           Allocated(n) == [b \in BoNames |-> IF \E i \in 1 .. n : order[i] = b THEN bytes ELSE bo[b]]
<1>1. /\ Draining
      /\ UNCHANGED <<options, drain_idx, accepted, executed>>
  BY DEF EnsureBuffers
<1>2. bytes \in Nat /\ bo \in [BoNames -> Nat] /\ capacity_bytes \in Nat
  BY <1>1, MatrixBytes DEF IInv, CapacityInv
<1>3. \A b \in BoNames : bo[b] >= capacity_bytes
  BY DEF IInv, CapacityInv
<1>4. Unrun = Len(queue) - drain_idx + 1
  BY <1>1 DEF Unrun, Draining
<1>5. CASE enough /\ rpc' = "launch" /\ UNCHANGED <<bo, capacity_bytes, queue, dropped>>
  <2>1. CapacityInv'
    BY <1>5 DEF IInv, CapacityInv
  <2>2. BuffersFit'
    BY <1>1, <1>2, <1>3, <1>5 DEF BuffersFit, Current
  <2> QED
    BY <1>1, <1>5, <2>1, <2>2, TaskBegins
<1>6. CASE /\ bo' = Allocated(4) /\ capacity_bytes' = bytes /\ rpc' = "launch"
           /\ UNCHANGED <<queue, dropped>>
  <2>1. \A b \in BoNames : \E i \in 1 .. 4 : order[i] = b
    BY DEF BoNames
  <2>2. \A b \in BoNames : bo'[b] = bytes
    BY <1>6, <2>1
  <2>3. CapacityInv'
    BY <1>2, <1>6, <2>2 DEF CapacityInv
  <2>4. BuffersFit'
    BY <1>1, <1>2, <1>6, <2>2 DEF BuffersFit, Current
  <2> QED
    BY <1>1, <1>6, <2>3, <2>4, TaskBegins
<1>7. CASE ~enough /\ (\E n \in 0 .. 3 : bo' = Allocated(n)) /\ Thrown /\ UNCHANGED capacity_bytes
  <2>1. \A b \in BoNames : bo'[b] \in {bytes, bo[b]}
    BY <1>7
  <2>2. capacity_bytes < bytes \/ capacity_bytes = 0
    BY <1>2, <1>3, <1>7
  <2>3. CapacityInv'
    BY <1>2, <1>3, <1>7, <2>1, <2>2 DEF CapacityInv
  <2>4. queue' = <<>> /\ rpc' = "idle" /\ dropped' = dropped + Unrun
    BY <1>4, <1>7 DEF Thrown
  <2> QED
    BY <1>1, <2>3, <2>4, QueueCleared
<1> QED
  BY <1>5, <1>6, <1>7 DEF EnsureBuffers, deviceVars

\* A throw, and the end of the loop, at which nothing is left to run.
LEMMA ThrownStep ==
  ASSUME IInv, XrtThrows
  PROVE  IInv'
<1>1. /\ rpc # "idle" /\ Thrown
      /\ UNCHANGED <<options, drain_idx, accepted, executed, bo, capacity_bytes>>
  BY DEF XrtThrows, deviceVars
<1>2. queue' = <<>> /\ rpc' = "idle" /\ dropped' = dropped + Unrun
  BY <1>1 DEF Thrown, Unrun
<1>3. CapacityInv'
  BY <1>1 DEF IInv, CapacityInv
<1> QED
  BY <1>1, <1>2, <1>3, QueueCleared

LEMMA ReturnStep ==
  ASSUME IInv, DrainReturns
  PROVE  IInv'
<1>1. /\ rpc = "drain" /\ drain_idx > Len(queue) /\ queue' = <<>> /\ rpc' = "idle"
      /\ UNCHANGED <<options, drain_idx, accepted, executed, dropped, bo, capacity_bytes>>
  BY DEF DrainReturns, deviceVars, countVars
<1>2. Unrun = 0
  BY <1>1 DEF Unrun, IInv, DrainInv, QueueTypes
<1>3. dropped' = dropped + Unrun
  BY <1>1, <1>2 DEF IInv, QueueTypes
<1>4. CapacityInv'
  BY <1>1 DEF IInv, CapacityInv
<1> QED
  BY <1>1, <1>3, <1>4, QueueCleared

LEMMA DrainStepStep ==
  ASSUME IInv, DrainStep
  PROVE  IInv'
<1>1. CASE RunSoftwareHls
  <2>1. /\ Draining /\ options.mode = "software_hls" /\ rpc' = "kernel"
        /\ UNCHANGED <<options, queue, drain_idx, bo, capacity_bytes, accepted, executed, dropped>>
    BY <1>1 DEF RunSoftwareHls, deviceVars, countVars
  <2>2. CapacityInv' /\ BuffersFit'
    BY <2>1 DEF IInv, CapacityInv, BuffersFit
  <2> QED
    BY <2>1, <2>2, TaskBegins
<1>2. CASE SoftwareHlsDone
  <2>1. rpc # "idle" /\ drain_idx <= Len(queue)
    BY <1>2 DEF SoftwareHlsDone, IInv, DrainInv
  <2> QED
    BY <1>2, <2>1, TaskEnds DEF SoftwareHlsDone, TaskDone
<1>3. CASE RunStrict
  <2>1. rpc # "idle" /\ drain_idx <= Len(queue)
    BY <1>3 DEF RunStrict, Draining
  <2> QED
    BY <1>3, <2>1, TaskEnds DEF RunStrict, TaskDone
<1>4. CASE EnsureBuffers
  BY <1>4, BuffersStep
<1>5. CASE LaunchXrt
  <2>1. /\ rpc = "launch" /\ rpc' = "kernel"
        /\ UNCHANGED <<options, queue, drain_idx, bo, capacity_bytes, accepted, executed, dropped>>
    BY <1>5 DEF LaunchXrt, deviceVars, countVars
  <2>2. queue_depth' = queue_depth /\ CapacityInv' /\ BuffersFit'
    BY <2>1 DEF queue_depth, IInv, CapacityInv, BuffersFit, Current
  <2> QED
    BY <2>1, <2>2 DEF IInv, QueueTypes, DrainInv, RoomInv, CountInv, Unrun
<1>6. CASE XrtDone
  <2>1. rpc # "idle" /\ drain_idx <= Len(queue)
    BY <1>6 DEF XrtDone, IInv, DrainInv
  <2> QED
    BY <1>6, <2>1, TaskEnds DEF XrtDone, TaskDone
<1>7. CASE XrtThrows
  BY <1>7, ThrownStep
<1>8. CASE DrainReturns
  BY <1>8, ReturnStep
<1>9. CASE rpc = "kernel" /\ KernelStep /\ UNCHANGED runtimeVars
  BY <1>9, Unaffected DEF runtimeVars, countVars
<1> QED
  BY <1>1, <1>2, <1>3, <1>4, <1>5, <1>6, <1>7, <1>8, <1>9 DEF DrainStep

-----------------------------------------------------------------------------
LEMMA NextIInv == IInv /\ [Next]_vars => IInv'
<1> SUFFICES ASSUME IInv, [Next]_vars PROVE IInv'
  OBVIOUS
<1>1. CASE RuntimeProgram
  BY <1>1, CallStep, DrainStepStep DEF RuntimeProgram
<1>2. CASE UNCHANGED runtimeVars
  BY <1>2, Unaffected DEF runtimeVars, countVars
<1>3. CASE \/ RunnerProgram \/ GemvProgram \/ ScoreProgram \/ CoreProgram
           \/ Over \/ UNCHANGED vars
  BY <1>2, <1>3 DEF RunnerProgram, GemvProgram, ScoreProgram, CoreProgram, Over, vars
<1> QED
  BY <1>1, <1>3 DEF Next

LEMMA QueueInvariant == Spec => []IInv
  BY InitIInv, NextIInv, PTL DEF Spec

\* TasksAccounted (submit, drain, clear): for every queue depth and every order of
\* calls and throws, each task accepted has been run, was dropped or waits, and
\* the queue never outgrows the depth it was reserved for.
THEOREM TasksAreAccounted == Spec => []TasksAccounted
<1>1. IInv => TasksAccounted
  <2> SUFFICES ASSUME IInv PROVE TasksAccounted
    OBVIOUS
  <2>1. queue \in Seq(Tasks) /\ Len(queue) \in Nat /\ drain_idx \in Nat \ {0}
    BY DEF IInv, QueueTypes
  <2>2. Len(Waiting) = Unrun
    <3>1. CASE rpc = "idle"
      BY <3>1 DEF Waiting, Unrun
    <3>2. CASE rpc # "idle"
      BY <2>1, <3>2 DEF Waiting, Unrun, IInv, DrainInv
    <3> QED
      BY <3>1, <3>2
  <2> QED
    BY <2>2 DEF IInv, CountInv, RoomInv, TasksAccounted
<1> QED
  BY <1>1, QueueInvariant, PTL

\* BuffersFit (ensure_buffers): whatever sizes the tasks have and whichever
\* allocation fails, a run has buffers that hold its matrices.
THEOREM DeviceBuffersFit == Spec => []BuffersFit
<1>1. IInv => BuffersFit
  BY DEF IInv
<1> QED
  BY <1>1, QueueInvariant, PTL

-----------------------------------------------------------------------------
(* The order of tasks.  What a task computes is left to KernelMatchesModel; *)
(* that it computes it from the operands of its time, stores it where it    *)
(* belongs and nothing else, and when, is shown here.                       *)

IsArray(m) == DOMAIN m \subseteq Nat /\ m = [e \in DOMAIN m |-> m[e]]

\* What the kernel was started with for the task drain is at.
KernelCall ==
  IF options.mode = "xrt" THEN OnDevice(CallArguments(Current)) ELSE CallArguments(Current)
OutBefore ==
  IF options.mode = "xrt" THEN ZeroMatrix(Current.seq_len) ELSE memory[Current.o]

MemoryTypes ==
  /\ memory = [b \in Buffers |-> memory[b]]
  /\ \A b \in Buffers : IsArray(memory[b])

\* Of the kernel's output only the rows of the call have changed.
OutputFrame ==
  /\ IsArray(out) /\ DOMAIN out = DOMAIN OutBefore
  /\ \A e \in DOMAIN out : ~(e \div HeadDim < call.seq_len) => out[e] = OutBefore[e]

RunInv ==
  /\ MemoryTypes
  /\ rpc # "idle" => program = "runtime"
  /\ rpc = "launch" => options.mode = "xrt"
  /\ rpc = "kernel" =>
       /\ options.mode \in {"software_hls", "xrt"}
       /\ call = KernelCall /\ q_start \in Nat /\ OutputFrame

\* A task that is run is a valid one.
LEMMA CurrentTask ==
  ASSUME IInv, rpc # "idle", drain_idx <= Len(queue)
  PROVE  /\ Current \in Tasks /\ validate_task(Current)
         /\ {Current.q, Current.k, Current.v, Current.o} \subseteq Buffers
         /\ Current.seq_len \in 1 .. MaxSeqLen /\ Current.stride_bytes = 2 * HeadDim
         /\ Clamped(Current.seq_len) = Current.seq_len
         /\ queue \in Seq(Tasks) /\ drain_idx \in 1 .. Len(queue)
<1>1. /\ queue \in Seq(Tasks) /\ drain_idx \in 1 .. Len(queue)
      /\ \A i \in 1 .. Len(queue) : validate_task(queue[i])
  BY DEF IInv, QueueTypes
<1>2. Current \in Tasks /\ validate_task(Current)
  BY <1>1 DEF Current
<1>3. Current \in AttentionTask
  BY <1>2, TasksAssumption
<1>4. {Current.q, Current.k, Current.v, Current.o} \subseteq Buffers \cup {NullBuffer}
  BY <1>3 DEF AttentionTask
<1>5. /\ NullBuffer \notin {Current.q, Current.k, Current.v, Current.o}
      /\ Current.seq_len \in 1 .. MaxSeqLen /\ Current.stride_bytes = 2 * HeadDim
  BY <1>2 DEF validate_task, kDefaultStrideBytes
<1>6. MaxSeqLen \in Nat
  BY HlsShape
<1>7. Clamped(Current.seq_len) = Current.seq_len
  BY <1>5, <1>6 DEF Clamped
<1> QED
  BY <1>1, <1>2, <1>4, <1>5, <1>7

LEMMA StrideIsHeadDim ==
  ASSUME NEW c, c.stride_bytes = 2 * HeadDim
  PROVE  StrideElems(c) = HeadDim
<1>1. HeadDim \in Nat \ {0}
  BY HlsShape
<1>2. (2 * HeadDim) \div 2 = HeadDim
  BY <1>1
<1> QED
  BY <1>1, <1>2 DEF StrideElems

LEMMA InitRunInv == Init => RunInv
<1> SUFFICES ASSUME Init PROVE RunInv
  OBVIOUS
<1>1. memory = FirstMemory /\ rpc = "idle"
  BY DEF Init, RuntimeInit
<1>2. ASSUME NEW b \in Buffers PROVE IsArray(FirstMemory[b])
  <2>1. PICK m \in Range(FirstMemory) : m = FirstMemory[b]
    BY MemoryAssumption DEF Range
  <2>2. DOMAIN m \subseteq Nat /\ m \in [DOMAIN m -> S16]
    BY MemoryAssumption
  <2> QED
    BY <2>1, <2>2 DEF IsArray
<1>3. FirstMemory = [b \in Buffers |-> FirstMemory[b]]
  BY MemoryAssumption
<1> QED
  BY <1>1, <1>2, <1>3 DEF RunInv, MemoryTypes

\* A kernel that is started has written nothing yet.
LEMMA KernelStarts ==
  ASSUME IInv, RunInv, program = "runtime", program' = program, RunSoftwareHls \/ LaunchXrt
  PROVE  RunInv'
<1>1. /\ options' = options /\ queue' = queue /\ drain_idx' = drain_idx /\ memory' = memory
      /\ rpc' = "kernel"
  BY DEF RunSoftwareHls, LaunchXrt, hostVars
<1>2. rpc # "idle" /\ drain_idx <= Len(queue) /\ options.mode \in {"software_hls", "xrt"}
  BY DEF RunSoftwareHls, LaunchXrt, Draining, RunInv, IInv, DrainInv
<1>3. PICK t : t = Current
  OBVIOUS
<1>4. /\ {t.q, t.k, t.v, t.o} \subseteq Buffers
      /\ t.seq_len \in 1 .. MaxSeqLen /\ Clamped(t.seq_len) = t.seq_len
  BY <1>2, <1>3, CurrentTask
<1>5. /\ call' = [KernelCall EXCEPT !.seq_len = Clamped(@)]
      /\ q_start' = 0 /\ out' = OutBefore
  BY DEF RunSoftwareHls, LaunchXrt, StartKernel, KernelCall, OutBefore, RunInv, Draining
<1>6. Current' = Current
  BY <1>1 DEF Current
<1>7. KernelCall' = KernelCall /\ OutBefore' = OutBefore
  BY <1>1, <1>6 DEF KernelCall, OutBefore, CallArguments
<1>8. call' = KernelCall
  <2>1. PICK q, k, v : KernelCall =
          [q |-> q, k |-> k, v |-> v, null |-> FALSE,
           seq_len |-> t.seq_len, stride_bytes |-> t.stride_bytes,
           scale |-> t.scale, neg_large |-> t.neg_large, causal |-> t.causal]
    BY <1>3 DEF KernelCall, OnDevice, CallArguments
  <2>2. PICK c : c = KernelCall
    OBVIOUS
  <2>3. c.seq_len = t.seq_len
    BY <2>1, <2>2
  <2>4. call' = [c EXCEPT !.seq_len = t.seq_len]
    BY <1>4, <1>5, <2>2, <2>3
  <2>5. [c EXCEPT !.seq_len = t.seq_len] = c
    <3>1. c = [f \in DOMAIN c |-> c[f]]
      BY <2>1, <2>2
    <3> QED
      BY <2>3, <3>1
  <2> QED
    BY <2>2, <2>4, <2>5
<1>9. MemoryTypes'
  BY <1>1 DEF RunInv, MemoryTypes, IsArray
<1>10. IsArray(OutBefore)
  <2>1. CASE options.mode = "xrt"
    <3>1. MatrixElems(t.seq_len) \in Nat
      BY <1>4, HlsShape DEF MatrixElems
    <3> QED
      BY <1>3, <2>1, <3>1 DEF OutBefore, ZeroMatrix, IsArray
  <2>2. CASE options.mode # "xrt"
    BY <1>3, <1>4, <2>2 DEF OutBefore, RunInv, MemoryTypes
  <2> QED
    BY <2>1, <2>2
<1>11. OutputFrame'
  BY <1>5, <1>7, <1>10 DEF OutputFrame, IsArray
<1> QED
  BY <1>1, <1>2, <1>5, <1>7, <1>8, <1>9, <1>11 DEF RunInv

\* The kernel stores rows of the call only.
LEMMA KernelRuns ==
  ASSUME IInv, RunInv, rpc = "kernel", program' = program, KernelStep, UNCHANGED runtimeVars
  PROVE  RunInv'
<1>1. /\ options' = options /\ queue' = queue /\ drain_idx' = drain_idx /\ memory' = memory
      /\ rpc' = "kernel"
  BY DEF runtimeVars, hostVars
<1>2. MemoryTypes'
  BY <1>1 DEF RunInv, MemoryTypes, IsArray
<1>3. Current' = Current
  BY <1>1 DEF Current
<1>4. KernelCall' = KernelCall /\ OutBefore' = OutBefore
  BY <1>1, <1>3 DEF KernelCall, OutBefore, CallArguments
<1>5. call' = call
  BY DEF KernelStep, LoadQTile, NextKVTile, StoreQTile, FinishKernel, StartBatch, GenerateScore,
         ConsumeScore,
     EndBatch
<1>6. call = KernelCall /\ q_start \in Nat /\ OutputFrame /\ options.mode \in {"software_hls", "xrt"}
  BY DEF RunInv
<1>7. CASE StoreQTile
  <2>1. PICK o_tile :
          /\ DOMAIN o_tile = 0 .. valid_q - 1
          /\ out' = [e \in DOMAIN out |->
                       IF e \div stride - q_start \in DOMAIN o_tile /\ e % stride \in Dims
                       THEN o_tile[e \div stride - q_start][e % stride] ELSE out[e]]
          /\ q_start' = q_start + TileQ
    BY <1>7 DEF StoreQTile, Evaluated
  <2>2. stride = HeadDim /\ call.seq_len \in Nat
    <3>1. rpc # "idle" /\ drain_idx <= Len(queue)
      BY DEF IInv, DrainInv
    <3>2. PICK t : t = Current
      OBVIOUS
    <3>3. t.seq_len \in 1 .. MaxSeqLen /\ t.stride_bytes = 2 * HeadDim
      BY <3>1, <3>2, CurrentTask
    <3>4. call.seq_len = t.seq_len /\ call.stride_bytes = t.stride_bytes
      BY <1>6, <3>2 DEF KernelCall, OnDevice, CallArguments
    <3> QED
      BY <3>3, <3>4, StrideIsHeadDim DEF stride
  <2>3. IsArray(out') /\ DOMAIN out' = DOMAIN OutBefore
    BY <1>6, <2>1 DEF OutputFrame, IsArray
  <2>4. ASSUME NEW e \in DOMAIN out, ~(e \div HeadDim < call.seq_len) PROVE out'[e] = out[e]
    <3>1. PICK row : row = e \div HeadDim
      OBVIOUS
    <3>2. e \in Nat /\ row \in Int
      BY <1>6, <3>1, HlsShape DEF OutputFrame, IsArray
    <3>3. valid_q <= call.seq_len - q_start /\ valid_q \in Int
      BY <1>6, <2>2, HlsShape DEF valid_q, Smaller
    <3>4. row - q_start \notin 0 .. valid_q - 1
      BY <1>6, <2>2, <2>4, <3>1, <3>2, <3>3
    <3> QED
      BY <2>1, <2>2, <3>1, <3>4
  <2>5. OutputFrame'
    BY <1>4, <1>5, <1>6, <2>3, <2>4 DEF OutputFrame, IsArray
  <2>6. q_start' \in Nat
    BY <1>6, <2>1, HlsShape
  <2> QED
    BY <1>1, <1>2, <1>4, <1>5, <1>6, <2>5, <2>6 DEF RunInv
<1>8. CASE UNCHANGED <<out, q_start>>
  <2>1. OutputFrame'
    BY <1>4, <1>5, <1>6, <1>8 DEF OutputFrame, IsArray
  <2> QED
    BY <1>1, <1>2, <1>4, <1>5, <1>6, <1>8, <2>1 DEF RunInv
<1>9. StoreQTile \/ UNCHANGED <<out, q_start>>
  BY DEF KernelStep, LoadQTile, NextKVTile, FinishKernel, StartBatch, GenerateScore, ConsumeScore,
     EndBatch, tileVars
<1> QED
  BY <1>7, <1>8, <1>9

LEMMA MatrixWritten ==
  ASSUME MemoryTypes, NEW b \in Buffers, NEW m, IsArray(m), memory' = [memory EXCEPT ![b] = m]
  PROVE  MemoryTypes'
BY DEF MemoryTypes, IsArray

LEMMA TaskStores ==
  ASSUME IInv, RunInv, program = "runtime", program' = program,
         RunStrict \/ SoftwareHlsDone \/ XrtDone
  PROVE  RunInv'
<1>1. rpc # "idle" /\ drain_idx <= Len(queue)
  BY DEF RunStrict, SoftwareHlsDone, XrtDone, Draining, IInv, DrainInv
<1>2. Current.o \in Buffers
  BY <1>1, CurrentTask
<1>3. IsArray(memory[Current.o])
  BY <1>2 DEF RunInv, MemoryTypes
<1>4. PICK m : IsArray(m) /\ memory' = [memory EXCEPT ![Current.o] = m]
  <2>1. CASE RunStrict
    <3>1. IsArray(run_attention_strict(CallArguments(Current), memory[Current.o]))
      BY <1>3 DEF run_attention_strict, Applied, Evaluated, IsArray
    <3> QED
      BY <2>1, <3>1 DEF RunStrict, TaskDone
  <2>2. CASE SoftwareHlsDone
    BY <2>2 DEF SoftwareHlsDone, TaskDone, RunInv, OutputFrame
  <2>3. CASE XrtDone
    BY <1>3, <2>3 DEF XrtDone, TaskDone, IsArray
  <2> QED
    BY <2>1, <2>2, <2>3
<1>5. MemoryTypes'
  BY <1>2, <1>4, MatrixWritten DEF RunInv
<1>6. rpc' = "drain"
  BY DEF RunStrict, SoftwareHlsDone, XrtDone, TaskDone
<1> QED
  BY <1>5, <1>6 DEF RunInv

LEMMA NextRunInv == IInv /\ RunInv /\ [Next]_vars => RunInv'
<1> SUFFICES ASSUME IInv, RunInv, [Next]_vars PROVE RunInv'
  OBVIOUS
<1>1. CASE RuntimeProgram
  <2>1. program = "runtime" /\ program' = program
    BY <1>1 DEF RuntimeProgram
  <2>2. CASE RunSoftwareHls \/ LaunchXrt
    BY <2>1, <2>2, KernelStarts
  <2>3. CASE RunStrict \/ SoftwareHlsDone \/ XrtDone
    BY <2>1, <2>3, TaskStores
  <2>4. CASE rpc = "kernel" /\ KernelStep /\ UNCHANGED runtimeVars
    BY <2>1, <2>4, KernelRuns
  <2>5. CASE \E b \in Rewritten, m \in Matrices : Rewrite(b, m)
    <3>1. PICK b \in Rewritten, m \in Matrices : Rewrite(b, m)
      BY <2>5
    <3>2. b \in Buffers /\ IsArray(m)
      BY MemoryAssumption DEF IsArray
    <3>3. rpc' = "idle" /\ memory' = [memory EXCEPT ![b] = m]
      BY <3>1 DEF Rewrite, Called
    <3>4. MemoryTypes'
      BY <3>2, <3>3, MatrixWritten DEF RunInv
    <3> QED
      BY <3>3, <3>4 DEF RunInv
  <2>6. CASE \/ Init_ \/ Drain \/ Clear \/ \E t \in Tasks : Submit(t)
             \/ EnsureBuffers \/ XrtThrows \/ DrainReturns
    <3>1. memory' = memory
      BY <2>6 DEF Init_, Drain, Clear, Submit, EnsureBuffers, XrtThrows, DrainReturns, hostVars
    <3>2. rpc' \in {"idle", "drain"} \/ (rpc' = "launch" /\ options.mode = "xrt" /\ options' = options)
      BY <2>6 DEF Init_, Drain, Clear, Submit, EnsureBuffers, XrtThrows, DrainReturns, Called, Thrown
    <3>3. MemoryTypes'
      BY <3>1 DEF RunInv, MemoryTypes, IsArray
    <3> QED
      BY <2>1, <3>2, <3>3 DEF RunInv
  <2> QED
    BY <1>1, <2>2, <2>3, <2>4, <2>5, <2>6 DEF RuntimeProgram, CallRuntime, DrainStep
<1>2. CASE UNCHANGED runtimeVars /\ program' = program /\ rpc = "idle"
  BY <1>2 DEF runtimeVars, hostVars, RunInv, MemoryTypes, IsArray
<1>3. CASE UNCHANGED vars
  <2>1. MemoryTypes'
    BY <1>3 DEF vars, runtimeVars, hostVars, RunInv, MemoryTypes, IsArray
  <2>2. /\ program' = program /\ rpc' = rpc /\ options' = options /\ call' = call /\ q_start' = q_start
        /\ out' = out /\ memory' = memory /\ Current' = Current
    BY <1>3 DEF vars, runtimeVars, hostVars, kernelVars, tileVars, Current
  <2>3. KernelCall' = KernelCall /\ OutBefore' = OutBefore
    BY <2>2 DEF KernelCall, OutBefore, CallArguments
  <2>4. OutputFrame' <=> OutputFrame
    BY <2>2, <2>3 DEF OutputFrame, IsArray
  <2> QED
    BY <2>1, <2>2, <2>3, <2>4 DEF RunInv
<1>4. CASE RunnerProgram \/ GemvProgram \/ ScoreProgram \/ CoreProgram
  <2>1. program # "runtime" /\ program' = program /\ UNCHANGED runtimeVars
    BY <1>4 DEF RunnerProgram, GemvProgram, ScoreProgram, CoreProgram
  <2>2. rpc = "idle"
    BY <2>1 DEF RunInv
  <2> QED
    BY <1>2, <2>1, <2>2
<1> QED
  BY <1>1, <1>3, <1>4 DEF Next, Over

\* The rows of a matrix of HeadDim columns.
LEMMA RowsAndColumns ==
  ASSUME NEW e \in Nat
  PROVE  /\ e \div HeadDim \in Nat /\ e % HeadDim \in Dims
         /\ (e \div HeadDim) * HeadDim + (e % HeadDim) = e
<1>1. HeadDim \in Nat \ {0}
  BY HlsShape
<1>2. PICK h \in Nat \ {0} : h = HeadDim
  BY <1>1
<1>3. e \div h \in Nat /\ e % h \in 0 .. h - 1 /\ (e \div h) * h + (e % h) = e
  OBVIOUS
<1> QED
  BY <1>2, <1>3 DEF Dims

LEMMA WithinMatrix ==
  ASSUME NEW n \in Nat, NEW i \in 0 .. n - 1, NEW d \in Dims
  PROVE  i * HeadDim + d \in 0 .. MatrixElems(n) - 1
<1>1. PICK h \in Nat \ {0} : h = HeadDim
  BY HlsShape
<1>2. PICK r \in Nat : n = i + 1 + r
  BY n - i - 1 \in Nat
<1>3. n * h = i * h + h + r * h /\ r * h \in Nat /\ i * h \in Nat
  BY <1>2
<1> QED
  BY <1>1, <1>3 DEF MatrixElems, Dims

LEMMA EvaluatedIsItself ==
  ASSUME NEW x PROVE Evaluated(x) = x
BY DEF Evaluated

LEMMA CopiedMatrix ==
  ASSUME NEW m, NEW n \in Nat
  PROVE  Queue!Matrix(Copied(m, n), n) = Queue!Matrix(m, n)
<1>1. ASSUME NEW i \in 0 .. n - 1, NEW d \in 0 .. HeadDim - 1
      PROVE  Copied(m, n)[i * HeadDim + d] = m[i * HeadDim + d]
  BY WithinMatrix DEF Copied, Dims
<1>2. [i \in 0 .. n - 1 |-> [d \in 0 .. HeadDim - 1 |-> Copied(m, n)[i * HeadDim + d]]]
        = [i \in 0 .. n - 1 |-> [d \in 0 .. HeadDim - 1 |-> m[i * HeadDim + d]]]
  BY <1>1
<1> QED
  BY <1>2, EvaluatedIsItself DEF Queue!Matrix

\* What the model computes for the task drain is at.
CurrentRows ==
  Queue!ReferenceRows("RTL_CTX_STEP_ACC24", memory[Current.q], memory[Current.k], memory[Current.v],
                      Current.seq_len, Current.scale, Current.causal, Current.neg_large, FALSE)

LEMMA ReferenceStored ==
  ASSUME options.mode # "strict_q8_8", NEW t, t = Current, NEW rows_, rows_ = CurrentRows
  PROVE  Queue!ReferenceOutput(t) =
           [e \in DOMAIN memory[t.o] |-> IF e \div HeadDim < t.seq_len
                                         THEN rows_[e \div HeadDim][e % HeadDim] ELSE memory[t.o][e]]
<1> DEFINE stored(r) == [e \in DOMAIN memory[t.o] |-> IF e \div HeadDim < t.seq_len
                                                      THEN r[e \div HeadDim][e % HeadDim] ELSE memory[t.o][e]]
           model == IF options.mode = "strict_q8_8" THEN "RTL_STRICT" ELSE "RTL_CTX_STEP_ACC24"
           result == Queue!ReferenceRows(model, memory[t.q], memory[t.k], memory[t.v], t.seq_len,
                                         t.scale, t.causal, t.neg_large, FALSE)
<1>1. Queue!ReferenceOutput(t) = stored(Queue!Evaluated(result))
  BY DEF Queue!ReferenceOutput, Queue!Applied
<1>2. model = "RTL_CTX_STEP_ACC24"
  OBVIOUS
<1>3. result = rows_
  <2> HIDE DEF model
  <2> QED
    BY <1>2 DEF CurrentRows
<1> HIDE DEF result
<1> QED
  BY <1>1, <1>3 DEF Queue!Evaluated


\* A kernel that is done has the model's number wherever there is one.
LEMMA KernelElements ==
  ASSUME IInv, RunInv, KernelMatchesModel, rpc = "kernel", kpc = "done"
  PROVE  \A e \in DOMAIN out : e \div HeadDim < Current.seq_len =>
           out[e] = CurrentRows[e \div HeadDim][e % HeadDim]
<1>1. rpc # "idle" /\ drain_idx <= Len(queue)
  BY DEF IInv, DrainInv
<1>2. PICK t : t = Current
  OBVIOUS
<1>3. t.seq_len \in 1 .. MaxSeqLen /\ t.stride_bytes = 2 * HeadDim /\ t.seq_len \in Nat
  BY <1>1, <1>2, CurrentTask
<1>4. call = KernelCall /\ IsArray(out) /\ options.mode \in {"software_hls", "xrt"}
  BY DEF RunInv, OutputFrame
<1>5. /\ call.seq_len = t.seq_len /\ call.stride_bytes = t.stride_bytes /\ call.scale = t.scale
      /\ call.neg_large = t.neg_large /\ call.causal = t.causal
      /\ options.mode = "software_hls" =>
           call.q = memory[t.q] /\ call.k = memory[t.k] /\ call.v = memory[t.v]
      /\ options.mode = "xrt" =>
           /\ call.q = Copied(memory[t.q], t.seq_len) /\ call.k = Copied(memory[t.k], t.seq_len)
           /\ call.v = Copied(memory[t.v], t.seq_len)
  BY <1>2, <1>4 DEF KernelCall, OnDevice, CallArguments
<1>6. stride = HeadDim
  BY <1>3, <1>5, StrideIsHeadDim DEF stride
<1>7. KernelRows = CurrentRows
  <2>1. KernelRows = Queue!ReferenceRows("RTL_CTX_STEP_ACC24", call.q, call.k, call.v, t.seq_len,
                                         t.scale, t.causal, t.neg_large, FALSE)
    BY <1>5 DEF KernelMatchesModel
  <2>2. CASE options.mode = "software_hls"
    BY <1>2, <1>5, <2>1, <2>2 DEF CurrentRows
  <2>3. CASE options.mode = "xrt"
    <3>1. PICK q, k, v, n, scale, causal, low :
            /\ q = memory[t.q] /\ k = memory[t.k] /\ v = memory[t.v] /\ n = t.seq_len /\ n \in Nat
            /\ scale = t.scale /\ causal = t.causal /\ low = t.neg_large
      BY <1>3
    <3>2. KernelRows = Queue!ReferenceRows("RTL_CTX_STEP_ACC24", Copied(q, n), Copied(k, n), Copied(v, n),
                                           n, scale, causal, low, FALSE)
      BY <1>5, <2>1, <2>3, <3>1
    <3>3. CurrentRows = Queue!ReferenceRows("RTL_CTX_STEP_ACC24", q, k, v, n, scale, causal, low, FALSE)
      BY <1>2, <3>1 DEF CurrentRows
    <3>4. Queue!ReferenceRows("RTL_CTX_STEP_ACC24", Copied(q, n), Copied(k, n), Copied(v, n), n,
                              scale, causal, low, FALSE)
            = Queue!ReferenceRows("RTL_CTX_STEP_ACC24", q, k, v, n, scale, causal, low, FALSE)
      BY <3>1, CopiedMatrix DEF Queue!ReferenceRows, Applied
    <3> QED
      BY <3>2, <3>3, <3>4
  <2> QED
    BY <1>4, <2>2, <2>3
<1>8. ASSUME NEW e \in DOMAIN out, e \div HeadDim < t.seq_len
      PROVE  out[e] = CurrentRows[e \div HeadDim][e % HeadDim]
  <2>1. e \in Nat
    BY <1>4 DEF IsArray
  <2>2. PICK i, d : i = e \div HeadDim /\ d = e % HeadDim
    OBVIOUS
  <2>3. i \in Nat /\ d \in Dims /\ i * HeadDim + d = e
    BY <2>1, <2>2, RowsAndColumns
  <2>4. i \in 0 .. call.seq_len - 1
    BY <1>3, <1>5, <1>8, <2>2, <2>3
  <2>5. KernelRows[i][d] = out[i * HeadDim + d]
    BY <1>6, <2>3, <2>4 DEF KernelRows
  <2> QED
    BY <1>7, <2>2, <2>3, <2>5
<1> QED
  BY <1>2, <1>8

LEMMA SoftwareResult ==
  ASSUME IInv, RunInv, KernelMatchesModel, rpc = "kernel", kpc = "done", options.mode = "software_hls"
  PROVE  out = Queue!ReferenceOutput(Current)
<1>1. PICK t, rows_ : t = Current /\ rows_ = CurrentRows
  OBVIOUS
<1>2. Queue!ReferenceOutput(t) =
        [e \in DOMAIN memory[t.o] |-> IF e \div HeadDim < t.seq_len
                                      THEN rows_[e \div HeadDim][e % HeadDim] ELSE memory[t.o][e]]
  BY <1>1, ReferenceStored
<1>3. /\ out = [e \in DOMAIN memory[t.o] |-> out[e]]
      /\ \A e \in DOMAIN memory[t.o] : ~(e \div HeadDim < call.seq_len) => out[e] = memory[t.o][e]
  BY <1>1 DEF RunInv, OutputFrame, OutBefore, IsArray
<1>4. call.seq_len = t.seq_len
  BY <1>1 DEF RunInv, KernelCall, CallArguments
<1>5. \A e \in DOMAIN memory[t.o] :
         e \div HeadDim < t.seq_len => out[e] = rows_[e \div HeadDim][e % HeadDim]
  BY <1>1, <1>3, KernelElements
<1>6. ASSUME NEW e \in DOMAIN memory[t.o]
      PROVE  out[e] = IF e \div HeadDim < t.seq_len THEN rows_[e \div HeadDim][e % HeadDim]
                                                    ELSE memory[t.o][e]
  BY <1>3, <1>4, <1>5
<1> QED
  BY <1>1, <1>2, <1>3, <1>6

LEMMA XrtResult ==
  ASSUME IInv, RunInv, KernelMatchesModel, rpc = "kernel", kpc = "done", options.mode = "xrt"
  PROVE  [e \in DOMAIN memory[Current.o] |-> IF e \in DOMAIN out THEN out[e] ELSE memory[Current.o][e]]
           = Queue!ReferenceOutput(Current)
<1>1. PICK t, rows_ : t = Current /\ rows_ = CurrentRows
  OBVIOUS
<1>2. Queue!ReferenceOutput(t) =
        [e \in DOMAIN memory[t.o] |-> IF e \div HeadDim < t.seq_len
                                      THEN rows_[e \div HeadDim][e % HeadDim] ELSE memory[t.o][e]]
  BY <1>1, ReferenceStored
<1>3. rpc # "idle" /\ drain_idx <= Len(queue)
  BY DEF IInv, DrainInv
<1>4. t.o \in Buffers /\ t.seq_len \in 1 .. MaxSeqLen /\ t.seq_len \in Nat
  BY <1>1, <1>3, CurrentTask
<1>5. DOMAIN memory[t.o] \subseteq Nat
  BY <1>4 DEF RunInv, MemoryTypes, IsArray
<1>6. DOMAIN out = 0 .. MatrixElems(t.seq_len) - 1
  BY <1>1 DEF RunInv, OutputFrame, OutBefore, ZeroMatrix
<1>7. ASSUME NEW e \in DOMAIN memory[t.o] PROVE e \in DOMAIN out <=> e \div HeadDim < t.seq_len
  <2>1. PICK h, i, d : h \in Nat \ {0} /\ h = HeadDim /\ i = e \div HeadDim /\ d = e % HeadDim
    BY HlsShape
  <2>2. e \in Nat /\ i \in Nat /\ d \in 0 .. h - 1 /\ e = i * h + d
    BY <1>5, <2>1, RowsAndColumns DEF Dims
  <2>3. CASE i < t.seq_len
    <3>1. i \in 0 .. t.seq_len - 1 /\ d \in Dims
      BY <1>4, <2>1, <2>2, <2>3 DEF Dims
    <3>2. i * HeadDim + d \in 0 .. MatrixElems(t.seq_len) - 1
      BY <1>4, <3>1, WithinMatrix
    <3>3. e = i * HeadDim + d
      BY <2>1, <2>2
    <3>4. e \in DOMAIN out
      BY <1>6, <3>2, <3>3
    <3> QED
      BY <2>1, <2>3, <3>4
  <2>4. CASE ~(i < t.seq_len)
    <3>1. PICK r \in Nat : i = t.seq_len + r
      BY <1>4, <2>2, <2>4, i - t.seq_len \in Nat
    <3>2. i * h = t.seq_len * h + r * h /\ r * h \in Nat /\ t.seq_len * h \in Nat
      BY <1>4, <2>1, <3>1
    <3>3. e >= t.seq_len * h
      BY <2>2, <3>2
    <3> QED
      BY <1>6, <2>1, <2>2, <2>4, <3>2, <3>3 DEF MatrixElems
  <2> QED
    BY <2>1, <2>3, <2>4
<1>8. \A e \in DOMAIN out : e \div HeadDim < t.seq_len => out[e] = rows_[e \div HeadDim][e % HeadDim]
  BY <1>1, KernelElements
<1> QED
  BY <1>1, <1>2, <1>7, <1>8


\* The oldest of the tasks that wait is the one drain is at.
LEMMA WaitingTasks ==
  ASSUME NEW S, NEW s \in Seq(S), NEW i \in 1 .. Len(s)
  PROVE  /\ SubSeq(s, i, Len(s)) # <<>> /\ Head(SubSeq(s, i, Len(s))) = s[i]
         /\ Tail(SubSeq(s, i, Len(s))) = SubSeq(s, i + 1, Len(s))
OBVIOUS

LEMMA WholeQueue ==
  ASSUME NEW S, NEW s \in Seq(S)
  PROVE  SubSeq(s, 1, Len(s)) = s /\ SubSeq(s, Len(s) + 1, Len(s)) = <<>>
OBVIOUS


LEMMA TaskExecuted ==
  ASSUME IInv, RunInv, KernelMatchesModel, program = "runtime", RunStrict \/ SoftwareHlsDone \/ XrtDone
  PROVE  Queue!Execute
<1>1. rpc # "idle" /\ drain_idx <= Len(queue)
  BY DEF RunStrict, SoftwareHlsDone, XrtDone, Draining, IInv, DrainInv
<1>2. queue \in Seq(Tasks) /\ drain_idx \in 1 .. Len(queue)
  BY <1>1, CurrentTask
<1>3. /\ Waiting # <<>> /\ Head(Waiting) = Current
      /\ Tail(Waiting) = SubSeq(queue, drain_idx + 1, Len(queue))
  BY <1>1, <1>2, WaitingTasks DEF Waiting, Current
<1>4. memory' = [memory EXCEPT ![Current.o] = Queue!ReferenceOutput(Current)]
  <2>1. CASE RunStrict
    BY <1>1, <2>1 DEF RunStrict, TaskDone, KernelMatchesModel
  <2>2. CASE SoftwareHlsDone
    BY <2>2, SoftwareResult DEF SoftwareHlsDone, TaskDone
  <2>3. CASE XrtDone
    BY <2>3, XrtResult DEF XrtDone, TaskDone
  <2> QED
    BY <2>1, <2>2, <2>3
<1>5. /\ rpc' = "drain" /\ drain_idx' = drain_idx + 1 /\ queue' = queue /\ options' = options
      /\ answer' = answer
  BY DEF RunStrict, SoftwareHlsDone, XrtDone, TaskDone
<1>6. Waiting' = Tail(Waiting)
  BY <1>3, <1>5 DEF Waiting
<1> QED
  BY <1>1, <1>3, <1>4, <1>5, <1>6 DEF Queue!Execute

\* A call that throws gives up the tasks that wait.
LEMMA TasksGivenUp ==
  ASSUME IInv, RunInv, program = "runtime", EnsureBuffers \/ XrtThrows, Thrown
  PROVE  Queue!GiveUp
<1>1. rpc # "idle" /\ drain_idx <= Len(queue)
  BY DEF EnsureBuffers, XrtThrows, Draining, IInv, DrainInv
<1>2. queue \in Seq(Tasks) /\ drain_idx \in 1 .. Len(queue)
  BY <1>1, CurrentTask
<1>3. Waiting # <<>>
  BY <1>1, <1>2, WaitingTasks DEF Waiting
<1>4. /\ rpc' = "idle" /\ queue' = <<>> /\ answer' = FALSE
      /\ options' = options /\ memory' = memory
  BY DEF Thrown, EnsureBuffers, XrtThrows, hostVars
<1> QED
  BY <1>3, <1>4 DEF Queue!GiveUp, Waiting

LEMMA QueueMove ==
  IInv /\ RunInv /\ KernelMatchesModel /\ [Next]_vars => [Queue!Next]_(Queue!queueVars)
<1> SUFFICES ASSUME IInv, RunInv, KernelMatchesModel, [Next]_vars
             PROVE  Queue!Next \/ UNCHANGED Queue!queueVars
  OBVIOUS
<1>1. CASE UNCHANGED runtimeVars
  BY <1>1 DEF runtimeVars, hostVars, Queue!queueVars, Waiting
<1>2. CASE RuntimeProgram
  <2>1. program = "runtime" /\ queue \in Seq(Tasks)
    BY <1>2 DEF RuntimeProgram, IInv, QueueTypes
  <2>2. CASE RunStrict \/ SoftwareHlsDone \/ XrtDone
    BY <2>1, <2>2, TaskExecuted DEF Queue!Next
  <2>3. CASE (EnsureBuffers \/ XrtThrows) /\ Thrown
    BY <2>1, <2>3, TasksGivenUp DEF Queue!Next
  <2>4. CASE XrtThrows
    BY <2>3, <2>4 DEF XrtThrows
  <2>5. CASE RunSoftwareHls \/ LaunchXrt \/ (EnsureBuffers /\ ~Thrown)
    <3>1. /\ rpc # "idle" /\ rpc' # "idle" /\ queue' = queue /\ drain_idx' = drain_idx /\ answer' = answer
          /\ options' = options /\ memory' = memory
      BY <2>5 DEF RunSoftwareHls, LaunchXrt, EnsureBuffers, Draining, hostVars
    <3> QED
      BY <3>1 DEF Queue!queueVars, Waiting
  <2>6. CASE rpc = "kernel" /\ KernelStep /\ UNCHANGED runtimeVars
    BY <1>1, <2>6
  <2>7. CASE DrainReturns
    <3>1. /\ rpc = "drain" /\ drain_idx = Len(queue) + 1
      BY <2>7 DEF DrainReturns, IInv, DrainInv, QueueTypes
    <3>2. Waiting = <<>>
      BY <2>1, <3>1, WholeQueue DEF Waiting
    <3>3. /\ rpc' = "idle" /\ queue' = <<>> /\ options' = options /\ memory' = memory
      BY <2>7 DEF DrainReturns, hostVars
    <3> QED
      BY <3>1, <3>2, <3>3 DEF Queue!Next, Queue!Answer, Waiting
  <2>8. CASE Init_ \/ Drain
    <3>1. /\ rpc = "idle" /\ queue' = queue /\ options' = options /\ memory' = memory
          /\ rpc' = "drain" => drain_idx' = 1
          /\ rpc' \in {"idle", "drain"}
      BY <2>8 DEF Init_, Drain, Called, hostVars
    <3>2. Waiting = queue /\ Waiting' = queue
      BY <2>1, <3>1, WholeQueue DEF Waiting
    <3> QED
      BY <3>1, <3>2 DEF Queue!Next, Queue!Answer, Queue!queueVars
  <2>9. CASE Clear
    <3>1. /\ rpc = "idle" /\ rpc' = "idle" /\ queue' = <<>> /\ options' = options /\ memory' = memory
          /\ answer' = answer
      BY <2>9 DEF Clear, Called, hostVars
    <3> QED
      BY <3>1 DEF Queue!Next, Queue!GiveUp, Queue!queueVars, Waiting
  <2>10. ASSUME NEW t \in Tasks, Submit(t) PROVE Queue!Next \/ UNCHANGED Queue!queueVars
    <3>1. rpc = "idle" /\ options' = options /\ memory' = memory /\ Waiting = queue
      BY <2>10 DEF Submit, Called, hostVars, Waiting
    <3>2. CASE queue' = queue /\ rpc' = rpc
      BY <3>1, <3>2 DEF Queue!Next, Queue!Answer, Queue!queueVars, Waiting
    <3>3. CASE queue' = Append(queue, t)
      <4>1. \/ rpc' = "drain" /\ drain_idx' = 1
            \/ rpc' = "idle" /\ answer' = TRUE
        BY <2>10, <3>1, <3>3 DEF Submit
      <4>2. queue' \in Seq(Tasks)
        BY <2>1, <3>3
      <4>3. Waiting' = Append(Waiting, t)
        BY <3>1, <3>3, <4>1, <4>2, WholeQueue DEF Waiting
      <4>4. CASE ~validate_task(t)
        <5>1. queue' = queue /\ rpc' = rpc
          BY <2>10, <3>1, <4>4 DEF Submit, Opens
        <5> QED
          BY <3>2, <5>1
      <4>5. CASE validate_task(t)
        BY <2>10, <3>1, <4>1, <4>3, <4>5 DEF Queue!Next, Queue!Accept
      <4> QED
        BY <4>4, <4>5
    <3> QED
      BY <2>10, <3>2, <3>3 DEF Submit
  <2>11. ASSUME NEW b \in Rewritten, NEW m \in Matrices, Rewrite(b, m) PROVE Queue!Next
    <3>1. b \in Buffers
      BY MemoryAssumption
    <3>2. /\ rpc = "idle" /\ rpc' = "idle" /\ queue' = queue /\ options' = options /\ answer' = answer
          /\ memory' = [memory EXCEPT ![b] = m]
      BY <2>11 DEF Rewrite, Called
    <3> QED
      BY <3>1, <3>2 DEF Queue!Next, Queue!Write, Waiting
  <2> QED
    BY <1>2, <2>2, <2>3, <2>4, <2>5, <2>6, <2>7, <2>8, <2>9, <2>10, <2>11
    DEF RuntimeProgram, CallRuntime, DrainStep
<1> QED
  BY <1>1, <1>2 DEF Next, RunnerProgram, GemvProgram, ScoreProgram, CoreProgram, Over, vars

\* The runtime implements TaskQueue: whatever its caller does and whatever throws,
\* tasks are run in the order in which they were accepted, each once, on the operands
\* of that time and into their own output. That the kernels compute what the C model
\* does is the hypothesis.
THEOREM RuntimeKeepsItsPromise == Spec /\ []KernelMatchesModel => TasksRunAsPromised
<1>1. Init => Queue!Init
  BY DEF Init, RuntimeInit, Queue!Init, Waiting
<1>2. Spec => []RunInv
  BY InitRunInv, NextRunInv, QueueInvariant, PTL DEF Spec
<1> QED
  BY <1>1, <1>2, QueueMove, QueueInvariant, PTL DEF Spec, TasksRunAsPromised, Queue!Spec

-----------------------------------------------------------------------------
(* The pipelines of the RTL core.  A batch is issued without a gap, so the  *)
(* number n of edges since it began tells where everything of it is: what   *)
(* was issued in i-th place is n - i - 1 edges old.                         *)

\* How many chunks of dot products a batch issues, and the place of one of them.
Issues == core.TK * SOFTMAX_CTXS * DP_CHUNKS
Place(slot, kj, chunk) == (kj * SOFTMAX_CTXS + slot) * DP_CHUNKS + chunk

Slots == 0 .. SOFTMAX_CTXS - 1
Keys  == 0 .. core.TK - 1

IssueAt(n) ==
  /\ qk_issue \in [slot : Slots, kj : Keys, chunk : 0 .. DP_CHUNKS - 1, done : BOOLEAN]
  /\ IF qk_issue.done THEN n >= Issues ELSE n = Place(qk_issue.slot, qk_issue.kj, qk_issue.chunk)

\* Eight stages, which is as many as the slice and the tags have.
Pipe(stages) == stages = [i \in 1 .. 8 |-> stages[i]]

\* The i-th stage of the slice and of the tags.
SliceAt(i, n) ==
  IF i <= n /\ n - i < Issues
  THEN /\ qk_slice[i].valid
       /\ qk_tag[i].slot \in Slots /\ qk_tag[i].kj \in Keys /\ qk_tag[i].chunk_last \in BOOLEAN
       /\ qk_tag[i].chunk_last \/ DP_CHUNKS = 2
       /\ n - i = Place(qk_tag[i].slot, qk_tag[i].kj,
                        IF qk_tag[i].chunk_last THEN DP_CHUNKS - 1 ELSE 0)
  ELSE qk_slice[i] = Empty

\* A dot product of which the given chunk is the last that is in it.
ScoreAt(s, chunk, place) ==
  s # Empty =>
    /\ DOMAIN s = {"valid", "slot", "kj", "sums"}
    /\ s.valid = TRUE /\ s.slot \in Slots /\ s.kj \in Keys
    /\ place = Place(s.slot, s.kj, chunk)

\* A stage of the softmax: only the last place ends the rows of the last slot.
StageAt(s, place) ==
  s # Empty =>
    /\ {"valid", "ctx", "row_end", "row"} \subseteq DOMAIN s
    /\ s.valid = TRUE /\ s.row_end \in BOOLEAN
    /\ place \in 0 .. Issues - 1
    /\ s.row_end /\ s.ctx = SOFTMAX_CTXS - 1 => place = Issues - 1

Timeline(n) ==
  /\ IssueAt(n)
  /\ \A i \in 1 .. QK_STAGES : SliceAt(i, n)
  /\ ret_first # Empty => DP_CHUNKS = 2
  /\ ScoreAt(ret_first, 0, n - 9)
  /\ ScoreAt(score_issue, DP_CHUNKS - 1, n - 9)
  /\ \A i \in 0 .. 4 : StageAt(sm[i], n - 10 - i)
  /\ StageAt(sm_out, n - 15)
  /\ SOFTMAX_CTXS - 1 \in batch_done_mask => n >= Issues + 15

Drained ==
  /\ \A i \in 1 .. QK_STAGES : qk_slice[i] = Empty
  /\ ret_first = Empty /\ score_issue = Empty
  /\ \A i \in 0 .. 4 : sm[i] = Empty
  /\ sm_out = Empty

PipelineInv ==
  /\ cs \in {"C_IDLE", "C_DP_RUN", "C_DONE"}
  /\ Pipe(qk_slice) /\ Pipe(qk_tag) /\ DOMAIN sm = 0 .. 4
  /\ IF cs = "C_DP_RUN" THEN \E n \in Nat : Timeline(n) ELSE Drained

CoreInv == program = "core" => core \in CoreCases /\ PipelineInv

LEMMA CaseShape ==
  ASSUME core \in CoreCases
  PROVE  core.TK \in Nat \ {0} /\ DP_CHUNKS \in 1 .. 2 /\ Issues \in Nat \ {0}
<1>1. core.TK \in Nat \ {0} /\ DP_CHUNKS \in 1 .. 2
  BY CoreShape DEF DP_CHUNKS
<1>2. DP_CHUNKS = 1 \/ DP_CHUNKS = 2
  BY <1>1
<1> QED
  BY <1>1, <1>2 DEF Issues, SOFTMAX_CTXS

\* The places of a batch's chunks: the last chunk of the last slot and key is the last.
LEMMA Places ==
  ASSUME core \in CoreCases, NEW slot \in Slots, NEW kj \in Keys, NEW chunk \in 0 .. DP_CHUNKS - 1
  PROVE  /\ Place(slot, kj, chunk) \in 0 .. Issues - 1
         /\ chunk < DP_CHUNKS - 1 => Place(slot, kj, chunk + 1) = Place(slot, kj, chunk) + 1
         /\ chunk = DP_CHUNKS - 1 =>
              /\ slot < SOFTMAX_CTXS - 1 => Place(slot + 1, kj, 0) = Place(slot, kj, chunk) + 1
              /\ slot = SOFTMAX_CTXS - 1 => Place(0, kj + 1, 0) = Place(slot, kj, chunk) + 1
              /\ slot = SOFTMAX_CTXS - 1 /\ kj = core.TK - 1 => Place(slot, kj, chunk) = Issues - 1
<1>1. PICK k \in Nat \ {0} : k = core.TK
  BY CaseShape
<1>2. CASE DP_CHUNKS = 1
  BY <1>1, <1>2 DEF Place, Issues, SOFTMAX_CTXS, Slots, Keys
<1>3. CASE DP_CHUNKS = 2
  BY <1>1, <1>3 DEF Place, Issues, SOFTMAX_CTXS, Slots, Keys
<1> QED
  BY <1>2, <1>3, CaseShape

LEMMA ShiftedPipe ==
  ASSUME NEW pipe, Pipe(pipe), NEW entry, NEW piped, piped = Shifted(pipe, entry)
  PROVE  /\ Pipe(piped)
         /\ piped[1] = entry
         /\ \A i \in 1 .. 7 : piped[i + 1] = pipe[i]
<1> DEFINE S == {pipe[i] : i \in 1 .. 8} \cup {entry}
<1>1. pipe \in Seq(S) /\ Len(pipe) = 8
  <2>1. pipe \in [1 .. 8 -> S]
    BY DEF Pipe
  <2> QED
    BY <2>1 DEF Pipe
<1>2. /\ Front(pipe) \in Seq(S) /\ Len(Front(pipe)) = 7
      /\ \A i \in 1 .. 7 : Front(pipe)[i] = pipe[i]
  BY <1>1 DEF Front
<1>3. <<entry>> \in Seq(S) /\ Len(<<entry>>) = 1 /\ <<entry>>[1] = entry
  OBVIOUS
<1> HIDE DEF S
<1>4. PICK f \in Seq(S) : f = Front(pipe)
  BY <1>2
<1>5. PICK e \in Seq(S) : e = <<entry>>
  BY <1>3
<1>6. /\ e \o f \in Seq(S) /\ Len(e \o f) = Len(e) + Len(f)
      /\ \A i \in 1 .. Len(e) + Len(f) : (e \o f)[i] = IF i <= Len(e) THEN e[i] ELSE f[i - Len(e)]
  BY ConcatProperties
<1>7. piped \in Seq(S) /\ piped = e \o f
  BY <1>4, <1>5, <1>6 DEF Shifted
<1>8. Len(piped) = 8 /\ \A i \in 1 .. 8 : piped[i] = IF i <= 1 THEN e[i] ELSE f[i - 1]
  <2>1. Len(e) = 1 /\ Len(f) = 7
    BY <1>2, <1>3, <1>4, <1>5
  <2> QED
    BY <1>6, <1>7, <2>1
<1>9. ASSUME NEW i \in 1 .. 7 PROVE piped[i + 1] = pipe[i]
  <2>1. i + 1 \in 1 .. 8 /\ ~(i + 1 <= 1) /\ (i + 1) - 1 = i
    OBVIOUS
  <2> QED
    BY <1>2, <1>4, <1>8, <2>1
<1>10. Pipe(piped)
  <2>1. piped = [i \in 1 .. Len(piped) |-> piped[i]]
    <3>1. piped \in [1 .. Len(piped) -> S]
      BY <1>7, LenProperties
    <3> QED
      BY <3>1
  <2> QED
    BY <1>8, <2>1 DEF Pipe
<1>11. piped[1] = entry
  BY <1>3, <1>5, <1>8
<1> QED
  BY <1>9, <1>10, <1>11


LEMMA IssueStep ==
  ASSUME core \in CoreCases, core' = core, NEW n \in Nat, IssueAt(n), qk_issue' = NextIssue
  PROVE  IssueAt(n + 1)'
<1>1. /\ DP_CHUNKS' = DP_CHUNKS /\ Keys' = Keys /\ Issues' = Issues
      /\ \A slot, kj, chunk : Place(slot, kj, chunk)' = Place(slot, kj, chunk)
  BY DEF DP_CHUNKS, Keys, Issues, Place
<1>2. /\ qk_issue \in [slot : Slots, kj : Keys, chunk : 0 .. DP_CHUNKS - 1, done : BOOLEAN]
      /\ IF qk_issue.done THEN n >= Issues ELSE n = Place(qk_issue.slot, qk_issue.kj, qk_issue.chunk)
  BY DEF IssueAt
<1>3. PICK slot \in Slots, kj \in Keys, chunk \in 0 .. DP_CHUNKS - 1, done \in BOOLEAN :
        qk_issue = [slot |-> slot, kj |-> kj, chunk |-> chunk, done |-> done]
  BY <1>2
<1>4. core.TK \in Nat \ {0} /\ DP_CHUNKS \in 1 .. 2 /\ Issues \in Nat \ {0}
  BY CaseShape
<1>5. CASE done
  BY <1>1, <1>2, <1>3, <1>4, <1>5 DEF IssueAt, NextIssue
<1>6. CASE ~done
  <2>1. n = Place(slot, kj, chunk)
    BY <1>2, <1>3, <1>6
  <2>2. CASE chunk < DP_CHUNKS - 1
    <3>1. qk_issue' = [slot |-> slot, kj |-> kj, chunk |-> chunk + 1, done |-> FALSE]
      BY <1>3, <1>6, <2>2 DEF NextIssue
    <3>2. chunk + 1 \in 0 .. DP_CHUNKS - 1 /\ Place(slot, kj, chunk + 1) = n + 1
      BY <1>4, <2>1, <2>2, Places
    <3> QED
      BY <1>1, <3>1, <3>2 DEF IssueAt
  <2>3. CASE ~(chunk < DP_CHUNKS - 1) /\ slot < SOFTMAX_CTXS - 1
    <3>1. qk_issue' = [slot |-> slot + 1, kj |-> kj, chunk |-> 0, done |-> FALSE]
      BY <1>3, <1>6, <2>3 DEF NextIssue
    <3>2. chunk = DP_CHUNKS - 1 /\ 0 \in 0 .. DP_CHUNKS - 1
      BY <1>4, <2>3
    <3>3. slot + 1 \in Slots
      BY <2>3 DEF Slots, SOFTMAX_CTXS
    <3>4. Place(slot + 1, kj, 0) = n + 1
      BY <2>1, <2>3, <3>2, Places
    <3> QED
      BY <1>1, <3>1, <3>2, <3>3, <3>4 DEF IssueAt
  <2>4. CASE /\ ~(chunk < DP_CHUNKS - 1) /\ ~(slot < SOFTMAX_CTXS - 1)
             /\ kj < core.TK - 1
    <3>1. qk_issue' = [slot |-> 0, kj |-> kj + 1, chunk |-> 0, done |-> FALSE]
      BY <1>3, <1>6, <2>4 DEF NextIssue
    <3>2. chunk = DP_CHUNKS - 1 /\ 0 \in 0 .. DP_CHUNKS - 1
      BY <1>4, <2>4
    <3>3. slot = SOFTMAX_CTXS - 1 /\ 0 \in Slots /\ kj + 1 \in Keys
      BY <1>4, <2>4 DEF Slots, SOFTMAX_CTXS, Keys
    <3>4. Place(0, kj + 1, 0) = n + 1
      BY <2>1, <3>2, <3>3, Places
    <3> QED
      BY <1>1, <3>1, <3>2, <3>3, <3>4 DEF IssueAt
  <2>5. CASE /\ ~(chunk < DP_CHUNKS - 1) /\ ~(slot < SOFTMAX_CTXS - 1)
             /\ ~(kj < core.TK - 1)
    <3>1. qk_issue' = [slot |-> 0, kj |-> kj, chunk |-> 0, done |-> TRUE]
      BY <1>3, <1>6, <2>5 DEF NextIssue
    <3>2. chunk = DP_CHUNKS - 1 /\ 0 \in 0 .. DP_CHUNKS - 1
      BY <1>4, <2>5
    <3>3. slot = SOFTMAX_CTXS - 1 /\ 0 \in Slots /\ kj = core.TK - 1
      BY <1>4, <2>5 DEF Slots, SOFTMAX_CTXS, Keys
    <3>4. n = Issues - 1
      BY <2>1, <3>2, <3>3, Places
    <3> QED
      BY <1>1, <1>4, <3>1, <3>2, <3>3, <3>4 DEF IssueAt
  <2> QED
    BY <2>2, <2>3, <2>4, <2>5
<1> QED
  BY <1>5, <1>6

\* Slice and tags move on together, and take in what is issued.
LEMMA SliceStep ==
  ASSUME core \in CoreCases, core' = core, cs = "C_DP_RUN", NEW n \in Nat, IssueAt(n),
         \A i \in 1 .. QK_STAGES : SliceAt(i, n),
         Pipe(qk_slice), Pipe(qk_tag), SliceClock, TagClock
  PROVE  \A i \in 1 .. QK_STAGES : SliceAt(i, n + 1)'
<1>1. /\ DP_CHUNKS' = DP_CHUNKS /\ Keys' = Keys /\ Issues' = Issues
      /\ \A slot, kj, chunk : Place(slot, kj, chunk)' = Place(slot, kj, chunk)
  BY DEF DP_CHUNKS, Keys, Issues, Place
<1>2. PICK slot \in Slots, kj \in Keys, chunk \in 0 .. DP_CHUNKS - 1, done \in BOOLEAN :
        /\ qk_issue = [slot |-> slot, kj |-> kj, chunk |-> chunk, done |-> done]
        /\ IF done THEN n >= Issues ELSE n = Place(slot, kj, chunk)
  BY DEF IssueAt
<1>3. core.TK \in Nat \ {0} /\ DP_CHUNKS \in 1 .. 2 /\ Issues \in Nat \ {0}
  BY CaseShape
<1>4. PICK sums, entry, tag :
        /\ entry = (IF ~done THEN [valid |-> TRUE, sums |-> sums] ELSE Empty)
        /\ tag = [slot |-> slot, kj |-> kj, chunk_last |-> chunk = DP_CHUNKS - 1]
        /\ qk_slice' = Shifted(qk_slice, entry)
        /\ qk_tag' = Shifted(qk_tag, tag)
  BY <1>2 DEF SliceClock, TagClock, qk_issue_valid
<1>5. PICK slice, tags : slice = qk_slice' /\ tags = qk_tag'
  OBVIOUS
<1>6. qk_slice'[1] = entry /\ \A i \in 1 .. 7 : qk_slice'[i + 1] = qk_slice[i]
  BY <1>4, <1>5, ShiftedPipe
<1>7. qk_tag'[1] = tag /\ \A i \in 1 .. 7 : qk_tag'[i + 1] = qk_tag[i]
  BY <1>4, <1>5, ShiftedPipe
<1>8. SliceAt(1, n + 1)'
  <2>1. /\ done => qk_slice'[1] = Empty
        /\ ~done => qk_slice'[1] = [valid |-> TRUE, sums |-> sums]
    BY <1>4, <1>6
  <2>2. qk_tag'[1] = [slot |-> slot, kj |-> kj, chunk_last |-> chunk = DP_CHUNKS - 1]
    BY <1>4, <1>7
  <2>3. CASE done
    <3>1. ~((n + 1) - 1 < Issues)
      BY <1>2, <1>3, <2>3
    <3> QED
      BY <1>1, <2>1, <2>3, <3>1 DEF SliceAt
  <2>4. CASE ~done
    <3>1. n = Place(slot, kj, chunk) /\ n \in 0 .. Issues - 1
      BY <1>2, <2>4, Places
    <3>2. chunk = IF chunk = DP_CHUNKS - 1 THEN DP_CHUNKS - 1 ELSE 0
      BY <1>3
    <3>3. (n + 1) - 1 = Place(slot, kj, IF chunk = DP_CHUNKS - 1 THEN DP_CHUNKS - 1 ELSE 0)
      BY <3>1, <3>2
    <3>4. 1 <= n + 1 /\ (n + 1) - 1 < Issues
      BY <1>3, <3>1
    <3>5. /\ qk_tag'[1].slot = slot /\ qk_tag'[1].kj = kj
          /\ qk_tag'[1].chunk_last = (chunk = DP_CHUNKS - 1) /\ qk_slice'[1].valid
      BY <2>1, <2>2, <2>4
    <3>6. chunk = DP_CHUNKS - 1 \/ DP_CHUNKS = 2
      BY <1>3
    <3> QED
      BY <1>1, <3>3, <3>4, <3>5, <3>6 DEF SliceAt
  <2> QED
    BY <2>3, <2>4
<1>9. ASSUME NEW i \in 2 .. QK_STAGES PROVE SliceAt(i, n + 1)'
  <2>1. PICK j \in 1 .. QK_STAGES : j = i - 1
    BY <1>9 DEF QK_STAGES
  <2>2. qk_slice'[i] = qk_slice[j] /\ qk_tag'[i] = qk_tag[j]
    <3>1. j \in 1 .. 7 /\ i = j + 1
      BY <2>1 DEF QK_STAGES
    <3> QED
      BY <1>6, <1>7, <3>1
  <2>3. (n + 1) - i = n - j /\ (i <= n + 1 <=> j <= n)
    BY <2>1 DEF QK_STAGES
  <2>4. SliceAt(j, n)
    BY <2>1
  <2> QED
    BY <1>1, <2>2, <2>3, <2>4 DEF SliceAt
<1> QED
  BY <1>8, <1>9 DEF QK_STAGES

\* What leaves the slice is a score, or waits for its second half.
LEMMA CollectStep ==
  ASSUME core \in CoreCases, core' = core, NEW n \in Nat, Timeline(n), Collect
  PROVE  /\ ret_first' # Empty => DP_CHUNKS' = 2
         /\ ScoreAt(ret_first, 0, n - 8)'
         /\ ScoreAt(score_issue, DP_CHUNKS - 1, n - 8)'
<1>1. /\ DP_CHUNKS' = DP_CHUNKS /\ Keys' = Keys /\ Issues' = Issues
      /\ \A slot, kj, chunk : Place(slot, kj, chunk)' = Place(slot, kj, chunk)
  BY DEF DP_CHUNKS, Keys, Issues, Place
<1>2. core.TK \in Nat \ {0} /\ DP_CHUNKS \in 1 .. 2 /\ Issues \in Nat \ {0}
  BY CaseShape
<1>3. PICK part, tag : part = qk_slice[8] /\ tag = qk_tag[8]
  OBVIOUS
<1>4. IF 8 <= n /\ n - 8 < Issues
      THEN /\ part.valid
           /\ tag.slot \in Slots /\ tag.kj \in Keys /\ tag.chunk_last \in BOOLEAN
           /\ tag.chunk_last \/ DP_CHUNKS = 2
           /\ n - 8 = Place(tag.slot, tag.kj, IF tag.chunk_last THEN DP_CHUNKS - 1 ELSE 0)
      ELSE part = Empty
  BY <1>3 DEF Timeline, SliceAt, QK_STAGES
<1>5. ret_first # Empty =>
        /\ DP_CHUNKS = 2 /\ DOMAIN ret_first = {"valid", "slot", "kj", "sums"}
        /\ ret_first.valid = TRUE /\ ret_first.slot \in Slots /\ ret_first.kj \in Keys
        /\ n - 9 = Place(ret_first.slot, ret_first.kj, 0)
        /\ n - 8 = Place(ret_first.slot, ret_first.kj, 1)
        /\ 8 <= n /\ n - 8 < Issues
  <2> SUFFICES ASSUME ret_first # Empty
               PROVE  /\ DP_CHUNKS = 2 /\ DOMAIN ret_first = {"valid", "slot", "kj", "sums"}
                      /\ ret_first.valid = TRUE /\ ret_first.slot \in Slots /\ ret_first.kj \in Keys
                      /\ n - 9 = Place(ret_first.slot, ret_first.kj, 0)
                      /\ n - 8 = Place(ret_first.slot, ret_first.kj, 1)
                      /\ 8 <= n /\ n - 8 < Issues
    OBVIOUS
  <2>1. /\ DP_CHUNKS = 2 /\ DOMAIN ret_first = {"valid", "slot", "kj", "sums"}
        /\ ret_first.valid = TRUE /\ ret_first.slot \in Slots /\ ret_first.kj \in Keys
        /\ n - 9 = Place(ret_first.slot, ret_first.kj, 0)
    BY DEF Timeline, ScoreAt
  <2>2. PICK slot \in Slots, kj \in Keys : slot = ret_first.slot /\ kj = ret_first.kj
    BY <2>1
  <2>3. 0 \in 0 .. DP_CHUNKS - 1 /\ 1 \in 0 .. DP_CHUNKS - 1 /\ 0 < DP_CHUNKS - 1
    BY <2>1
  <2>4. /\ Place(slot, kj, 0) \in 0 .. Issues - 1 /\ Place(slot, kj, 1) \in 0 .. Issues - 1
        /\ Place(slot, kj, 0 + 1) = Place(slot, kj, 0) + 1
    BY <2>3, Places
  <2> QED
    BY <1>2, <2>1, <2>2, <2>4
<1>6. CASE ~(8 <= n /\ n - 8 < Issues)
  <2>1. ret_first = Empty /\ part = Empty
    BY <1>4, <1>5, <1>6
  <2>2. ret_first' = Empty /\ score_issue' = Empty
    BY <1>3, <2>1 DEF Collect, QK_STAGES, QK_LAT, Empty
  <2> QED
    BY <2>2 DEF ScoreAt
<1>7. CASE 8 <= n /\ n - 8 < Issues
  <2>1. /\ part.valid
        /\ tag.slot \in Slots /\ tag.kj \in Keys /\ tag.chunk_last \in BOOLEAN
        /\ tag.chunk_last \/ DP_CHUNKS = 2
        /\ n - 8 = Place(tag.slot, tag.kj, IF tag.chunk_last THEN DP_CHUNKS - 1 ELSE 0)
    BY <1>4, <1>7
  <2>2. PICK got : /\ got = [valid |-> TRUE, slot |-> tag.slot, kj |-> tag.kj, sums |-> part.sums]
                   /\ got = [valid |-> TRUE, slot |-> qk_tag[QK_LAT].slot, kj |-> qk_tag[QK_LAT].kj,
                             sums |-> qk_slice[QK_STAGES].sums]
    BY <1>3 DEF QK_STAGES, QK_LAT
  <2>3. /\ DOMAIN got = {"valid", "slot", "kj", "sums"}
        /\ got.valid = TRUE /\ got.slot = tag.slot /\ got.kj = tag.kj
    BY <2>2
  <2>4. CASE ret_first # Empty
    <3>1. PICK sums : ret_first' = Empty /\ score_issue' = [ret_first EXCEPT !.sums = sums]
      BY <1>3, <1>5, <2>1, <2>4 DEF Collect, QK_STAGES, QK_LAT
    <3>2. /\ DOMAIN score_issue' = {"valid", "slot", "kj", "sums"}
          /\ score_issue'.valid = TRUE
          /\ score_issue'.slot = ret_first.slot /\ score_issue'.kj = ret_first.kj
      BY <1>5, <2>4, <3>1
    <3> QED
      BY <1>1, <1>5, <2>4, <3>1, <3>2 DEF ScoreAt
  <2>5. CASE ret_first = Empty
    <3>1. ~ret_first.valid
      BY <2>5 DEF Empty
    <3>2. CASE tag.chunk_last
      <4>1. ret_first' = Empty /\ score_issue' = got
        BY <1>3, <2>1, <2>2, <2>5, <3>1, <3>2 DEF Collect, QK_STAGES, QK_LAT
      <4> QED
        BY <1>1, <2>1, <2>3, <3>2, <4>1 DEF ScoreAt
    <3>3. CASE ~tag.chunk_last
      <4>1. ret_first' = got /\ score_issue' = Empty
        BY <1>3, <2>1, <2>2, <2>5, <3>1, <3>3 DEF Collect, QK_STAGES, QK_LAT
      <4> QED
        BY <1>1, <2>1, <2>3, <3>3, <4>1 DEF ScoreAt
    <3> QED
      BY <2>1, <3>2, <3>3
  <2> QED
    BY <2>4, <2>5
<1> QED
  BY <1>6, <1>7

\* A stage moves on with its number, key and end, whatever becomes of its rows.
LEMMA StageMoves ==
  ASSUME core \in CoreCases, core' = core, NEW s, NEW place \in Int, StageAt(s, place), NEW row, NEW t,
         t = Empty \/ (s # Empty /\ t = [s EXCEPT !.row = row])
  PROVE  StageAt(t, place)
<1>1. CASE t = Empty
  BY <1>1 DEF StageAt
<1>2. CASE s # Empty /\ t = [s EXCEPT !.row = row]
  <2>1. /\ {"valid", "ctx", "row_end", "row"} \subseteq DOMAIN s
        /\ s.valid = TRUE /\ s.row_end \in BOOLEAN
        /\ place \in 0 .. Issues - 1
        /\ s.row_end /\ s.ctx = SOFTMAX_CTXS - 1 => place = Issues - 1
    BY <1>2 DEF StageAt
  <2>2. /\ DOMAIN t = DOMAIN s /\ t.valid = s.valid /\ t.ctx = s.ctx /\ t.row_end = s.row_end
    BY <1>2, <2>1
  <2> QED
    BY <2>1, <2>2 DEF StageAt
<1> QED
  BY <1>1, <1>2

\* What the softmax does to a stage, but for its rows.
LEMMA SoftmaxShape ==
  ASSUME SoftmaxClock
  PROVE  /\ sm'[0] = SoftmaxInput /\ sm_out' = sm[4]
         /\ \A i \in 1 .. 4 : \E row : sm'[i] = IF sm[i - 1].valid THEN [sm[i - 1] EXCEPT !.row = row]
                                                ELSE Empty
<1>1. sm'[0] = SoftmaxInput /\ sm_out' = sm[4]
  BY DEF SoftmaxClock
<1>2. \E row : sm'[1] = IF sm[0].valid THEN [sm[0] EXCEPT !.row = row] ELSE Empty
  <2>1. sm'[1] = IF sm[0].valid THEN [sm[0] EXCEPT !.row = [r \in Pair |-> Compared(sm[0].row[r])]] ELSE Empty
    BY DEF SoftmaxClock
  <2> QED
    BY <2>1
<1>3. \E row : sm'[2] = IF sm[1].valid THEN [sm[1] EXCEPT !.row = row] ELSE Empty
  <2>1. sm'[2] = IF sm[1].valid
               THEN [sm[1] EXCEPT !.row = [r \in Pair |-> Exponentiated(sm[1].row[r])]] ELSE Empty
    BY DEF SoftmaxClock
  <2> QED
    BY <2>1
<1>4. \E row : sm'[3] = IF sm[2].valid THEN [sm[2] EXCEPT !.row = row] ELSE Empty
  <2>1. sm'[3] = IF sm[2].valid
               THEN [sm[2] EXCEPT !.row = [r \in Pair |-> Multiplied(sm[2].row[r], sm[2].value)]] ELSE Empty
    BY DEF SoftmaxClock
  <2> QED
    BY <2>1
<1>5. \E row : sm'[4] = IF sm[3].valid THEN [sm[3] EXCEPT !.row = row] ELSE Empty
  <2>1. sm'[4] = IF sm[3].valid THEN [sm[3] EXCEPT !.row = [r \in Pair |-> Summed(sm[3].row[r])]] ELSE Empty
    BY DEF SoftmaxClock
  <2> QED
    BY <2>1
<1>6. ASSUME NEW i \in 1 .. 4
      PROVE  \E row : sm'[i] = IF sm[i - 1].valid THEN [sm[i - 1] EXCEPT !.row = row] ELSE Empty
  <2>1. CASE i = 1
    <3>1. i - 1 = 0
      BY <2>1
    <3> QED
      BY <1>2, <2>1, <3>1
  <2>2. CASE i = 2
    <3>1. i - 1 = 1
      BY <2>2
    <3> QED
      BY <1>3, <2>2, <3>1
  <2>3. CASE i = 3
    <3>1. i - 1 = 2
      BY <2>3
    <3> QED
      BY <1>4, <2>3, <3>1
  <2>4. CASE i = 4
    <3>1. i - 1 = 3
      BY <2>4
    <3> QED
      BY <1>5, <2>4, <3>1
  <2>5. i = 1 \/ i = 2 \/ i = 3 \/ i = 4
    OBVIOUS
  <2> QED
    BY <2>1, <2>2, <2>3, <2>4, <2>5, Zenon
<1> QED
  BY <1>1, <1>6

\* A score becomes a stage of its place.
LEMMA SoftmaxTakes ==
  ASSUME core \in CoreCases, NEW place \in Int, ScoreAt(score_issue, DP_CHUNKS - 1, place)
  PROVE  StageAt(SoftmaxInput, place)
<1>1. CASE ~score_issue.valid
  BY <1>1 DEF SoftmaxInput, StageAt
<1>2. CASE score_issue.valid
  <2>1. score_issue # Empty
    BY <1>2 DEF Empty
  <2>2. /\ score_issue.slot \in Slots /\ score_issue.kj \in Keys
        /\ place = Place(score_issue.slot, score_issue.kj, DP_CHUNKS - 1)
    BY <2>1 DEF ScoreAt
  <2>3. PICK slot \in Slots, kj \in Keys : slot = score_issue.slot /\ kj = score_issue.kj
    BY <2>2
  <2>4. PICK chunk \in 0 .. DP_CHUNKS - 1 : chunk = DP_CHUNKS - 1
    BY CaseShape
  <2>5. /\ place \in 0 .. Issues - 1
        /\ slot = SOFTMAX_CTXS - 1 /\ kj = core.TK - 1 => place = Issues - 1
    BY <2>2, <2>3, <2>4, Places
  <2>6. PICK end \in BOOLEAN : end = (kj = core.TK - 1)
    OBVIOUS
  <2>7. /\ {"valid", "ctx", "row_end", "row"} \subseteq DOMAIN SoftmaxInput
        /\ SoftmaxInput.valid = TRUE /\ SoftmaxInput.ctx = slot /\ SoftmaxInput.row_end = end
    <3> DEFINE value == VRow(kj)
               row   == [r \in Pair |->
                           [score |-> ScoreQ8_8Of(r),
                            prev  |-> IF sm_row_start THEN row_ctx[ScoreRow(slot) + r]
                                     ELSE Forwarded(slot, r)]]
    <3>1. SoftmaxInput = [valid |-> TRUE, ctx |-> slot, row_end |-> kj = core.TK - 1, value |-> value,
                          row |-> row]
      BY <1>2, <2>3 DEF SoftmaxInput, sm_row_end
    <3>2. SoftmaxInput = [valid |-> TRUE, ctx |-> slot, row_end |-> end, value |-> value, row |-> row]
      BY <2>6, <3>1, Zenon
    <3> HIDE DEF value, row
    <3> QED
      BY <3>2
  <2> QED
    BY <2>5, <2>6, <2>7 DEF StageAt
<1> QED
  BY <1>1, <1>2

LEMMA SoftmaxStep ==
  ASSUME core \in CoreCases, core' = core, NEW n \in Nat, SoftmaxClock,
         ScoreAt(score_issue, DP_CHUNKS - 1, n - 9), \A i \in 0 .. 4 : StageAt(sm[i], n - 10 - i)
  PROVE  /\ \A i \in 0 .. 4 : StageAt(sm[i], (n + 1) - 10 - i)'
         /\ StageAt(sm_out, (n + 1) - 15)'
<1>1. Issues' = Issues
  BY DEF Issues, DP_CHUNKS
<1>2. StageAt(sm[0], (n + 1) - 10 - 0)'
  <2>1. PICK place \in Int : place = n - 9
    OBVIOUS
  <2>2. StageAt(SoftmaxInput, place)
    BY <2>1, SoftmaxTakes
  <2>3. PICK t : t = SoftmaxInput /\ t = sm'[0]
    BY SoftmaxShape
  <2>4. StageAt(t, place)
    BY <2>2, <2>3
  <2>5. (n + 1) - 10 - 0 = place
    BY <2>1
  <2> QED
    BY <1>1, <2>3, <2>4, <2>5 DEF StageAt
<1>3. ASSUME NEW i \in 1 .. 4 PROVE StageAt(sm[i], (n + 1) - 10 - i)'
  <2>1. PICK j \in 0 .. 4 : j = i - 1
    OBVIOUS
  <2>2. PICK place \in Int : place = n - 10 - j
    OBVIOUS
  <2>3. PICK s, t, row : s = sm[j] /\ t = sm'[i] /\ t = IF s.valid THEN [s EXCEPT !.row = row] ELSE Empty
    BY <2>1, SoftmaxShape
  <2>4. StageAt(s, place)
    BY <2>2, <2>3
  <2>5. t = Empty \/ (s # Empty /\ t = [s EXCEPT !.row = row])
    BY <2>3 DEF Empty
  <2>6. StageAt(t, place)
    BY <2>4, <2>5, StageMoves
  <2>7. (n + 1) - 10 - i = place
    BY <2>1, <2>2
  <2> QED
    BY <1>1, <2>3, <2>6, <2>7 DEF StageAt
<1>4. StageAt(sm_out, (n + 1) - 15)'
  <2>1. PICK place \in Int : place = n - 10 - 4
    OBVIOUS
  <2>2. PICK s : s = sm[4] /\ s = sm_out'
    BY SoftmaxShape
  <2>3. StageAt(s, place)
    <3>1. 4 \in 0 .. 4 /\ place = n - 10 - 4
      BY <2>1
    <3> QED
      BY <2>2, <3>1
  <2>4. (n + 1) - 15 = place
    BY <2>1
  <2> QED
    BY <1>1, <2>2, <2>3, <2>4 DEF StageAt
<1>5. ASSUME NEW i \in 0 .. 4 PROVE StageAt(sm[i], (n + 1) - 10 - i)'
  <2>1. i = 0 \/ i \in 1 .. 4
    OBVIOUS
  <2> QED
    BY <1>2, <1>3, <2>1
<1> QED
  BY <1>4, <1>5

\* Where nothing is under way and nothing is issued, nothing comes out.
LEMMA DrainedStep ==
  ASSUME Drained, cs # "C_DP_RUN", Pipe(qk_slice), SliceClock, SoftmaxClock,
         ret_first' = Empty, score_issue' = Empty
  PROVE  Drained'
<1>1. PICK slice : slice = qk_slice'
  OBVIOUS
<1>2. slice = Shifted(qk_slice, Empty)
  BY <1>1 DEF SliceClock, qk_issue_valid
<1>3. slice[1] = Empty /\ \A i \in 1 .. 7 : slice[i + 1] = qk_slice[i]
  BY <1>2, ShiftedPipe
<1>4. ASSUME NEW i \in 1 .. QK_STAGES PROVE slice[i] = Empty
  <2>1. CASE i = 1
    BY <1>3, <2>1
  <2>2. CASE i # 1
    <3>1. PICK j \in 1 .. 7 : i = j + 1
      BY <2>2 DEF QK_STAGES
    <3>2. qk_slice[j] = Empty
      BY DEF Drained, QK_STAGES
    <3> QED
      BY <1>3, <3>1, <3>2
  <2> QED
    BY <2>1, <2>2
<1>5. ~Empty.valid
  BY DEF Empty
<1>6. sm'[0] = Empty /\ sm_out' = Empty
  BY <1>5, SoftmaxShape DEF Drained, SoftmaxInput
<1>7. ASSUME NEW i \in 1 .. 4 PROVE sm'[i] = Empty
  <2>1. PICK j \in 0 .. 4 : j = i - 1
    OBVIOUS
  <2>2. sm[j] = Empty
    BY DEF Drained
  <2>3. PICK row : sm'[i] = IF sm[j].valid THEN [sm[j] EXCEPT !.row = row] ELSE Empty
    BY <2>1, SoftmaxShape
  <2> QED
    BY <1>5, <2>2, <2>3
<1>8. ASSUME NEW i \in 0 .. 4 PROVE sm'[i] = Empty
  <2>1. i = 0 \/ i \in 1 .. 4
    OBVIOUS
  <2> QED
    BY <1>6, <1>7, <2>1
<1>9. ASSUME NEW i \in 1 .. QK_STAGES PROVE qk_slice'[i] = Empty
  BY <1>1, <1>4
<1>10. Empty' = Empty /\ QK_STAGES' = QK_STAGES
  BY DEF Empty, QK_STAGES
<1> QED
  BY <1>6, <1>8, <1>9, <1>10 DEF Drained

LEMMA BatchBegins ==
  ASSUME core \in CoreCases, core' = core, Drained', qk_issue' = FirstIssue, batch_done_mask' = {}
  PROVE  Timeline(0)'
<1>1. core.TK \in Nat \ {0} /\ DP_CHUNKS \in 1 .. 2 /\ Issues \in Nat \ {0}
  BY CaseShape
<1>2. DP_CHUNKS' = DP_CHUNKS /\ Keys' = Keys /\ Place(0, 0, 0)' = Place(0, 0, 0)
  BY DEF DP_CHUNKS, Keys, Place
<1>3. 0 \in Slots /\ 0 \in Keys /\ 0 \in 0 .. DP_CHUNKS - 1 /\ Place(0, 0, 0) = 0
  <2>1. DP_CHUNKS = 1 \/ DP_CHUNKS = 2
    BY <1>1
  <2> QED
    BY <1>1, <2>1 DEF Slots, Keys, Place, SOFTMAX_CTXS
<1>4. IssueAt(0)'
  BY <1>2, <1>3 DEF IssueAt, FirstIssue
<1>5. \A i \in 1 .. QK_STAGES : SliceAt(i, 0)'
  BY DEF Drained, SliceAt, QK_STAGES
<1>6. \A i \in 0 .. 4 : StageAt(sm[i], 0 - 10 - i)'
  BY DEF Drained, StageAt
<1> QED
  BY <1>4, <1>5, <1>6 DEF Timeline, Drained, ScoreAt, StageAt, SOFTMAX_CTXS

\* Fifteen edges after its last chunk was issued nothing of a batch is under way.
LEMMA BatchDrains ==
  ASSUME core \in CoreCases, core' = core, NEW n \in Nat, n >= Issues + 15,
         \A i \in 1 .. QK_STAGES : SliceAt(i, n)', ScoreAt(ret_first, 0, n - 9)',
         ScoreAt(score_issue, DP_CHUNKS - 1, n - 9)', \A i \in 0 .. 4 : StageAt(sm[i], n - 10 - i)',
         StageAt(sm_out, n - 15)'
  PROVE  Drained'
<1>1. core.TK \in Nat \ {0} /\ DP_CHUNKS \in 1 .. 2 /\ Issues \in Nat \ {0}
  BY CaseShape
<1>2. /\ DP_CHUNKS' = DP_CHUNKS /\ Keys' = Keys /\ Issues' = Issues
      /\ \A slot, kj, chunk : Place(slot, kj, chunk)' = Place(slot, kj, chunk)
  BY DEF DP_CHUNKS, Keys, Issues, Place
<1>3. ASSUME NEW i \in 1 .. QK_STAGES PROVE qk_slice'[i] = Empty
  <2>1. ~(n - i < Issues)
    BY <1>1 DEF QK_STAGES
  <2> QED
    BY <1>2, <2>1 DEF SliceAt
<1>4. ASSUME NEW s, NEW chunk \in 0 .. DP_CHUNKS - 1, s.slot \in Slots, s.kj \in Keys
      PROVE  n - 9 # Place(s.slot, s.kj, chunk)
  <2>1. Place(s.slot, s.kj, chunk) \in 0 .. Issues - 1
    BY <1>4, Places
  <2> QED
    BY <1>1, <2>1
<1>5. ret_first' = Empty
  <2>1. 0 \in 0 .. DP_CHUNKS - 1
    BY <1>1
  <2>2. PICK s : s = ret_first'
    OBVIOUS
  <2> QED
    BY <1>2, <1>4, <2>1, <2>2 DEF ScoreAt
<1>6. score_issue' = Empty
  <2>1. DP_CHUNKS - 1 \in 0 .. DP_CHUNKS - 1
    BY <1>1
  <2>2. PICK s : s = score_issue'
    OBVIOUS
  <2> QED
    BY <1>2, <1>4, <2>1, <2>2 DEF ScoreAt
<1>7. ASSUME NEW i \in 0 .. 4 PROVE sm'[i] = Empty
  <2>1. ~(n - 10 - i \in 0 .. Issues - 1)
    BY <1>1
  <2> QED
    BY <1>2, <2>1 DEF StageAt
<1>8. sm_out' = Empty
  <2>1. ~(n - 15 \in 0 .. Issues - 1)
    BY <1>1
  <2> QED
    BY <1>2, <2>1 DEF StageAt
<1> QED
  BY <1>3, <1>5, <1>6, <1>7, <1>8 DEF Drained, QK_STAGES

\* The last slot is done when its last key has come out, which is the last of the batch.
LEMMA LastSlotDone ==
  ASSUME core \in CoreCases, NEW n \in Nat, Timeline(n), SOFTMAX_CTXS - 1 \in batch_done_next
  PROVE  n >= Issues + 14
<1>1. Issues \in Nat
  BY CaseShape
<1>2. CASE SOFTMAX_CTXS - 1 \in batch_done_mask
  BY <1>1, <1>2 DEF Timeline
<1>3. CASE SOFTMAX_CTXS - 1 \notin batch_done_mask
  <2>1. row_done /\ sm_out.ctx = SOFTMAX_CTXS - 1
    BY <1>3 DEF batch_done_next
  <2>2. sm_out # Empty /\ sm_out.row_end
    BY <2>1 DEF row_done, Empty
  <2>3. n - 15 = Issues - 1
    BY <2>1, <2>2 DEF Timeline, StageAt
  <2> QED
    BY <1>1, <2>3
<1> QED
  BY <1>2, <1>3

LEMMA PipesKept ==
  ASSUME Pipe(qk_slice), Pipe(qk_tag), SliceClock, TagClock \/ qk_tag' = qk_tag
  PROVE  Pipe(qk_slice)' /\ Pipe(qk_tag)'
<1>1. PICK slice, tags : slice = qk_slice' /\ tags = qk_tag'
  OBVIOUS
<1>2. PICK entry : slice = Shifted(qk_slice, entry)
  BY <1>1 DEF SliceClock
<1>3. Pipe(slice)
  BY <1>2, ShiftedPipe
<1>4. Pipe(tags)
  <2>1. CASE TagClock
    <3>1. PICK tag : tags = Shifted(qk_tag, tag)
      BY <1>1, <2>1 DEF TagClock
    <3> QED
      BY <3>1, ShiftedPipe
  <2>2. CASE qk_tag' = qk_tag
    BY <1>1, <2>2
  <2> QED
    BY <2>1, <2>2
<1> QED
  BY <1>1, <1>3, <1>4 DEF Pipe

LEMMA LaunchStep ==
  ASSUME core \in CoreCases, core' = core, PipelineInv, SliceClock, SoftmaxClock, Launch \/ ComputeDone
  PROVE  PipelineInv'
<1>1. cs # "C_DP_RUN" /\ Drained /\ Pipe(qk_slice) /\ Pipe(qk_tag)
  BY DEF PipelineInv, Launch, ComputeDone
<1>2. ret_first' = Empty /\ score_issue' = Empty /\ qk_tag' = qk_tag
  BY <1>1 DEF Launch, ComputeDone, Drained
<1>3. Drained'
  BY <1>1, <1>2, DrainedStep
<1>4. Pipe(qk_slice)' /\ Pipe(qk_tag)' /\ DOMAIN sm' = 0 .. 4
  BY <1>1, <1>2, PipesKept DEF SoftmaxClock
<1>5. CASE cs' = "C_DP_RUN"
  <2>1. qk_issue' = FirstIssue /\ batch_done_mask' = {}
    BY <1>1, <1>5 DEF Launch, ComputeDone
  <2>2. Timeline(0)'
    BY <1>3, <2>1, BatchBegins
  <2> QED
    BY <1>4, <1>5, <2>2 DEF PipelineInv
<1>6. CASE cs' # "C_DP_RUN"
  <2>1. cs' \in {"C_IDLE", "C_DP_RUN", "C_DONE"}
    BY DEF Launch, ComputeDone, PipelineInv
  <2> QED
    BY <1>3, <1>4, <1>6, <2>1 DEF PipelineInv
<1> QED
  BY <1>5, <1>6

LEMMA DpRunStep ==
  ASSUME core \in CoreCases, core' = core, PipelineInv, SliceClock, SoftmaxClock, DpRun
  PROVE  PipelineInv'
<1>1. PICK n \in Nat : Timeline(n)
  BY DEF PipelineInv, DpRun
<1>2. cs = "C_DP_RUN" /\ TagClock /\ Pipe(qk_slice) /\ Pipe(qk_tag)
  BY DEF PipelineInv, DpRun
<1>3. Pipe(qk_slice)' /\ Pipe(qk_tag)' /\ DOMAIN sm' = 0 .. 4
  BY <1>2, PipesKept DEF SoftmaxClock
<1>4. /\ IssueAt(n) /\ \A i \in 1 .. QK_STAGES : SliceAt(i, n)
      /\ ScoreAt(score_issue, DP_CHUNKS - 1, n - 9) /\ \A i \in 0 .. 4 : StageAt(sm[i], n - 10 - i)
  BY <1>1 DEF Timeline
<1>5. \A i \in 1 .. QK_STAGES : SliceAt(i, n + 1)'
  BY <1>2, <1>4, SliceStep
<1>6. /\ \A i \in 0 .. 4 : StageAt(sm[i], (n + 1) - 10 - i)'
      /\ StageAt(sm_out, (n + 1) - 15)'
  BY <1>4, SoftmaxStep
<1>7. PICK m \in Nat : m = n + 1
  OBVIOUS
<1>8. Issues \in Nat \ {0}
  BY CaseShape
<1>9. batch_all_done => SOFTMAX_CTXS - 1 \in batch_done_next
  BY DEF batch_all_done, SOFTMAX_CTXS
<1>10. SOFTMAX_CTXS - 1 \in batch_done_next => m >= Issues + 15
  BY <1>1, <1>7, <1>8, LastSlotDone
<1>11. CASE batch_all_done /\ ~last_batch
  <2>1. /\ qk_issue' = FirstIssue /\ batch_done_mask' = {}
        /\ ret_first' = Empty /\ score_issue' = Empty /\ cs' = "C_DP_RUN"
    BY <1>2, <1>11 DEF DpRun
  <2>2. ScoreAt(ret_first, 0, m - 9)' /\ ScoreAt(score_issue, DP_CHUNKS - 1, m - 9)'
    BY <2>1 DEF ScoreAt
  <2>3. m >= Issues + 15
    BY <1>9, <1>10, <1>11
  <2>4. Drained'
    BY <1>5, <1>6, <1>7, <2>2, <2>3, BatchDrains
  <2>5. Timeline(0)'
    BY <2>1, <2>4, BatchBegins
  <2> QED
    BY <1>3, <2>1, <2>5 DEF PipelineInv
<1>12. CASE ~(batch_all_done /\ ~last_batch)
  <2>1. /\ batch_done_mask' = batch_done_next /\ qk_issue' = NextIssue /\ Collect
        /\ cs' = IF batch_all_done THEN "C_DONE" ELSE "C_DP_RUN"
    BY <1>2, <1>12 DEF DpRun
  <2>2. /\ ret_first' # Empty => DP_CHUNKS' = 2
        /\ ScoreAt(ret_first, 0, n - 8)'
        /\ ScoreAt(score_issue, DP_CHUNKS - 1, n - 8)'
    BY <1>1, <2>1, CollectStep
  <2>3. n - 8 = m - 9
    BY <1>7
  <2>4. ScoreAt(ret_first, 0, m - 9)' /\ ScoreAt(score_issue, DP_CHUNKS - 1, m - 9)'
    BY <2>2, <2>3
  <2>5. CASE batch_all_done
    <3>1. Drained'
      BY <1>5, <1>6, <1>7, <1>9, <1>10, <2>4, <2>5, BatchDrains
    <3> QED
      BY <1>3, <2>1, <2>5, <3>1 DEF PipelineInv
  <2>6. CASE ~batch_all_done
    <3>1. IssueAt(m)'
      BY <1>4, <1>7, <2>1, IssueStep
    <3>2. (SOFTMAX_CTXS - 1 \in batch_done_mask => m >= Issues + 15)'
      BY <1>10, <2>1 DEF Issues, DP_CHUNKS
    <3>3. Timeline(m)'
      BY <1>5, <1>6, <1>7, <2>2, <2>4, <3>1, <3>2 DEF Timeline
    <3> QED
      BY <1>3, <2>1, <2>6, <3>3 DEF PipelineInv
  <2> QED
    BY <2>5, <2>6
<1> QED
  BY <1>11, <1>12

LEMMA InitCoreInv == Init => CoreInv
<1> SUFFICES ASSUME Init, program = "core" PROVE core \in CoreCases /\ PipelineInv
  BY DEF CoreInv
<1>1. core \in CoreCases
  BY DEF Init, TheCase
<1>2. CoreInit
  BY DEF Init
<1>3. Drained
  BY <1>2 DEF CoreInit, Drained
<1>4. Pipe(qk_slice) /\ Pipe(qk_tag) /\ DOMAIN sm = 0 .. 4 /\ cs = "C_IDLE"
  BY <1>2 DEF CoreInit, Pipe, QK_STAGES, QK_LAT
<1> QED
  BY <1>1, <1>3, <1>4 DEF PipelineInv

LEMMA NextCoreInv == CoreInv /\ [Next]_vars => CoreInv'
<1> SUFFICES ASSUME CoreInv, [Next]_vars, program' = "core" PROVE core' \in CoreCases /\ PipelineInv'
  BY DEF CoreInv
<1>1. CASE CoreProgram
  <2>1. core \in CoreCases /\ PipelineInv
    BY <1>1 DEF CoreProgram, CoreInv
  <2>2. core' = core /\ EngineClock
    BY <1>1 DEF CoreProgram, CoreStep
  <2>3. SliceClock /\ SoftmaxClock /\ (Launch \/ ComputeDone \/ DpRun)
    BY <2>2 DEF EngineClock
  <2>4. PipelineInv'
    BY <2>1, <2>2, <2>3, LaunchStep, DpRunStep
  <2> QED
    BY <2>1, <2>2, <2>4
<1>2. CASE UNCHANGED <<program, coreVars>>
  <2>1. core \in CoreCases /\ PipelineInv
    BY <1>2 DEF CoreInv
  <2>2. UNCHANGED <<core, engineVars>>
    BY <1>2 DEF coreVars
  <2>3. /\ cs' = cs /\ qk_slice' = qk_slice /\ qk_tag' = qk_tag /\ sm' = sm /\ sm_out' = sm_out
        /\ ret_first' = ret_first /\ score_issue' = score_issue /\ core' = core
        /\ qk_issue' = qk_issue /\ batch_done_mask' = batch_done_mask
    BY <2>2 DEF engineVars
  <2>4. CASE cs = "C_DP_RUN"
    <3>1. PICK n \in Nat : Timeline(n)
      BY <2>1, <2>4 DEF PipelineInv
    <3>2. /\ DP_CHUNKS' = DP_CHUNKS /\ Keys' = Keys /\ Issues' = Issues
          /\ \A slot, kj, chunk : Place(slot, kj, chunk)' = Place(slot, kj, chunk)
      BY <2>3 DEF DP_CHUNKS, Keys, Issues, Place
    <3>3. IssueAt(n)' /\ \A i \in 1 .. QK_STAGES : SliceAt(i, n)'
      BY <2>3, <3>1, <3>2 DEF Timeline, IssueAt, SliceAt
    <3>4. Timeline(n)'
      BY <2>3, <3>1, <3>2, <3>3 DEF Timeline, ScoreAt, StageAt
    <3> QED
      BY <2>1, <2>3, <2>4, <3>4 DEF PipelineInv, Pipe
  <2>5. CASE cs # "C_DP_RUN"
    BY <2>1, <2>3, <2>5 DEF PipelineInv, Pipe, Drained
  <2> QED
    BY <2>1, <2>3, <2>4, <2>5
<1>3. program' = program
  BY DEF Next, RuntimeProgram, RunnerProgram, GemvProgram, ScoreProgram, CoreProgram, Over, vars
<1> QED
  BY <1>1, <1>2, <1>3 DEF Next, RuntimeProgram, RunnerProgram, GemvProgram, ScoreProgram, Over, vars

LEMMA CoreInvariant == Spec => []CoreInv
<1> QED
  BY InitCoreInv, NextCoreInv, PTL DEF Spec

\* Before anything of a batch is issued nothing is under way.
LEMMA NothingBefore ==
  ASSUME core \in CoreCases, NEW n \in Nat, Timeline(n), qk_issue = FirstIssue
  PROVE  Drained
<1>1. core.TK \in Nat \ {0} /\ DP_CHUNKS \in 1 .. 2 /\ Issues \in Nat \ {0}
  BY CaseShape
<1>2. n = 0
  <2>1. n = Place(0, 0, 0)
    BY DEF Timeline, IssueAt, FirstIssue
  <2>2. DP_CHUNKS = 1 \/ DP_CHUNKS = 2
    BY <1>1
  <2> QED
    BY <2>1, <2>2 DEF Place, SOFTMAX_CTXS
<1>3. ASSUME NEW s, NEW chunk \in 0 .. DP_CHUNKS - 1, s.slot \in Slots, s.kj \in Keys
      PROVE  n - 9 # Place(s.slot, s.kj, chunk)
  <2>1. Place(s.slot, s.kj, chunk) \in 0 .. Issues - 1
    BY <1>3, Places
  <2> QED
    BY <1>1, <1>2, <2>1
<1>4. 0 \in 0 .. DP_CHUNKS - 1 /\ DP_CHUNKS - 1 \in 0 .. DP_CHUNKS - 1
  BY <1>1
<1>5. ret_first = Empty /\ score_issue = Empty
  BY <1>3, <1>4 DEF Timeline, ScoreAt
<1>6. ASSUME NEW i \in 1 .. QK_STAGES PROVE qk_slice[i] = Empty
  <2>1. SliceAt(i, n) /\ ~(i <= n)
    BY <1>2 DEF Timeline, QK_STAGES
  <2> QED
    BY <2>1 DEF SliceAt
<1>7. ASSUME NEW i \in 0 .. 4 PROVE sm[i] = Empty
  <2>1. StageAt(sm[i], n - 10 - i) /\ ~(n - 10 - i \in 0 .. Issues - 1)
    BY <1>1, <1>2 DEF Timeline
  <2> QED
    BY <2>1 DEF StageAt
<1>8. sm_out = Empty
  <2>1. StageAt(sm_out, n - 15) /\ ~(n - 15 \in 0 .. Issues - 1)
    BY <1>1, <1>2 DEF Timeline
  <2> QED
    BY <2>1 DEF StageAt
<1> QED
  BY <1>5, <1>6, <1>7, <1>8 DEF Drained

\* No dot product, score or state of a batch is under way when the next batch is
\* begun or the tiles are exchanged (fa_attention_core, batch_all_done), rows having
\* one chunk or two (CoreShape).
THEOREM BatchesApart == Spec => []BatchesKeptApart
<1>1. CoreInv => BatchesKeptApart
  <2> SUFFICES ASSUME CoreInv, program = "core", cs # "C_DP_RUN" \/ qk_issue = FirstIssue,
                      NEW entry \in Range(qk_slice) \cup {ret_first, score_issue} \cup Range(sm) \cup {sm_out}
               PROVE  entry = Empty
    BY DEF BatchesKeptApart
  <2>1. core \in CoreCases /\ PipelineInv
    BY DEF CoreInv
  <2>2. Drained
    BY <2>1, NothingBefore DEF PipelineInv
  <2>3. DOMAIN qk_slice = 1 .. QK_STAGES /\ DOMAIN sm = 0 .. 4
    BY <2>1 DEF PipelineInv, Pipe, QK_STAGES
  <2>4. CASE entry \in Range(qk_slice)
    BY <2>2, <2>3, <2>4 DEF Range, Drained
  <2>5. CASE entry \in Range(sm)
    BY <2>2, <2>3, <2>5 DEF Range, Drained
  <2>6. CASE entry \in {ret_first, score_issue, sm_out}
    BY <2>2, <2>6 DEF Drained
  <2> QED
    BY <2>4, <2>5, <2>6
<1> QED
  BY <1>1, CoreInvariant, PTL

-----------------------------------------------------------------------------
(* The dot product: in lanes, or element by element.                        *)

\* The products of two vectors, added up over some of the elements.
DotOver(l, r, S) == MapThenSumSet(LAMBDA d : l[d] * r[d], S)

\* They are a sum of the lemmas on sums.
LEMMA ProductsAdded ==
  ASSUME NEW l, NEW r, NEW g, NEW S, \A d \in S : g[d] = l[d] * r[d]
  PROVE  DotOver(l, r, S) = SumOver(g, S)
<1> DEFINE F(it) == [s \in SUBSET S |->
                       IF s = {} THEN 0
                       ELSE l[CHOOSE x \in s : TRUE] * r[CHOOSE x \in s : TRUE]
                              + it[s \ {CHOOSE x \in s : TRUE}]]
           G(it) == [s \in SUBSET S |->
                       IF s = {} THEN 0
                       ELSE g[CHOOSE x \in s : TRUE] + it[s \ {CHOOSE x \in s : TRUE}]]
<1>1. SumOver(g, S) = (CHOOSE it : it = G(it))[S]
  BY DEF SumOver, MapThenSumSet, MapThenFoldSet
<1>2. DotOver(l, r, S) = (CHOOSE it : it = F(it))[S]
  BY DEF DotOver, MapThenSumSet, MapThenFoldSet
<1>3. ASSUME NEW it PROVE F(it) = G(it)
  <2>1. ASSUME NEW s \in SUBSET S, s # {} PROVE (CHOOSE x \in s : TRUE) \in S
    BY <2>1
  <2> QED
    BY <2>1
<1> HIDE DEF F, G
<1>4. (CHOOSE it : it = F(it)) = (CHOOSE it : it = G(it))
  BY <1>3
<1> QED
  BY <1>1, <1>2, <1>4

\* The elements that one lane of the dot product multiplies.
Lane(dim, n) == {d \in 0 .. dim - 1 : d % DotLanes = n}

\* The sums of the lanes, added up.
LEMMA LanesAdded ==
  ASSUME NEW l, NEW r, NEW dim, NEW h,
         \A n \in 0 .. DotLanes - 1 : h[n] = DotOver(l, r, Lane(dim, n))
  PROVE  dotprod_q8_8_single(l, r, dim) = SumOver(h, 0 .. DotLanes - 1)
<1> DEFINE F(it) == [s \in SUBSET (0 .. DotLanes - 1) |->
                       IF s = {} THEN 0
                       ELSE DotOver(l, r, Lane(dim, CHOOSE x \in s : TRUE)) + it[s \ {CHOOSE x \in s : TRUE}]]
           G(it) == [s \in SUBSET (0 .. DotLanes - 1) |->
                       IF s = {} THEN 0
                       ELSE h[CHOOSE x \in s : TRUE] + it[s \ {CHOOSE x \in s : TRUE}]]
<1>1. SumOver(h, 0 .. DotLanes - 1) = (CHOOSE it : it = G(it))[0 .. DotLanes - 1]
  BY DEF SumOver, MapThenSumSet, MapThenFoldSet
<1>2. dotprod_q8_8_single(l, r, dim) = (CHOOSE it : it = F(it))[0 .. DotLanes - 1]
  <2> DEFINE lane(n) == DotOver(l, r, Lane(dim, n))
  <2>1. dotprod_q8_8_single(l, r, dim) = MapThenSumSet(lane, 0 .. DotLanes - 1)
    BY DEF dotprod_q8_8_single, Lane, DotOver
  <2>2. MapThenSumSet(lane, 0 .. DotLanes - 1) = (CHOOSE it : it = F(it))[0 .. DotLanes - 1]
    BY DEF MapThenSumSet, MapThenFoldSet
  <2> QED
    BY <2>1, <2>2
<1>4. ASSUME NEW it PROVE F(it) = G(it)
  <2>1. ASSUME NEW s \in SUBSET (0 .. DotLanes - 1), s # {}
        PROVE  (CHOOSE x \in s : TRUE) \in 0 .. DotLanes - 1
    BY <2>1
  <2>2. ASSUME NEW s \in SUBSET (0 .. DotLanes - 1), s # {}
        PROVE  h[CHOOSE x \in s : TRUE] = DotOver(l, r, Lane(dim, CHOOSE x \in s : TRUE))
    BY <2>1, <2>2
  <2> QED
    BY <2>2
<1> HIDE DEF F, G
<1>5. (CHOOSE it : it = F(it)) = (CHOOSE it : it = G(it))
  BY <1>4
<1> QED
  BY <1>1, <1>2, <1>5

\* Lanes or not, the dot product is the sum of the products.
LEMMA DotProductIsSum ==
  ASSUME NEW l, NEW r, NEW g, NEW dim \in Nat,
         \A d \in 0 .. dim - 1 : g[d] = l[d] * r[d] /\ l[d] \in Int /\ r[d] \in Int
  PROVE  /\ dotprod_q8_8_single(l, r, dim) = SumOver(g, 0 .. dim - 1)
         /\ dotprod_q8_8_single(l, r, dim) \in Int
<1>1. PICK D : D = 0 .. dim - 1
  OBVIOUS
<1>2. \A d \in D : g[d] = l[d] * r[d] /\ g[d] \in Int
  BY <1>1
<1>3. IsFiniteSet(D)
  <2>1. PICK a \in Int : a = dim - 1
    OBVIOUS
  <2>2. IsFiniteSet(0 .. a)
    BY FS_Interval
  <2> QED
    BY <1>1, <2>1, <2>2
<1>4. PICK lanes \in Nat \ {0} : lanes = DotLanes
  BY HlsShape
<1>5. PICK h : h = [n \in 0 .. lanes - 1 |-> SumOver(g, Lane(dim, n))]
  OBVIOUS
<1>6. ASSUME NEW n PROVE /\ IsFiniteSet(Lane(dim, n)) /\ Lane(dim, n) \subseteq D
                         /\ \A d \in Lane(dim, n) : g[d] = l[d] * r[d] /\ g[d] \in Int
  <2>1. Lane(dim, n) \subseteq D
    BY <1>1 DEF Lane
  <2> QED
    BY <1>2, <1>3, <2>1, FS_Subset
<1>7. \A n \in 0 .. DotLanes - 1 : h[n] = DotOver(l, r, Lane(dim, n))
  <2> SUFFICES ASSUME NEW n \in 0 .. DotLanes - 1
               PROVE  h[n] = DotOver(l, r, Lane(dim, n))
    OBVIOUS
  <2>1. h[n] = SumOver(g, Lane(dim, n))
    BY <1>4, <1>5
  <2>2. \A d \in Lane(dim, n) : g[d] = l[d] * r[d]
    BY <1>6
  <2>3. DotOver(l, r, Lane(dim, n)) = SumOver(g, Lane(dim, n))
    BY <2>2, ProductsAdded
  <2> QED
    BY <2>1, <2>3
<1>8. dotprod_q8_8_single(l, r, dim) = SumOver(h, 0 .. DotLanes - 1)
  BY <1>7, LanesAdded
<1> DEFINE Part(k) == {d \in D : d % DotLanes < k}
           Good == {k \in 0 .. lanes : SumOver(h, 0 .. k - 1) = SumOver(g, Part(k))}
<1>9. \A d \in D : d % DotLanes \in 0 .. lanes - 1
  BY <1>1, <1>4
<1>10. \A n \in 0 .. lanes - 1 : h[n] = SumOver(g, Lane(dim, n)) /\ h[n] \in Int
  <2> SUFFICES ASSUME NEW n \in 0 .. lanes - 1
               PROVE  h[n] = SumOver(g, Lane(dim, n)) /\ h[n] \in Int
    OBVIOUS
  <2>1. h[n] = SumOver(g, Lane(dim, n))
    BY <1>5
  <2>2. SumOver(g, Lane(dim, n)) \in Int
    BY <1>6, SumIsNumber
  <2> QED
    BY <2>1, <2>2
<1>11. 0 \in Good
  <2>1. 0 .. 0 - 1 = {} /\ Part(0) = {}
    BY <1>9
  <2>2. SumOver(h, {}) = 0 /\ SumOver(g, {}) = 0
    BY SumOfNone
  <2>3. SumOver(h, 0 .. 0 - 1) = SumOver(g, Part(0))
    <3> HIDE DEF Part
    <3> QED
      BY <2>1, <2>2
  <2> HIDE DEF Part
  <2> QED
    BY <1>4, <2>3
<1>12. ASSUME NEW k \in 0 .. lanes, k < lanes, k \in Good PROVE k + 1 \in Good
  <2>1. 0 .. (k + 1) - 1 = 0 .. k /\ (0 .. k) \ {k} = 0 .. k - 1 /\ k \in 0 .. k /\ 0 .. k \subseteq 0 .. lanes - 1
    BY <1>12
  <2>2. SumOver(h, 0 .. k) = h[k] + SumOver(h, 0 .. k - 1)
    <3>1. \A c \in 0 .. k : h[c] \in Int
      BY <1>10, <2>1
    <3>2. k \in Nat
      OBVIOUS
    <3> QED
      BY <3>1, <3>2, SumOnward
  <2>3. Part(k + 1) = Part(k) \cup Lane(dim, k) /\ Part(k) \cap Lane(dim, k) = {}
    BY <1>1, <1>9 DEF Lane
  <2>4. SumOver(g, Part(k) \cup Lane(dim, k)) = SumOver(g, Part(k)) + SumOver(g, Lane(dim, k))
    <3>1. Part(k) \subseteq D
      OBVIOUS
    <3>2. IsFiniteSet(Part(k)) /\ \A c \in Part(k) \cup Lane(dim, k) : g[c] \in Int
      BY <1>2, <1>3, <1>6, <3>1, FS_Subset
    <3> HIDE DEF Part
    <3> QED
      BY <1>6, <2>3, <3>2, SumOfUnion
  <2>5. PICK a, b : a = SumOver(g, Part(k)) /\ b = SumOver(g, Lane(dim, k))
    OBVIOUS
  <2>6. a \in Int /\ b \in Int
    <3>1. Part(k) \subseteq D
      OBVIOUS
    <3>2. IsFiniteSet(Part(k)) /\ \A c \in Part(k) : g[c] \in Int
      BY <1>2, <1>3, <3>1, FS_Subset
    <3> QED
      BY <1>6, <2>5, <3>2, SumIsNumber
  <2>7. SumOver(h, 0 .. k - 1) = a /\ h[k] = b
    BY <1>10, <1>12, <2>1, <2>5
  <2>8. SumOver(h, 0 .. (k + 1) - 1) = SumOver(g, Part(k + 1))
    <3>1. SumOver(h, 0 .. (k + 1) - 1) = b + a
      BY <2>1, <2>2, <2>7
    <3>2. SumOver(g, Part(k + 1)) = a + b
      BY <2>3, <2>4, <2>5
    <3> QED
      BY <2>6, <3>1, <3>2
  <2>9. k + 1 \in 0 .. lanes
    BY <1>12
  <2> QED
    BY <2>8, <2>9
<1>13. lanes \in Good
  <2>1. lanes \in Nat /\ lanes \in 0 .. lanes
    BY <1>4
  <2> HIDE DEF Good
  <2>2. 0 .. lanes \subseteq Good
    BY <1>11, <1>12, <2>1, CountingUp
  <2> QED
    BY <2>1, <2>2
<1>14. Part(lanes) = D
  BY <1>9
<1>15. dotprod_q8_8_single(l, r, dim) = SumOver(g, D)
  BY <1>4, <1>8, <1>13, <1>14
<1>16. SumOver(g, D) \in Int
  BY <1>2, <1>3, SumIsNumber
<1> QED
  BY <1>1, <1>15, <1>16

-----------------------------------------------------------------------------
(* The matrix-vector queue kernel.                                          *)

CountedProfile == [ClearedGemvProfile EXCEPT !.calls = 1]

Profiles == [calls : Nat, count : Nat, desc_loads : Nat, x_elems : Nat, w_elems : Nat, y_elems : Nat,
             macs : Nat, tile_iters : Nat, max_in : Nat, max_out : Nat]

\* A word of 16 bits is a number.
LEMMA DescriptorNumbers ==
  ASSUME NEW t \in GemvDescriptors
  PROVE  /\ t.in_dim \in Nat /\ t.out_dim \in Nat
         /\ t.x_offset \in Nat /\ t.w_offset \in Nat
<1>1. \A i \in Words : i \in Nat
  BY DEF Words
<1> QED
  BY <1>1 DEF GemvDescriptors

LEMMA CountedTask ==
  ASSUME NEW counted \in Profiles, NEW t \in GemvDescriptors
  PROVE  update_queue_profile(counted, t) \in Profiles
<1>1. t.in_dim \in Nat /\ t.out_dim \in Nat
  BY DescriptorNumbers
<1>2. t.in_dim * t.out_dim \in Nat
  BY <1>1
<1>3. OutTiles(t.out_dim) \in Nat
  <2>1. \A a \in Nat, b \in Nat \ {0} : (a + b - 1) \div b \in Nat
    OBVIOUS
  <2> QED
    BY <1>1, <2>1, LinearShape DEF OutTiles
<1> QED
  BY <1>1, <1>2, <1>3 DEF update_queue_profile, Profiles

\* One task of the strict queue.
StrictTask(x, w, done, t) ==
  [y |-> run_gemv_strict(x, w, done.y, t), prof |-> update_queue_profile(done.prof, t)]

\* The strict queue after k tasks.
StrictAfter(x, w, places, list, k) ==
  run_gemv_queue_strict(x, w, [e \in places |-> 0], SubSeq(list, 1, k))

FirstDone(places) == [y |-> [e \in places |-> 0], prof |-> CountedProfile]

\* The loop of the strict queue over the first k tasks is a fold over as many places.
LEMMA StrictFold ==
  ASSUME NEW x, NEW w, NEW places, NEW n \in Nat, NEW list \in Seq(GemvDescriptors), n = Len(list),
         NEW V, FirstDone(places) \in V, NEW step, StaysIn(step, 1 .. n, V),
         \A i \in 1 .. n, v \in V : step[<<i, v>>] = StrictTask(x, w, v, list[i]),
         NEW k \in 0 .. n
  PROVE  \E it : /\ LeftFold(it, FirstDone(places), step, k, V)
                 /\ StrictAfter(x, w, places, list, k) = it[1 .. k]
<1>1. PICK part : part = SubSeq(list, 1, k)
  OBVIOUS
<1>2. DOMAIN part = 1 .. k /\ \A i \in 1 .. k : part[i] = list[i]
  BY <1>1
<1> DEFINE base == FirstDone(places)
           S == DOMAIN part
           Body(it) == [s \in SUBSET S |->
                          IF s = {} THEN base
                          ELSE StrictTask(x, w, it[s \ {Max(s)}], part[Max(s)])]
           total == CHOOSE it : it = Body(it)
<1>3. StrictAfter(x, w, places, list, k) = total[S]
  BY <1>1 DEF StrictAfter, run_gemv_queue_strict, FoldLeft, MapThenFoldSet, StrictTask, FirstDone, CountedProfile
<1>4. StaysIn(step, 1 .. k, V) /\ base \in V /\ k \in Nat
  BY DEF StaysIn
<1>5. PICK it : /\ it = [s \in SUBSET (1 .. k) |-> it[s]]
                /\ \A s \in SUBSET (1 .. k) :
                     /\ LeftStep(it, base, step, s)
                     /\ s # {} => Max(s) \in 1 .. k /\ it[s \ {Max(s)}] \in V
  <2> HIDE DEF base
  <2> QED
    BY <1>4, LeftFoldExists
<1>6. ASSUME NEW i \in 1 .. k, NEW v \in V PROVE step[<<i, v>>] = StrictTask(x, w, v, part[i])
  <2>1. i \in 1 .. n /\ part[i] = list[i]
    BY <1>2
  <2> QED
    BY <2>1
<1>7. it = Body(it)
  <2>1. ASSUME NEW s \in SUBSET S
        PROVE  it[s] = IF s = {} THEN base
                       ELSE StrictTask(x, w, it[s \ {Max(s)}], part[Max(s)])
    <3> HIDE DEF base
    <3> QED
      BY <1>2, <1>5, <1>6 DEF LeftStep
  <2>2. it = [s \in SUBSET S |-> it[s]]
    BY <1>2, <1>5
  <2> HIDE DEF base, S
  <2> QED
    BY <2>1, <2>2
<1>8. total = Body(total)
  <2> HIDE DEF Body
  <2> QED
    BY <1>7
<1> HIDE DEF total
<1>9. ASSUME NEW s \in SUBSET (1 .. k)
      PROVE  \/ s = {} /\ total[s] = base
             \/ s # {} /\ (Max(s) \in 1 .. k /\ total[s \ {Max(s)}] \in V => LeftStep(total, base, step, s))
  <2>1. total[s] = Body(total)[s]
    BY <1>8
  <2> HIDE DEF base
  <2> QED
    BY <1>2, <1>6, <2>1 DEF LeftStep
<1>10. LeftFold(total, base, step, k, V)
  <2> HIDE DEF base
  <2> QED
    BY <1>4, <1>9, LeftFoldHolds
<1> QED
  BY <1>2, <1>3, <1>10

\* The strict queue does one task after the other.
OneByOne(x, w, places, list) ==
  \A k \in 1 .. Len(list) : \A before :
    before = StrictAfter(x, w, places, list, k - 1) =>
      /\ StrictAfter(x, w, places, list, k) = StrictTask(x, w, before, list[k])
      /\ before.y = [e \in places |-> before.y[e]]

LEMMA StrictQueue ==
  ASSUME NEW x, NEW w, NEW places, NEW list \in Seq(GemvDescriptors)
  PROVE  /\ StrictAfter(x, w, places, list, 0) = FirstDone(places)
         /\ OneByOne(x, w, places, list)
<1>1. PICK n \in Nat : n = Len(list)
  OBVIOUS
<1>2. PICK product :
        product = [at \in (1 .. n) \X places |->
                     q8_8_round_shift(StrictSum(x, w, list[at[1]], at[2] - list[at[1]].y_offset))]
  OBVIOUS
<1>3. PICK X : X = {0} \cup {product[at] : at \in (1 .. n) \X places}
  OBVIOUS
<1>4. PICK V : V = [y : [places -> X], prof : Profiles]
  OBVIOUS
<1>5. PICK step : step = [at \in (1 .. n) \X V |-> StrictTask(x, w, at[2], list[at[1]])]
  OBVIOUS
<1>6. \A i \in 1 .. n, v \in V : step[<<i, v>>] = StrictTask(x, w, v, list[i])
  BY <1>5
<1>7. FirstDone(places) \in V
  <2>1. [e \in places |-> 0] \in [places -> X]
    BY <1>3
  <2>2. CountedProfile \in Profiles
    BY DEF CountedProfile, ClearedGemvProfile, Profiles
  <2> QED
    BY <1>4, <2>1, <2>2 DEF FirstDone
<1>8. ASSUME NEW i \in 1 .. n, NEW v \in V PROVE StrictTask(x, w, v, list[i]) \in V
  <2>1. list[i] \in GemvDescriptors /\ v.prof \in Profiles /\ v.y \in [places -> X]
    BY <1>1, <1>4
  <2>2. update_queue_profile(v.prof, list[i]) \in Profiles
    BY <2>1, CountedTask
  <2>3. run_gemv_strict(x, w, v.y, list[i])
          = [e \in places |-> IF e - list[i].y_offset \in 0 .. list[i].out_dim - 1
                              THEN product[<<i, e>>] ELSE v.y[e]]
    <3>1. DOMAIN v.y = places
      BY <2>1
    <3>2. \A e \in places :
            product[<<i, e>>] = q8_8_round_shift(StrictSum(x, w, list[i], e - list[i].y_offset))
      BY <1>2
    <3> QED
      BY <3>1, <3>2 DEF run_gemv_strict, Evaluated
  <2>4. \A e \in places : product[<<i, e>>] \in X
    BY <1>3
  <2>5. run_gemv_strict(x, w, v.y, list[i]) \in [places -> X]
    BY <2>1, <2>3, <2>4
  <2> QED
    BY <1>4, <2>2, <2>5 DEF StrictTask
<1>9. StaysIn(step, 1 .. n, V)
  BY <1>6, <1>8 DEF StaysIn
<1>10. PICK base : base = FirstDone(places)
  OBVIOUS
<1>11. ASSUME NEW k \in 0 .. n
       PROVE  \E it : LeftFold(it, base, step, k, V) /\ StrictAfter(x, w, places, list, k) = it[1 .. k]
  BY <1>1, <1>6, <1>7, <1>9, <1>10, StrictFold
<1>12. PICK it : LeftFold(it, base, step, n, V)
  BY <1>11
<1>13. ASSUME NEW k \in 0 .. n
       PROVE  StrictAfter(x, w, places, list, k) = it[1 .. k]
  <2>1. PICK part : LeftFold(part, base, step, k, V) /\ StrictAfter(x, w, places, list, k) = part[1 .. k]
    BY <1>11
  <2>2. it[1 .. k] = part[1 .. k]
    BY <1>12, <2>1, OneLeftFold
  <2> QED
    BY <2>1, <2>2
<1>14. ASSUME NEW k \in 0 .. n
       PROVE  StrictAfter(x, w, places, list, k) \in V
  BY <1>12, <1>13 DEF LeftFold
<1>15. StrictAfter(x, w, places, list, 0) = FirstDone(places)
  <2>1. 1 .. 0 = {} /\ {} \in SUBSET (1 .. n) /\ 0 \in 0 .. n
    OBVIOUS
  <2>2. it[{}] = base
    BY <1>12, <2>1 DEF LeftFold, LeftStep
  <2> QED
    BY <1>10, <1>13, <2>1, <2>2
<1>16. ASSUME NEW k \in 1 .. n
       PROVE  StrictAfter(x, w, places, list, k)
                = StrictTask(x, w, StrictAfter(x, w, places, list, k - 1), list[k])
  <2>1. it[1 .. k] = step[<<k, it[1 .. k - 1]>>]
    BY <1>12, LeftFoldOnward
  <2>2. k - 1 \in 0 .. n /\ k \in 0 .. n
    OBVIOUS
  <2>3. StrictAfter(x, w, places, list, k - 1) = it[1 .. k - 1]
    BY <1>13, <2>2
  <2>4. StrictAfter(x, w, places, list, k - 1) \in V
    BY <1>14, <2>2
  <2>5. StrictAfter(x, w, places, list, k) = step[<<k, StrictAfter(x, w, places, list, k - 1)>>]
    BY <1>13, <2>1, <2>2, <2>3
  <2> QED
    BY <1>6, <2>4, <2>5
<1>17. ASSUME NEW k \in 0 .. n, NEW y, y = StrictAfter(x, w, places, list, k).y
       PROVE  y = [e \in places |-> y[e]]
  BY <1>4, <1>14, <1>17
<1>18. OneByOne(x, w, places, list)
  <2>1. SUFFICES ASSUME NEW k \in 1 .. n, NEW before, before = StrictAfter(x, w, places, list, k - 1)
                 PROVE  /\ StrictAfter(x, w, places, list, k) = StrictTask(x, w, before, list[k])
                        /\ before.y = [e \in places |-> before.y[e]]
    BY <1>1 DEF OneByOne
  <2>2. k - 1 \in 0 .. n
    OBVIOUS
  <2> QED
    BY <1>16, <1>17, <2>1, <2>2
<1> QED
  BY <1>15, <1>18

\* What the queue kernel has come to: whole tasks as the strict queue does them, and of the
\* current one as many rows as its tiles have covered.
StrictSoFar(k) == StrictAfter(x_all, w_all, DOMAIN y_all, tasks, k)

RowsDone == IF out_start < GemvTask.out_dim THEN out_start ELSE GemvTask.out_dim

TilesDone ==
  /\ task_idx \in 1 .. bounded_tasks /\ out_start \in Nat
  /\ x_local = load_x_tile(x_all, GemvTask)
  /\ gemv_prof = StrictSoFar(task_idx).prof
  /\ y_all = compute_tile(x_local, w_all, StrictSoFar(task_idx - 1).y, GemvTask, 0 .. RowsDone - 1)

TasksDone(k) == [y |-> y_all, prof |-> gemv_prof] = StrictSoFar(k)

\* The operands of a task are numbers.
Readable(x, w, t) ==
  /\ \A i \in 0 .. t.in_dim - 1 : x[t.x_offset + i] \in Int
  /\ \A i \in 0 .. t.in_dim * t.out_dim - 1 : w[t.w_offset + i] \in Int

GemvInv ==
  /\ tasks \in Seq(GemvDescriptors) /\ task_count = Len(tasks)
  /\ \A k \in DOMAIN tasks : Readable(x_all, w_all, tasks[k])
  /\ gpc \in {"idle", "next_task", "tiles", "done", "overrun"}
  /\ gpc = "idle" => y_all = [e \in DOMAIN y_all |-> 0]
  /\ gpc = "next_task" => task_idx \in 0 .. bounded_tasks /\ TasksDone(task_idx)
  /\ gpc = "tiles" => TilesDone
  /\ gpc = "done" => TasksDone(bounded_tasks)
  /\ gpc = "overrun" => task_idx \in 0 .. bounded_tasks - 1 /\ TasksDone(task_idx) /\ ~NextFits

\* The strict sum is a sum of the lemmas on sums.
LEMMA StrictSumAdded ==
  ASSUME NEW x, NEW w, NEW t, NEW row, NEW g,
         \A i \in 0 .. t.in_dim - 1 : g[i] = x[t.x_offset + i] * w[t.w_offset + row * t.in_dim + i]
  PROVE  StrictSum(x, w, t, row) = SumOver(g, 0 .. t.in_dim - 1)
<1>1. PICK S : S = 0 .. t.in_dim - 1
  OBVIOUS
<1> DEFINE F(it) == [s \in SUBSET S |->
                       IF s = {} THEN 0
                       ELSE x[t.x_offset + (CHOOSE e \in s : TRUE)]
                                * w[t.w_offset + row * t.in_dim + (CHOOSE e \in s : TRUE)]
                              + it[s \ {CHOOSE e \in s : TRUE}]]
           G(it) == [s \in SUBSET S |->
                       IF s = {} THEN 0
                       ELSE g[CHOOSE e \in s : TRUE] + it[s \ {CHOOSE e \in s : TRUE}]]
<1>2. SumOver(g, S) = (CHOOSE it : it = G(it))[S]
  BY DEF SumOver, MapThenSumSet, MapThenFoldSet
<1>3. StrictSum(x, w, t, row) = (CHOOSE it : it = F(it))[S]
  BY <1>1 DEF StrictSum, MapThenSumSet, MapThenFoldSet
<1>4. ASSUME NEW it PROVE F(it) = G(it)
  <2>1. ASSUME NEW s \in SUBSET S, s # {} PROVE (CHOOSE e \in s : TRUE) \in S
    BY <2>1
  <2>2. ASSUME NEW s \in SUBSET S, s # {}, NEW e, e = (CHOOSE c \in s : TRUE)
        PROVE  g[e] = x[t.x_offset + e] * w[t.w_offset + row * t.in_dim + e]
    BY <1>1, <2>1, <2>2
  <2> QED
    BY <2>2
<1> HIDE DEF F, G
<1>5. (CHOOSE it : it = F(it)) = (CHOOSE it : it = G(it))
  BY <1>4
<1> QED
  BY <1>1, <1>2, <1>3, <1>5

\* The elements of a row of a matrix are in the rows before the end.
LEMMA WeightInside ==
  ASSUME NEW m \in Nat, NEW n \in Nat, NEW row \in 0 .. n - 1, NEW i \in 0 .. m - 1
  PROVE  row * m + i \in 0 .. m * n - 1
<1>1. PICK rest \in Nat : n = row + 1 + rest
  <2>1. n - row - 1 \in Nat
    OBVIOUS
  <2> QED
    BY <2>1
<1>2. m * n = row * m + m + rest * m /\ rest * m \in Nat /\ row * m \in Nat
  BY <1>1
<1> QED
  BY <1>2

\* What the lanes add up in a row is what one loop does.
LEMMA SameSum ==
  ASSUME NEW x, NEW w, NEW t \in GemvDescriptors, Readable(x, w, t), NEW row \in 0 .. t.out_dim - 1
  PROVE  dotprod_q8_8_single(load_x_tile(x, t), WeightRow(w, t, row), t.in_dim) = StrictSum(x, w, t, row)
<1>1. PICK m \in Nat, n \in Nat : m = t.in_dim /\ n = t.out_dim
  BY DescriptorNumbers
<1>2. PICK o \in Nat, at \in Nat : o = t.x_offset /\ at = t.w_offset
  BY DescriptorNumbers
<1>3. PICK l, r : l = load_x_tile(x, t) /\ r = WeightRow(w, t, row)
  OBVIOUS
<1>4. PICK g : g = [i \in 0 .. m - 1 |-> l[i] * r[i]]
  OBVIOUS
<1>5. ASSUME NEW i \in 0 .. m - 1
      PROVE  /\ g[i] = l[i] * r[i] /\ l[i] \in Int /\ r[i] \in Int
             /\ g[i] = x[o + i] * w[at + row * m + i]
  <2>1. l[i] = x[o + i] /\ r[i] = w[at + row * m + i]
    BY <1>1, <1>2, <1>3 DEF load_x_tile, WeightRow
  <2>2. PICK e : e = row * m + i /\ e \in 0 .. m * n - 1
    BY <1>1, WeightInside
  <2>3. at + row * m + i = at + e
    <3>1. row * m \in Int
      BY <1>1
    <3> QED
      BY <1>2, <2>2, <3>1
  <2>4. x[o + i] \in Int /\ w[at + e] \in Int
    BY <1>1, <1>2, <2>2 DEF Readable
  <2>5. g[i] = l[i] * r[i]
    BY <1>4
  <2> QED
    BY <2>1, <2>3, <2>4, <2>5
<1>6. dotprod_q8_8_single(l, r, m) = SumOver(g, 0 .. m - 1)
  <2>1. \A i \in 0 .. m - 1 : g[i] = l[i] * r[i] /\ l[i] \in Int /\ r[i] \in Int
    BY <1>5
  <2> QED
    BY <1>1, <2>1, DotProductIsSum
<1>7. StrictSum(x, w, t, row) = SumOver(g, 0 .. t.in_dim - 1)
  <2>1. \A i \in 0 .. t.in_dim - 1 : g[i] = x[t.x_offset + i] * w[t.w_offset + row * t.in_dim + i]
    BY <1>1, <1>2, <1>5
  <2> QED
    BY <2>1, StrictSumAdded
<1> QED
  BY <1>1, <1>3, <1>6, <1>7

\* So tiles over all rows of a task are the strict product.
LEMMA AllRows ==
  ASSUME NEW x, NEW w, NEW y, NEW t \in GemvDescriptors, Readable(x, w, t)
  PROVE  compute_tile(load_x_tile(x, t), w, y, t, 0 .. t.out_dim - 1) = run_gemv_strict(x, w, y, t)
<1> DEFINE acc(row) == dotprod_q8_8_single(load_x_tile(x, t), WeightRow(w, t, row), t.in_dim)
<1>1. ASSUME NEW e, e - t.y_offset \in 0 .. t.out_dim - 1
      PROVE  acc(e - t.y_offset) = StrictSum(x, w, t, e - t.y_offset)
  BY <1>1, SameSum
<1>2. compute_tile(load_x_tile(x, t), w, y, t, 0 .. t.out_dim - 1)
        = [e \in DOMAIN y |-> IF e - t.y_offset \in 0 .. t.out_dim - 1
                              THEN q8_8_round_shift(acc(e - t.y_offset)) ELSE y[e]]
  BY DEF compute_tile, Evaluated
<1>3. run_gemv_strict(x, w, y, t)
        = [e \in DOMAIN y |-> IF e - t.y_offset \in 0 .. t.out_dim - 1
                              THEN q8_8_round_shift(StrictSum(x, w, t, e - t.y_offset)) ELSE y[e]]
  BY DEF run_gemv_strict, Evaluated
<1> HIDE DEF acc
<1> QED
  BY <1>1, <1>2, <1>3

\* Two tiles are one of all their rows.
LEMMA TilesJoin ==
  ASSUME NEW x, NEW w, NEW y, NEW t, NEW a \in Nat, NEW b \in Nat, a <= b
  PROVE  compute_tile(x, w, compute_tile(x, w, y, t, 0 .. a - 1), t, a .. b - 1)
           = compute_tile(x, w, y, t, 0 .. b - 1)
<1>1. PICK row : row = [e \in DOMAIN y |->
                          q8_8_round_shift(dotprod_q8_8_single(x, WeightRow(w, t, e - t.y_offset), t.in_dim))]
  OBVIOUS
<1>2. PICK first : first = [e \in DOMAIN y |-> IF e - t.y_offset \in 0 .. a - 1 THEN row[e] ELSE y[e]]
  OBVIOUS
<1>3. compute_tile(x, w, y, t, 0 .. a - 1) = first
  BY <1>1, <1>2 DEF compute_tile, Evaluated
<1>4. compute_tile(x, w, y, t, 0 .. b - 1)
        = [e \in DOMAIN y |-> IF e - t.y_offset \in 0 .. b - 1 THEN row[e] ELSE y[e]]
  BY <1>1 DEF compute_tile, Evaluated
<1>5. DOMAIN first = DOMAIN y
  BY <1>2
<1>6. compute_tile(x, w, first, t, a .. b - 1)
        = [e \in DOMAIN y |-> IF e - t.y_offset \in a .. b - 1 THEN row[e] ELSE first[e]]
  BY <1>1, <1>5 DEF compute_tile, Evaluated
<1>7. \A i : i \in 0 .. b - 1 <=> i \in 0 .. a - 1 \/ i \in a .. b - 1
  OBVIOUS
<1>8. \A e \in DOMAIN y :
        (IF e - t.y_offset \in a .. b - 1 THEN row[e] ELSE first[e])
          = (IF e - t.y_offset \in 0 .. b - 1 THEN row[e] ELSE y[e])
  BY <1>2, <1>7
<1> QED
  BY <1>3, <1>4, <1>6, <1>8

\* No rows are no change.
LEMMA NoRows ==
  ASSUME NEW x, NEW w, NEW y, NEW t, NEW places, y = [e \in places |-> y[e]]
  PROVE  compute_tile(x, w, y, t, 0 .. 0 - 1) = y
<1>1. \A i : i \notin 0 .. 0 - 1
  OBVIOUS
<1>2. DOMAIN y = places
  OBVIOUS
<1> QED
  BY <1>1, <1>2 DEF compute_tile, Evaluated

LEMMA BoundedTasks ==
  ASSUME GemvInv
  PROVE  bounded_tasks \in 0 .. Len(tasks) /\ Len(tasks) \in Nat
BY LinearShape DEF GemvInv, bounded_tasks

LEMMA QueueStarts == GemvInv /\ StartQueue => GemvInv'
<1> SUFFICES ASSUME GemvInv, StartQueue PROVE GemvInv'
  OBVIOUS
<1>1. PICK places : places = DOMAIN y_all
  OBVIOUS
<1>2. StrictAfter(x_all, w_all, places, tasks, 0) = FirstDone(places)
  BY StrictQueue DEF GemvInv
<1>3. [y |-> y_all, prof |-> CountedProfile] = FirstDone(places)
  BY <1>1 DEF GemvInv, StartQueue, FirstDone
<1>4. TasksDone(task_idx)' /\ task_idx' = 0
  BY <1>1, <1>2, <1>3 DEF StartQueue, TasksDone, StrictSoFar, CountedProfile
<1>5. (0 \in 0 .. bounded_tasks)'
  BY BoundedTasks DEF StartQueue, bounded_tasks
<1> QED
  BY <1>4, <1>5 DEF GemvInv, StartQueue

LEMMA TaskLoads == GemvInv /\ LoadTask => GemvInv'
<1> SUFFICES ASSUME GemvInv, LoadTask PROVE GemvInv'
  OBVIOUS
<1>1. PICK places, k, t : places = DOMAIN y_all /\ k = task_idx /\ t = tasks[k + 1]
  OBVIOUS
<1>2. PICK before, after : /\ before = StrictAfter(x_all, w_all, places, tasks, k)
                           /\ after = StrictAfter(x_all, w_all, places, tasks, k + 1)
  OBVIOUS
<1>3. /\ tasks \in Seq(GemvDescriptors) /\ k \in Nat /\ k < bounded_tasks
      /\ bounded_tasks \in 0 .. Len(tasks) /\ Len(tasks) \in Nat
  BY <1>1, BoundedTasks DEF GemvInv, LoadTask
<1>4. t \in GemvDescriptors
  BY <1>1, <1>3
<1>5. [y |-> y_all, prof |-> gemv_prof] = before
  BY <1>1, <1>2 DEF GemvInv, LoadTask, TasksDone, StrictSoFar
<1>6. y_all = before.y /\ gemv_prof = before.prof
  BY <1>5
<1>7. after = StrictTask(x_all, w_all, before, t) /\ before.y = [e \in places |-> before.y[e]]
  <2>1. PICK m : m = k + 1
    OBVIOUS
  <2>2. m \in 1 .. Len(tasks) /\ m - 1 = k /\ tasks \in Seq(GemvDescriptors)
    BY <1>3, <2>1
  <2>3. before = StrictAfter(x_all, w_all, places, tasks, m - 1)
    BY <1>2, <2>2
  <2>4. /\ StrictAfter(x_all, w_all, places, tasks, m) = StrictTask(x_all, w_all, before, tasks[m])
        /\ before.y = [e \in places |-> before.y[e]]
    <3>1. OneByOne(x_all, w_all, places, tasks)
      BY <2>2, StrictQueue
    <3> QED
      BY <2>2, <2>3, <3>1, Zenon DEF OneByOne
  <2> QED
    BY <1>1, <1>2, <2>1, <2>4
<1>8. after.prof = update_queue_profile(gemv_prof, t)
  BY <1>6, <1>7 DEF StrictTask
<1>9. PICK x : x = load_x_tile(x_all, t)
  OBVIOUS
<1>10. compute_tile(x, w_all, before.y, t, 0 .. 0 - 1) = before.y
  BY <1>7, NoRows
<1>11. /\ task_idx' = k + 1 /\ GemvTask' = t /\ x_local' = x /\ gemv_prof' = after.prof
       /\ out_start' = 0 /\ y_all' = y_all /\ w_all' = w_all /\ x_all' = x_all /\ tasks' = tasks
       /\ gpc' = "tiles" /\ task_count' = task_count
  BY <1>1, <1>8, <1>9 DEF LoadTask, GemvTask
<1>12. RowsDone' = 0
  <2>1. t.out_dim \in Nat
    BY <1>4, DescriptorNumbers
  <2> QED
    BY <1>11, <2>1 DEF RowsDone
<1>13. bounded_tasks' = bounded_tasks /\ k + 1 \in 1 .. bounded_tasks
  BY <1>3, <1>11 DEF bounded_tasks
<1>14. StrictSoFar(task_idx)' = after /\ StrictSoFar(task_idx - 1)' = before
  <2>1. (k + 1) - 1 = k
    BY <1>3
  <2> QED
    BY <1>1, <1>2, <1>11, <2>1 DEF StrictSoFar
<1>15. TilesDone'
  BY <1>6, <1>9, <1>10, <1>11, <1>12, <1>13, <1>14 DEF TilesDone
<1> QED
  BY <1>3, <1>11, <1>15 DEF GemvInv

LEMMA TileComputed == GemvInv /\ ComputeTile => GemvInv'
<1> SUFFICES ASSUME GemvInv, ComputeTile PROVE GemvInv'
  OBVIOUS
<1>1. PICK places, k, t, a : places = DOMAIN y_all /\ k = task_idx /\ t = GemvTask /\ a = out_start
  OBVIOUS
<1>2. TilesDone /\ gpc = "tiles" /\ tasks \in Seq(GemvDescriptors) /\ a < t.out_dim
  BY <1>1 DEF GemvInv, ComputeTile
<1>3. t \in GemvDescriptors /\ a \in Nat
  BY <1>1, <1>2, BoundedTasks DEF TilesDone, GemvTask
<1>4. t.out_dim \in Nat /\ kTileOut \in Nat \ {0}
  BY <1>3, LinearShape, DescriptorNumbers
<1>5. PICK v, b : v = (IF t.out_dim - a < kTileOut THEN t.out_dim - a ELSE kTileOut) /\ b = a + v
  OBVIOUS
<1>6. b \in Nat /\ a <= b
  BY <1>2, <1>3, <1>4, <1>5
<1>7. PICK y : y = StrictAfter(x_all, w_all, places, tasks, k - 1).y
  OBVIOUS
<1>8. y_all = compute_tile(x_local, w_all, y, t, 0 .. a - 1)
  BY <1>1, <1>2, <1>7 DEF TilesDone, RowsDone, StrictSoFar
<1>9. /\ y_all' = compute_tile(x_local, w_all, y_all, t, a .. b - 1)
      /\ out_start' = a + kTileOut
      /\ x_all' = x_all /\ w_all' = w_all /\ tasks' = tasks /\ task_count' = task_count
      /\ task_idx' = task_idx /\ x_local' = x_local /\ gemv_prof' = gemv_prof /\ gpc' = "tiles"
  <2>1. y_all' = compute_tile(x_local, w_all, y_all, t, a .. a + v - 1)
    BY <1>1, <1>5 DEF ComputeTile
  <2>2. y_all' = compute_tile(x_local, w_all, y_all, t, a .. b - 1)
    <3>1. v \in Nat /\ b = a + v
      BY <1>2, <1>3, <1>4, <1>5
    <3>2. a .. b - 1 = a .. a + v - 1
      BY <1>3, <1>6, <3>1
    <3> QED
      BY <2>1, <3>2
  <2>3. out_start' = a + kTileOut
    BY <1>1 DEF ComputeTile
  <2>4. /\ x_all' = x_all /\ w_all' = w_all /\ tasks' = tasks /\ task_count' = task_count
        /\ task_idx' = task_idx /\ x_local' = x_local /\ gemv_prof' = gemv_prof /\ gpc' = "tiles"
    BY <1>2 DEF ComputeTile
  <2> QED
    BY <2>2, <2>3, <2>4
<1>10. y_all' = compute_tile(x_local, w_all, y, t, 0 .. b - 1)
  <2>1. compute_tile(x_local, w_all, compute_tile(x_local, w_all, y, t, 0 .. a - 1), t, a .. b - 1)
          = compute_tile(x_local, w_all, y, t, 0 .. b - 1)
    BY <1>3, <1>6, TilesJoin
  <2> QED
    BY <1>8, <1>9, <2>1
<1>11. RowsDone' = b
  <2>1. RowsDone' = IF a + kTileOut < t.out_dim THEN a + kTileOut ELSE t.out_dim
    BY <1>1, <1>9 DEF RowsDone, GemvTask
  <2> QED
    BY <1>2, <1>3, <1>4, <1>5, <2>1
<1>12. DOMAIN y_all' = places
  BY <1>1, <1>9 DEF compute_tile, Evaluated
<1>13. /\ StrictSoFar(task_idx)' = StrictSoFar(task_idx)
       /\ StrictSoFar(task_idx - 1)' = StrictAfter(x_all, w_all, places, tasks, k - 1)
  BY <1>1, <1>9, <1>12 DEF StrictSoFar
<1>14. bounded_tasks' = bounded_tasks /\ GemvTask' = t /\ out_start' \in Nat
  BY <1>1, <1>3, <1>4, <1>9 DEF bounded_tasks, GemvTask
<1>15. TilesDone'
  BY <1>1, <1>2, <1>7, <1>9, <1>10, <1>11, <1>13, <1>14 DEF TilesDone
<1> QED
  BY <1>2, <1>9, <1>15 DEF GemvInv

LEMMA TaskIsDone == GemvInv /\ TaskComputed => GemvInv'
<1> SUFFICES ASSUME GemvInv, TaskComputed PROVE GemvInv'
  OBVIOUS
<1>1. PICK places, k, t : places = DOMAIN y_all /\ k = task_idx /\ t = GemvTask
  OBVIOUS
<1>2. TilesDone /\ tasks \in Seq(GemvDescriptors) /\ out_start >= t.out_dim
  BY <1>1 DEF GemvInv, TaskComputed
<1>3. k \in 1 .. bounded_tasks /\ k \in 1 .. Len(tasks) /\ t = tasks[k]
  BY <1>1, <1>2, BoundedTasks DEF TilesDone, GemvTask
<1>4. PICK before, after : /\ before = StrictAfter(x_all, w_all, places, tasks, k - 1)
                           /\ after = StrictAfter(x_all, w_all, places, tasks, k)
  OBVIOUS
<1>5. after = StrictTask(x_all, w_all, before, t)
  <2>1. k \in 1 .. Len(tasks) /\ tasks \in Seq(GemvDescriptors)
    BY <1>2, <1>3
  <2>2. StrictAfter(x_all, w_all, places, tasks, k) = StrictTask(x_all, w_all, before, tasks[k])
    <3>1. OneByOne(x_all, w_all, places, tasks)
      BY <2>1, StrictQueue
    <3> QED
      BY <1>4, <2>1, <3>1, Zenon DEF OneByOne
  <2> QED
    BY <1>3, <1>4, <2>2
<1>6. t.out_dim \in Nat /\ out_start \in Nat
  <2>1. t \in GemvDescriptors
    BY <1>2, <1>3
  <2> QED
    BY <1>2, <2>1, DescriptorNumbers DEF TilesDone
<1>7. RowsDone = t.out_dim
  BY <1>1, <1>2, <1>6 DEF RowsDone
<1>8. y_all = run_gemv_strict(x_all, w_all, before.y, t)
  <2>1. y_all = compute_tile(load_x_tile(x_all, t), w_all, before.y, t, 0 .. t.out_dim - 1)
    BY <1>1, <1>2, <1>4, <1>7 DEF TilesDone, StrictSoFar
  <2>2. t \in GemvDescriptors /\ Readable(x_all, w_all, t)
    <3>1. k \in DOMAIN tasks /\ tasks \in Seq(GemvDescriptors)
      BY <1>2, <1>3
    <3> QED
      BY <1>3, <3>1 DEF GemvInv
  <2> QED
    BY <2>1, <2>2, AllRows
<1>9. gemv_prof = after.prof
  BY <1>1, <1>2, <1>4 DEF TilesDone, StrictSoFar
<1>10. [y |-> y_all, prof |-> gemv_prof] = after
  BY <1>5, <1>8, <1>9 DEF StrictTask
<1>11. TasksDone(task_idx)' /\ (task_idx \in 0 .. bounded_tasks)'
  <2>1. k \in 0 .. bounded_tasks
    BY <1>3
  <2> QED
    BY <1>1, <1>4, <1>10, <2>1 DEF TasksDone, StrictSoFar, TaskComputed, bounded_tasks
<1> QED
  BY <1>11 DEF GemvInv, TaskComputed

LEMMA QueueIsDone == GemvInv /\ QueueDone => GemvInv'
BY DEF GemvInv, QueueDone, TasksDone, StrictSoFar, bounded_tasks

LEMMA QueueOverruns == GemvInv /\ LoadOverruns => GemvInv'
<1> SUFFICES ASSUME GemvInv, LoadOverruns PROVE GemvInv'
  OBVIOUS
<1>1. task_idx \in 0 .. bounded_tasks - 1
  BY BoundedTasks DEF GemvInv, LoadOverruns
<1>2. TasksDone(task_idx) /\ ~NextFits
  BY DEF GemvInv, LoadOverruns
<1>3. /\ bounded_tasks' = bounded_tasks /\ task_idx' = task_idx /\ gpc' = "overrun"
      /\ TasksDone(task_idx)' = TasksDone(task_idx) /\ NextFits' = NextFits
  BY DEF LoadOverruns, TasksDone, StrictSoFar, bounded_tasks, NextFits
<1> QED
  BY <1>1, <1>2, <1>3 DEF GemvInv, LoadOverruns

LEMMA GemvUnaffected == GemvInv /\ UNCHANGED linearVars => GemvInv'
BY DEF linearVars, GemvInv, TilesDone, TasksDone, StrictSoFar, bounded_tasks, GemvTask, RowsDone, NextFits

LEMMA GemvStarts == Init => GemvInv
<1> SUFFICES ASSUME Init PROVE GemvInv
  OBVIOUS
<1>1. PICK c \in TheCase(GemvCases, program = "gemv") :
        x_all = c.x /\ w_all = c.w /\ y_all = c.y /\ tasks = c.tasks /\ task_count = Len(c.tasks)
  BY DEF Init
<1>2. c \in GemvCases
  BY <1>1, GemvAssumption DEF TheCase
<1> QED
  <2>1. tasks \in Seq(GemvDescriptors) /\ task_count = Len(tasks) /\ y_all = [e \in DOMAIN y_all |-> 0]
    BY <1>1, <1>2, GemvAssumption
  <2>2. \A k \in DOMAIN tasks : Readable(x_all, w_all, tasks[k])
    <3> SUFFICES ASSUME NEW k \in DOMAIN tasks PROVE Readable(x_all, w_all, tasks[k])
      OBVIOUS
    <3>1. OperandsInMemory(x_all, w_all, DOMAIN y_all, tasks[k])
      BY <1>1, <1>2, GemvAssumption
    <3> QED
      <4>1. \A i \in S16 : i \in Int
        BY DEF S16
      <4>2. PICK t : t = tasks[k]
        OBVIOUS
      <4>3. \A i \in 0 .. t.in_dim - 1 : x_all[t.x_offset + i] \in S16
        BY <3>1, <4>2, Zenon DEF OperandsInMemory
      <4>4. \A i \in 0 .. t.in_dim * t.out_dim - 1 : w_all[t.w_offset + i] \in S16
        BY <3>1, <4>2, Zenon DEF OperandsInMemory
      <4>5. Readable(x_all, w_all, t)
        BY <4>1, <4>3, <4>4, Zenon DEF Readable
      <4> QED
        BY <4>2, <4>5
  <2> QED
    BY <2>1, <2>2 DEF GemvInv, Init, LinearInit

LEMMA GemvInvariant == Spec => []GemvInv
<1>1. GemvInv /\ [Next]_vars => GemvInv'
  <2> SUFFICES ASSUME GemvInv, [Next]_vars PROVE GemvInv'
    OBVIOUS
  <2>1. CASE LinearStep
    BY <2>1, QueueStarts, TaskLoads, TileComputed, TaskIsDone, QueueIsDone, QueueOverruns DEF LinearStep
  <2>2. CASE UNCHANGED linearVars
    BY <2>2, GemvUnaffected
  <2> QED
    BY <2>1, <2>2 DEF Next, RuntimeProgram, RunnerProgram, GemvProgram, ScoreProgram, CoreProgram, Over, vars
<1> QED
  BY <1>1, GemvStarts, PTL DEF Spec

\* However many tasks there are, and however tiles and lanes divide their rows and sums: the
\* queue kernel leaves the outputs and the counters of the strict queue over the tasks it has
\* room for, or over those before the first whose vector is longer than x_local, which is
\* what it takes for the kernel to overrun it (run_gemv_queue_tiled_hls).
THEOREM QueueAgrees == Spec => []GemvQueueAgrees
<1>1. GemvInv => GemvQueueAgrees
  <2> SUFFICES ASSUME GemvInv PROVE GemvQueueAgrees
    OBVIOUS
  <2>1. gpc = "overrun" => tasks[task_idx + 1].in_dim > kMaxInDim
    <3> SUFFICES ASSUME gpc = "overrun" PROVE tasks[task_idx + 1].in_dim > kMaxInDim
      OBVIOUS
    <3>1. task_idx + 1 \in 1 .. Len(tasks) /\ tasks \in Seq(GemvDescriptors) /\ ~NextFits
      BY BoundedTasks DEF GemvInv
    <3>2. tasks[task_idx + 1].in_dim \in Int
      BY <3>1, DescriptorNumbers
    <3>3. PICK d \in Int, most \in Int : d = tasks[task_idx + 1].in_dim /\ most = kMaxInDim
      BY <3>2, LinearShape
    <3>4. ~(d <= most)
      BY <3>1, <3>3 DEF NextFits
    <3>5. d > most
      BY <3>4
    <3> QED
      BY <3>3, <3>5
  <2> QED
    BY <2>1 DEF GemvInv, GemvQueueAgrees, TasksDone, StrictSoFar, StrictAfter
<1> QED
  BY <1>1, GemvInvariant, PTL

-----------------------------------------------------------------------------
(* The attention kernel: every row takes every key, in order.               *)

\* The score and the value of key n of row i.
KeyOf(c, i, n) ==
  [score |-> ScoreOf(c, dotprod_q8_8(Row(c.q, i, StrideElems(c), TRUE),
                                     Row(c.k, n - 1, StrideElems(c), TRUE)), i, n - 1),
   v     |-> Row(c.v, n - 1, StrideElems(c), TRUE)]

\* The row after[n - 1] with key n.
WithKey(c, i, row, n) == online_softmax_ctx_acc_row_step(row, KeyOf(c, i, n).score, KeyOf(c, i, n).v)

\* What after says of the first k keys is what the loop computes.
LoopsTo(c, i, after, k) ==
  /\ after[0] = FreshRow(c.neg_large)
  /\ \A n \in 1 .. k : after[n] = WithKey(c, i, after[n - 1], n)

\* The loop over the keys of a row is defined.
LEMMA LoopExists ==
  ASSUME NEW c, NEW i, NEW N \in Nat
  PROVE  \E after : LoopsTo(c, i, after, N)
<1> DEFINE Bad == {k \in 0 .. N : ~\E after : LoopsTo(c, i, after, k)}
           Ranges == {1 .. k : k \in Bad}
<1>1. SUFFICES ASSUME Bad # {} PROVE FALSE
  OBVIOUS
<1>2. PICK s \in Ranges : \A t \in Ranges : t \subseteq s => t = s
  <2>1. Ranges \subseteq SUBSET (1 .. N) /\ Ranges # {}
    BY <1>1
  <2>2. IsFiniteSet(1 .. N)
    BY FS_Interval
  <2>3. PICK S, R : S = 1 .. N /\ R = Ranges
    OBVIOUS
  <2>4. IsFiniteSet(S) /\ R \subseteq SUBSET S /\ R # {}
    BY <2>1, <2>2, <2>3
  <2>5. \E s \in R : \A t \in R : t \subseteq s => t = s
    <3> HIDE DEF Ranges, Bad
    <3> QED
      BY <2>4, SmallestSubset
  <2> QED
    BY <2>3, <2>5
<1>3. PICK k \in Bad : s = 1 .. k
  BY <1>2
<1>4. k # 0
  <2>1. \A row : LoopsTo(c, i, [n \in 0 .. 0 |-> FreshRow(c.neg_large)], 0)
    BY DEF LoopsTo
  <2> QED
    BY <1>3, <2>1
<1>5. PICK before : LoopsTo(c, i, before, k - 1)
  <2>1. k - 1 \in 0 .. N
    BY <1>3, <1>4
  <2>2. ~(1 .. k \subseteq 1 .. k - 1) /\ 1 .. k - 1 \subseteq 1 .. k
    BY <1>3, <1>4
  <2>3. k - 1 \notin Bad
    BY <1>2, <1>3, <2>2
  <2> QED
    BY <2>1, <2>3
<1>6. PICK last : last = WithKey(c, i, before[k - 1], k)
  OBVIOUS
<1>7. PICK after : after = [n \in 0 .. k |-> IF n = k THEN last ELSE before[n]]
  OBVIOUS
<1>8. LoopsTo(c, i, after, k)
  <2>1. after[0] = before[0] /\ \A n \in 0 .. k - 1 : after[n] = before[n]
    BY <1>3, <1>4, <1>7
  <2>2. ASSUME NEW n \in 1 .. k PROVE after[n] = WithKey(c, i, after[n - 1], n)
    <3>1. n - 1 \in 0 .. k - 1 /\ k \in Nat
      BY <1>3
    <3>2. after[n - 1] = before[n - 1]
      BY <2>1, <3>1
    <3>3. CASE n = k
      BY <1>6, <1>7, <3>1, <3>2, <3>3
    <3>4. CASE n # k
      <4>1. n \in 1 .. k - 1 /\ n \in 0 .. k - 1
        BY <3>1, <3>4
      <4> QED
        BY <1>5, <2>1, <3>2, <4>1 DEF LoopsTo
    <3> QED
      BY <3>3, <3>4
  <2> QED
    BY <1>5, <2>1, <2>2 DEF LoopsTo
<1> QED
  BY <1>3, <1>8

LEMMA SequentialLoop ==
  ASSUME NEW c, NEW i, NEW N \in Nat, c.seq_len = N
  PROVE  LoopsTo(c, i, SequentialRow(c, i), N)
<1> DEFINE Body(f) == [n \in 0 .. c.seq_len |-> IF n = 0 THEN FreshRow(c.neg_large)
                                                ELSE WithKey(c, i, f[n - 1], n)]
<1>1. PICK after : LoopsTo(c, i, after, N)
  BY LoopExists
<1>2. PICK f : f = [n \in 0 .. N |-> after[n]]
  OBVIOUS
<1>3. f = Body(f)
  <2>1. ASSUME NEW n \in 0 .. N
        PROVE  f[n] = IF n = 0 THEN FreshRow(c.neg_large) ELSE WithKey(c, i, f[n - 1], n)
    <3>1. CASE n = 0
      BY <1>1, <1>2, <3>1 DEF LoopsTo
    <3>2. CASE n # 0
      <4>1. n - 1 \in 0 .. N /\ n \in 1 .. N
        BY <3>2
      <4> QED
        BY <1>1, <1>2, <3>2, <4>1 DEF LoopsTo
    <3> QED
      BY <3>1, <3>2
  <2> QED
    BY <1>2, <2>1
<1>4. SequentialRow(c, i) = CHOOSE g : g = Body(g)
  BY DEF SequentialRow, WithKey, KeyOf
<1>5. SequentialRow(c, i) = Body(SequentialRow(c, i))
  <2> HIDE DEF Body
  <2> QED
    BY <1>3, <1>4
<1>6. PICK g : g = SequentialRow(c, i)
  OBVIOUS
<1>7. g = [n \in 0 .. N |-> IF n = 0 THEN FreshRow(c.neg_large) ELSE WithKey(c, i, g[n - 1], n)]
  BY <1>5, <1>6
<1>8. LoopsTo(c, i, g, N)
  BY <1>7 DEF LoopsTo
<1> QED
  BY <1>6, <1>8

\* Counting in rows of B.
LEMMA DivMod ==
  ASSUME NEW B \in Nat \ {0}, NEW m \in Nat
  PROVE  /\ m \div B \in Nat /\ m % B \in 0 .. B - 1
         /\ (m + 1) \div B = IF (m % B) + 1 < B THEN m \div B ELSE (m \div B) + 1
         /\ (m + 1) % B = IF (m % B) + 1 < B THEN (m % B) + 1 ELSE 0
<1>1. /\ m \div B \in Nat /\ m % B \in 0 .. B - 1 /\ m = B * (m \div B) + (m % B)
      /\ (m + 1) \div B \in Nat /\ (m + 1) % B \in 0 .. B - 1 /\ m + 1 = B * ((m + 1) \div B) + ((m + 1) % B)
  OBVIOUS
<1>2. PICK q, r, s, t : q = m \div B /\ r = m % B /\ s = (m + 1) \div B /\ t = (m + 1) % B
  OBVIOUS
<1>3. /\ q \in Nat /\ r \in Nat /\ s \in Nat /\ t \in Nat /\ r < B /\ t < B
      /\ B * q + r + 1 = B * s + t
  BY <1>1, <1>2
<1>4. s >= q /\ s <= q + 1
  <2>1. ASSUME s < q PROVE FALSE
    <3>1. PICK e \in Nat : q = s + 1 + e
      <4>1. q - s - 1 \in Nat
        BY <1>3, <2>1
      <4> QED
        BY <1>3, <4>1
    <3>2. B * q = B * s + B + B * e /\ B * e \in Nat /\ B * s \in Nat
      BY <1>3, <3>1
    <3> QED
      BY <1>3, <3>2
  <2>2. ASSUME s > q + 1 PROVE FALSE
    <3>1. PICK e \in Nat : s = q + 2 + e
      <4>1. s - q - 2 \in Nat
        BY <1>3, <2>2
      <4> QED
        BY <1>3, <4>1
    <3>2. B * s = B * q + B + B + B * e /\ B * e \in Nat /\ B * q \in Nat
      BY <1>3, <3>1
    <3> QED
      BY <1>3, <3>2
  <2> QED
    BY <1>3, <2>1, <2>2
<1>5. s = q \/ s = q + 1
  BY <1>3, <1>4
<1>6. CASE s = q
  <2>1. t = r + 1
    BY <1>3, <1>6
  <2> QED
    BY <1>1, <1>2, <1>3, <1>6, <2>1
<1>7. CASE s = q + 1
  <2>1. B * s = B * q + B /\ B * q \in Nat
    BY <1>3, <1>7
  <2>2. t = r + 1 - B
    BY <1>3, <2>1
  <2> QED
    BY <1>1, <1>2, <1>3, <1>7, <2>2
<1> QED
  BY <1>5, <1>6, <1>7

LEMMA DivBound ==
  ASSUME NEW B \in Nat \ {0}, NEW V \in Nat, NEW m \in Nat
  PROVE  /\ B * V \in Nat
         /\ m < B * V <=> m \div B < V
         /\ (B * V) \div B = V /\ (B * V) % B = 0
<1>1. /\ m \div B \in Nat /\ m % B \in 0 .. B - 1 /\ m = B * (m \div B) + (m % B)
  OBVIOUS
<1>2. PICK q, r : q = m \div B /\ r = m % B
  OBVIOUS
<1>3. q \in Nat /\ r \in 0 .. B - 1 /\ m = B * q + r
  BY <1>1, <1>2
<1>4. ASSUME q < V PROVE m < B * V
  <2>1. PICK e \in Nat : V = q + 1 + e
    <3>1. V - q - 1 \in Nat
      BY <1>3, <1>4
    <3> QED
      BY <1>3, <3>1
  <2>2. B * V = B * q + B + B * e /\ B * e \in Nat /\ B * q \in Nat
    BY <1>3, <2>1
  <2> QED
    BY <1>3, <2>2
<1>5. ASSUME V <= q PROVE ~(m < B * V)
  <2>1. PICK e \in Nat : q = V + e
    <3>1. q - V \in Nat
      BY <1>3, <1>5
    <3> QED
      BY <1>3, <3>1
  <2>2. B * q = B * V + B * e /\ B * e \in Nat /\ B * V \in Nat
    BY <1>3, <2>1
  <2> QED
    BY <1>3, <2>2
<1>6. (B * V) \div B = V /\ (B * V) % B = 0
  OBVIOUS
<1> QED
  BY <1>2, <1>3, <1>4, <1>5, <1>6


\* Packet m of a batch is for a row and a key, in that order of counting.
PacketAt(m) ==
  LET qi == batch_base + (m % batch_rows)
      kj == m \div batch_rows
  IN  [qi |-> qi, kj |-> kj, score |-> KeyOf(call, q_start + qi, k_start + kj + 1).score]

PositionOf(m) ==
  [kj |-> m \div batch_rows, slot |-> (m % batch_rows) \div 2, lane |-> (m % batch_rows) % 2]

Packets == batch_rows * valid_k

\* The stream holds what was generated and not taken, and the producer is at the next.
StreamInv ==
  /\ popped \in Nat /\ score_stream \in Seq({PacketAt(m) : m \in 0 .. Packets - 1})
  /\ popped + Len(score_stream) <= Packets
  /\ \A x \in 1 .. Len(score_stream) : score_stream[x] = PacketAt(popped + x - 1)
  /\ gen = PositionOf(popped + Len(score_stream))

\* The keys of the current tile that a row has: all, none, or those of the packets taken.
KeysTaken(qi) ==
  IF qi < batch_base THEN valid_k
  ELSE IF kpc = "batch" /\ qi < batch_base + batch_rows
  THEN (popped \div batch_rows) + IF qi - batch_base < popped % batch_rows THEN 1 ELSE 0
  ELSE 0

OnTile == kpc \in {"kv_tile", "batch", "store"}

QTileInv ==
  /\ q_start < call.seq_len
  /\ \A qi \in 0 .. valid_q - 1 : q_tile[qi] = Row(call.q, q_start + qi, stride, TRUE)

KVTileInv ==
  /\ k_start \in Nat /\ k_start < call.seq_len /\ kv_tile[ActiveBank] = LoadedKV(k_start)
  /\ batch_idx \in 0 .. QPairBatchCount
  /\ \A qi \in 0 .. valid_q - 1 : rows[qi] = SequentialRow(call, q_start + qi)[k_start + KeysTaken(qi)]

\* The rows before one are in the memory behind o.
StoredTo(end) ==
  \A i \in 0 .. call.seq_len - 1 : \A d \in Dims :
    i < end /\ i * stride + d \in DOMAIN out =>
      out[i * stride + d] = o_normalize_block_row(SequentialRow(call, i)[call.seq_len])[d]

LoopInv ==
  /\ kpc \in {"idle", "q_tile", "kv_tile", "batch", "store", "done"}
  /\ DOMAIN rows = TileRows /\ DOMAIN kv_tile = Banks
  /\ kpc # "batch" => score_stream = <<>>
  /\ kpc # "idle" =>
       call.seq_len \in Nat /\ call.stride_bytes \in Nat /\ q_start \in Nat
  /\ OnTile => QTileInv
  /\ kpc \in {"kv_tile", "batch"} => KVTileInv
  /\ kpc = "batch" => batch_idx < QPairBatchCount /\ batch_base < valid_q /\ StreamInv
  /\ kpc = "store" =>
       \A qi \in 0 .. valid_q - 1 : rows[qi] = SequentialRow(call, q_start + qi)[call.seq_len]
  /\ kpc = "q_tile" \/ OnTile => StoredTo(q_start)
  /\ kpc = "done" => StoredTo(call.seq_len)

LEMMA KernelShape ==
  /\ TileQ \in Nat \ {0} /\ TileK \in Nat \ {0} /\ HeadDim \in Nat \ {0} /\ SoftmaxCtxs \in Nat \ {0}
  /\ QPairBatchRows = 2 * SoftmaxCtxs /\ QPairBatchCount \in Nat
  /\ QPairBatchCount * QPairBatchRows = TileQ
<1>1. PICK c \in Nat \ {0}, t \in Nat \ {0} :
        c = QPairBatchRows /\ t = TileQ /\ c = 2 * SoftmaxCtxs /\ t % c = 0
  BY HlsShape DEF QPairBatchRows, RowPar
<1>2. t \div c \in Nat /\ (t \div c) * c = t
  BY <1>1
<1> QED
  BY <1>1, <1>2, HlsShape DEF QPairBatchCount

\* A batch is on rows of the tile, up to the last if it is not full.
LEMMA BatchShape ==
  ASSUME LoopInv, OnTile
  PROVE  /\ call.seq_len \in Nat /\ q_start \in Nat
         /\ valid_q \in 1 .. TileQ /\ q_start + valid_q <= call.seq_len
         /\ valid_q = TileQ \/ q_start + valid_q = call.seq_len
<1>1. call.seq_len \in Nat /\ q_start \in Nat /\ q_start < call.seq_len
  BY DEF LoopInv, OnTile, QTileInv
<1> QED
  BY <1>1, KernelShape DEF valid_q, Smaller

LEMMA BankShape ==
  ASSUME LoopInv, kpc \in {"kv_tile", "batch"}
  PROVE  /\ k_start \in Nat /\ valid_k \in 1 .. TileK /\ k_start + valid_k <= call.seq_len
         /\ valid_k = TileK \/ k_start + valid_k = call.seq_len
         /\ batch_idx \in 0 .. QPairBatchCount /\ batch_base \in Nat
         /\ batch_base = batch_idx * QPairBatchRows
         /\ (batch_idx + 1) * QPairBatchRows = batch_base + QPairBatchRows
         /\ batch_idx = QPairBatchCount => batch_base = TileQ
<1>1. call.seq_len \in Nat /\ k_start \in Nat /\ k_start < call.seq_len /\ batch_idx \in 0 .. QPairBatchCount
  BY DEF LoopInv, KVTileInv
<1>2. \A a \in Nat, b \in Nat : a * b \in Nat /\ (a + 1) * b = a * b + b
  OBVIOUS
<1>3. batch_idx \in Nat /\ QPairBatchRows \in Nat
  BY <1>1, KernelShape
<1> QED
  BY <1>1, <1>2, <1>3, KernelShape DEF valid_k, ValidK, Smaller, batch_base

LEMMA RowsShape ==
  ASSUME LoopInv, kpc = "batch"
  PROVE  /\ batch_rows \in Nat \ {0} /\ batch_base + batch_rows <= valid_q /\ batch_rows <= QPairBatchRows
         /\ batch_rows = QPairBatchRows \/ batch_base + batch_rows = valid_q
<1>1. batch_base < valid_q /\ batch_base \in Nat /\ valid_q \in Nat
  BY BatchShape, BankShape DEF LoopInv, OnTile
<1>2. QPairBatchRows \in Nat \ {0}
  BY KernelShape
<1> QED
  BY <1>1, <1>2 DEF batch_rows, Smaller

LEMMA LoopStarts ==
  ASSUME LoopInv, NEW c, NEW o, NEW on_fpga, StartKernel(c, o, on_fpga), c.null = FALSE,
         call'.seq_len \in Nat, call'.stride_bytes \in Nat
  PROVE  LoopInv'
<1>1. /\ kpc' = "q_tile" /\ q_start' = 0 /\ rows' = rows /\ kv_tile' = kv_tile
      /\ score_stream' = score_stream /\ score_stream = <<>>
  BY DEF StartKernel, LoopInv, batchVars
<1>2. StoredTo(q_start)'
  BY <1>1 DEF StoredTo
<1> QED
  BY <1>1, <1>2 DEF LoopInv, OnTile, TileRows

LEMMA LoopUnaffected ==
  ASSUME LoopInv, UNCHANGED kernelVars
  PROVE  LoopInv'
<1>1. /\ kpc' = kpc /\ rows' = rows /\ kv_tile' = kv_tile /\ score_stream' = score_stream /\ call' = call
      /\ q_start' = q_start /\ out' = out /\ gen' = gen /\ popped' = popped /\ q_tile' = q_tile
      /\ k_start' = k_start /\ batch_idx' = batch_idx /\ active_ping' = active_ping
  BY DEF kernelVars, tileVars, batchVars
<1>2. /\ valid_q' = valid_q /\ stride' = stride /\ valid_k' = valid_k /\ batch_base' = batch_base
      /\ OnTile' = OnTile /\ ActiveBank' = ActiveBank
  BY <1>1 DEF valid_q, stride, valid_k, ValidK, batch_base, OnTile, ActiveBank
<1>3. batch_rows' = batch_rows /\ Packets' = Packets
  BY <1>2 DEF batch_rows, Packets
<1>4. \A m : PacketAt(m)' = PacketAt(m)
  BY <1>1, <1>2, <1>3 DEF PacketAt
<1>5. StreamInv' = StreamInv
  BY <1>1, <1>3, <1>4 DEF StreamInv, PositionOf
<1>6. QTileInv' = QTileInv
  BY <1>1, <1>2 DEF QTileInv
<1>7. LoadedKV(k_start)' = LoadedKV(k_start)
  BY <1>1, <1>2 DEF LoadedKV, ValidK
<1>8. KVTileInv' = KVTileInv
  BY <1>1, <1>2, <1>3, <1>7 DEF KVTileInv, KeysTaken
<1>9. \A end : StoredTo(end)' = StoredTo(end)
  BY <1>1, <1>2 DEF StoredTo
<1> QED
  BY <1>1, <1>2, <1>5, <1>6, <1>8, <1>9 DEF LoopInv

LEMMA QTileLoads == LoopInv /\ LoadQTile => LoopInv'
<1> SUFFICES ASSUME LoopInv, LoadQTile PROVE LoopInv'
  OBVIOUS
<1>1. /\ kpc = "q_tile" /\ kpc' = "kv_tile" /\ call' = call /\ q_start' = q_start /\ out' = out
      /\ k_start' = 0 /\ batch_idx' = 0 /\ active_ping' = TRUE /\ q_start < call.seq_len
      /\ score_stream' = score_stream /\ score_stream = <<>>
      /\ kv_tile' = [kv_tile EXCEPT !["ping"] = LoadedKV(0)]
      /\ q_tile' = [qi \in TileRows |-> Row(call.q, q_start + qi, stride, qi < valid_q)]
      /\ rows' = [qi \in TileRows |-> IF qi < valid_q THEN FreshRow(call.neg_large) ELSE rows[qi]]
  BY DEF LoadQTile, LoopInv
<1>2. call.seq_len \in Nat /\ call.stride_bytes \in Nat /\ q_start \in Nat /\ DOMAIN kv_tile = Banks
  BY <1>1 DEF LoopInv
<1>3. valid_q' = valid_q /\ stride' = stride /\ valid_q \in 1 .. TileQ
  BY <1>1, <1>2, KernelShape DEF valid_q, Smaller, stride
<1>4. \A qi \in 0 .. valid_q - 1 : qi \in TileRows /\ qi < valid_q /\ qi >= 0
  BY <1>3, KernelShape DEF TileRows
<1>5. QTileInv'
  BY <1>1, <1>3, <1>4 DEF QTileInv, Row
<1>6. kv_tile'[ActiveBank'] = LoadedKV(0) /\ LoadedKV(0)' = LoadedKV(0)
  BY <1>1, <1>2, <1>3 DEF ActiveBank, Banks, LoadedKV, ValidK
<1>7. batch_base' = 0
  BY <1>1, KernelShape DEF batch_base
<1>8. ASSUME NEW qi \in 0 .. valid_q - 1
      PROVE  rows'[qi] = SequentialRow(call, q_start + qi)[0 + KeysTaken(qi)']
  <2>1. KeysTaken(qi)' = 0
    BY <1>1, <1>4, <1>7 DEF KeysTaken
  <2>2. SequentialRow(call, q_start + qi)[0] = FreshRow(call.neg_large)
    BY <1>2, SequentialLoop DEF LoopsTo
  <2> QED
    BY <1>1, <1>4, <2>1, <2>2
<1>9. KVTileInv'
  <2>1. 0 \in 0 .. QPairBatchCount /\ 0 < call.seq_len
    BY <1>1, <1>2, KernelShape
  <2> QED
    BY <1>1, <1>3, <1>6, <1>8, <2>1 DEF KVTileInv
<1>10. StoredTo(q_start)'
  BY <1>1, <1>3 DEF LoopInv, StoredTo
<1> QED
  BY <1>1, <1>2, <1>5, <1>9, <1>10 DEF LoopInv, OnTile

LEMMA KVTileEnds == LoopInv /\ NextKVTile => LoopInv'
<1> SUFFICES ASSUME LoopInv, NextKVTile PROVE LoopInv'
  OBVIOUS
<1>1. /\ kpc = "kv_tile" /\ call' = call /\ q_start' = q_start /\ out' = out /\ rows' = rows
      /\ k_start' = k_start + TileK /\ batch_idx' = 0 /\ q_tile' = q_tile
      /\ score_stream' = score_stream /\ score_stream = <<>> /\ batch_idx = QPairBatchCount
  BY DEF NextKVTile, LoopInv
<1>2. call.seq_len \in Nat /\ call.stride_bytes \in Nat /\ q_start \in Nat /\ DOMAIN kv_tile = Banks
  BY <1>1 DEF LoopInv
<1>3. valid_q' = valid_q /\ stride' = stride
  BY <1>1 DEF valid_q, stride
<1>4. /\ valid_q \in 1 .. TileQ /\ k_start \in Nat /\ valid_k \in 1 .. TileK
      /\ k_start + valid_k <= call.seq_len /\ (valid_k = TileK \/ k_start + valid_k = call.seq_len)
      /\ batch_base = TileQ
  BY <1>1, BatchShape, BankShape DEF OnTile
<1>5. ASSUME NEW qi \in 0 .. valid_q - 1
      PROVE  rows'[qi] = SequentialRow(call, q_start + qi)[k_start + valid_k]
  <2>1. qi < batch_base
    BY <1>4, KernelShape
  <2>2. KeysTaken(qi) = valid_k
    BY <2>1 DEF KeysTaken
  <2> QED
    BY <1>1, <2>2 DEF LoopInv, KVTileInv
<1>6. QTileInv'
  BY <1>1, <1>3 DEF LoopInv, OnTile, QTileInv
<1>7. StoredTo(q_start)'
  BY <1>1, <1>3 DEF LoopInv, OnTile, StoredTo
<1>8. CASE k_start' < call.seq_len
  <2>1. /\ kv_tile' = [kv_tile EXCEPT ![OtherBank] = LoadedKV(k_start')]
        /\ active_ping' = ~active_ping /\ kpc' = "kv_tile"
    BY <1>1, <1>8 DEF NextKVTile
  <2>2. ActiveBank' = OtherBank /\ OtherBank \in Banks
    BY <2>1 DEF ActiveBank, OtherBank, Banks
  <2>3. LoadedKV(k_start)' = LoadedKV(k_start')
    BY <1>1, <1>3 DEF LoadedKV, ValidK
  <2>4. valid_k = TileK
    BY <1>1, <1>4, <1>8, <1>2, KernelShape
  <2>5. \A qi \in 0 .. valid_q - 1 : KeysTaken(qi)' = 0
    <3>1. batch_base' = 0
      BY <1>1, KernelShape DEF batch_base
    <3> QED
      BY <1>4, <2>1, <3>1 DEF KeysTaken
  <2>6. k_start' \in Nat /\ 0 \in 0 .. QPairBatchCount /\ k_start' + 0 = k_start + valid_k
    BY <1>1, <1>4, <2>4, KernelShape
  <2>7. KVTileInv'
    BY <1>1, <1>2, <1>3, <1>5, <1>8, <2>1, <2>2, <2>3, <2>5, <2>6 DEF KVTileInv
  <2> QED
    BY <1>1, <1>2, <1>6, <1>7, <2>1, <2>7 DEF LoopInv, OnTile
<1>9. CASE ~(k_start' < call.seq_len)
  <2>1. kpc' = "store" /\ kv_tile' = kv_tile
    BY <1>9 DEF NextKVTile
  <2>2. k_start + valid_k = call.seq_len
    BY <1>1, <1>2, <1>4, <1>9, KernelShape
  <2> QED
    BY <1>1, <1>2, <1>3, <1>5, <1>6, <1>7, <2>1, <2>2 DEF LoopInv, OnTile
<1> QED
  BY <1>8, <1>9

\* Where row i has its elements.
LEMMA ElementOfRow ==
  ASSUME call.stride_bytes \in Nat, NEW i \in Nat, NEW d \in Dims
  PROVE  (i * stride + d) \div stride = i /\ (i * stride + d) % stride = d
<1>1. PICK w \in Nat \ {0} : w = stride /\ HeadDim <= w
  <2>1. call.stride_bytes \div 2 \in Nat
    OBVIOUS
  <2> QED
    BY <2>1, KernelShape DEF stride, StrideElems
<1>2. d \in 0 .. w - 1
  BY <1>1, KernelShape DEF Dims
<1>3. i * w \in Nat
  BY <1>1
<1>4. i * w + d >= i * w /\ i * w + d < (i + 1) * w
  BY <1>2, <1>3
<1>5. (i * w + d) \div w = i /\ (i * w + d) % w = d
  BY <1>2, <1>3, <1>4
<1> QED
  BY <1>1, <1>5

LEMMA QTileStores == LoopInv /\ StoreQTile => LoopInv'
<1> SUFFICES ASSUME LoopInv, StoreQTile PROVE LoopInv'
  OBVIOUS
<1>1. /\ kpc = "store" /\ kpc' = "q_tile" /\ call' = call /\ q_start' = q_start + TileQ
      /\ rows' = rows /\ kv_tile' = kv_tile /\ score_stream' = score_stream /\ score_stream = <<>>
  BY DEF StoreQTile, LoopInv, batchVars
<1>2. call.seq_len \in Nat /\ call.stride_bytes \in Nat /\ q_start \in Nat
  BY <1>1 DEF LoopInv
<1>3. PICK o_tile :
        /\ o_tile = [qi \in 0 .. valid_q - 1 |-> o_normalize_block_row(rows[qi])]
        /\ out' = [e \in DOMAIN out |->
                     IF e \div stride - q_start \in DOMAIN o_tile /\ e % stride \in Dims
                     THEN o_tile[e \div stride - q_start][e % stride] ELSE out[e]]
  BY DEF StoreQTile, Evaluated
<1>4. valid_q \in 1 .. TileQ /\ q_start + valid_q <= call.seq_len
      /\ (valid_q = TileQ \/ q_start + valid_q = call.seq_len)
  BY <1>1, BatchShape DEF OnTile
<1>5. stride' = stride
  BY <1>1 DEF stride
<1>6. ASSUME NEW i \in 0 .. call.seq_len - 1, NEW d \in Dims,
             i < q_start + TileQ, i * stride + d \in DOMAIN out'
      PROVE  out'[i * stride + d] = o_normalize_block_row(SequentialRow(call, i)[call.seq_len])[d]
  <2>1. PICK e : e = i * stride + d
    OBVIOUS
  <2>2. e \in DOMAIN out /\ e \div stride = i /\ e % stride = d
    <3>1. i \in Nat
      BY <1>2
    <3> QED
      BY <1>2, <1>3, <1>6, <2>1, <3>1, ElementOfRow
  <2>3. CASE i < q_start
    <3>1. i - q_start \notin 0 .. valid_q - 1
      BY <1>2, <1>4, <2>3
    <3>2. out'[e] = out[e]
      BY <1>3, <2>2, <3>1
    <3>3. StoredTo(q_start)
      BY <1>1 DEF LoopInv, OnTile
    <3> QED
      BY <2>1, <2>2, <2>3, <3>2, <3>3 DEF StoredTo
  <2>4. CASE ~(i < q_start)
    <3>1. PICK qi : qi = i - q_start
      OBVIOUS
    <3>2. qi \in 0 .. valid_q - 1 /\ q_start + qi = i
      BY <1>2, <1>4, <1>6, <2>4, <3>1
    <3>3. out'[e] = o_normalize_block_row(rows[qi])[d]
      BY <1>3, <2>2, <3>1, <3>2
    <3>4. rows[qi] = SequentialRow(call, i)[call.seq_len]
      BY <1>1, <3>2 DEF LoopInv
    <3> QED
      BY <2>1, <3>3, <3>4
  <2> QED
    BY <2>3, <2>4
<1>7. StoredTo(q_start)'
  BY <1>1, <1>5, <1>6 DEF StoredTo
<1>8. q_start' \in Nat
  BY <1>1, <1>2, KernelShape
<1> QED
  BY <1>1, <1>2, <1>7, <1>8 DEF LoopInv, OnTile

LEMMA KernelFinishes == LoopInv /\ FinishKernel => LoopInv'
<1> SUFFICES ASSUME LoopInv, FinishKernel PROVE LoopInv'
  OBVIOUS
<1>1. /\ kpc = "q_tile" /\ kpc' = "done" /\ call' = call /\ q_start' = q_start /\ out' = out
      /\ rows' = rows /\ kv_tile' = kv_tile /\ score_stream' = score_stream /\ score_stream = <<>>
      /\ q_start >= call.seq_len
  BY DEF FinishKernel, LoopInv, tileVars, batchVars
<1>2. call.seq_len \in Nat /\ call.stride_bytes \in Nat /\ q_start \in Nat
  BY <1>1 DEF LoopInv
<1>3. stride' = stride
  BY <1>1 DEF stride
<1>4. StoredTo(call.seq_len)'
  BY <1>1, <1>2, <1>3 DEF LoopInv, StoredTo
<1> QED
  BY <1>1, <1>2, <1>4 DEF LoopInv, OnTile

LEMMA KernelReturns ==
  ASSUME LoopInv, ReturnKernel,
         UNCHANGED <<call, dataflow, tileVars, rows, batchVars, out, prof>>
  PROVE  LoopInv'
BY DEF LoopInv, ReturnKernel, OnTile, tileVars, batchVars

LEMMA BatchStarts == LoopInv /\ StartBatch => LoopInv'
<1> SUFFICES ASSUME LoopInv, StartBatch PROVE LoopInv'
  OBVIOUS
<1>1. /\ kpc = "kv_tile" /\ call' = call /\ q_start' = q_start /\ out' = out /\ rows' = rows
      /\ k_start' = k_start /\ q_tile' = q_tile /\ kv_tile' = kv_tile /\ active_ping' = active_ping
      /\ score_stream' = score_stream /\ score_stream = <<>> /\ batch_idx < QPairBatchCount
  BY DEF StartBatch, LoopInv, tileVars
<1>2. call.seq_len \in Nat /\ call.stride_bytes \in Nat /\ q_start \in Nat
  BY <1>1 DEF LoopInv
<1>3. /\ valid_q' = valid_q /\ stride' = stride /\ valid_k' = valid_k /\ ActiveBank' = ActiveBank
      /\ LoadedKV(k_start)' = LoadedKV(k_start)
  BY <1>1 DEF valid_q, stride, valid_k, ValidK, ActiveBank, LoadedKV
<1>4. /\ valid_q \in 1 .. TileQ /\ valid_k \in 1 .. TileK /\ batch_base \in Nat
      /\ batch_idx \in 0 .. QPairBatchCount
      /\ batch_base = batch_idx * QPairBatchRows
      /\ (batch_idx + 1) * QPairBatchRows = batch_base + QPairBatchRows
  BY <1>1, BatchShape, BankShape DEF OnTile
<1>5. QTileInv' /\ StoredTo(q_start)'
  BY <1>1, <1>3 DEF LoopInv, OnTile, QTileInv, StoredTo
<1>6. \A qi \in 0 .. valid_q - 1 : rows[qi] = SequentialRow(call, q_start + qi)[k_start + KeysTaken(qi)]
  BY <1>1 DEF LoopInv, KVTileInv
<1>7. CASE batch_base >= valid_q
  <2>1. kpc' = "kv_tile" /\ batch_idx' = batch_idx + 1
    BY <1>1, <1>7 DEF StartBatch
  <2>2. batch_base' = batch_base + QPairBatchRows
    BY <1>4, <2>1 DEF batch_base
  <2>3. ASSUME NEW qi \in 0 .. valid_q - 1 PROVE KeysTaken(qi)' = KeysTaken(qi)
    <3>1. qi < batch_base /\ qi < batch_base'
      BY <1>4, <1>7, <2>2, KernelShape
    <3> QED
      BY <1>3, <3>1 DEF KeysTaken
  <2>4. batch_idx' \in 0 .. QPairBatchCount
    BY <1>1, <1>4, <2>1, KernelShape
  <2>5. KVTileInv'
    BY <1>1, <1>3, <1>6, <2>3, <2>4 DEF LoopInv, KVTileInv
  <2> QED
    BY <1>1, <1>2, <1>5, <2>1, <2>5 DEF LoopInv, OnTile
<1>8. CASE ~(batch_base >= valid_q)
  <2>1. kpc' = "batch" /\ gen' = NoPacket /\ popped' = 0 /\ batch_idx' = batch_idx
    BY <1>8 DEF StartBatch
  <2>2. batch_base' = batch_base /\ batch_base < valid_q
    BY <1>4, <1>8, <2>1 DEF batch_base
  <2>3. batch_rows' = batch_rows /\ batch_rows \in Nat \ {0}
    BY <1>3, <1>4, <2>2, KernelShape DEF batch_rows, Smaller
  <2>4. PICK B \in Nat \ {0} : B = batch_rows
    BY <2>3
  <2>5. 0 \div B = 0 /\ 0 % B = 0 /\ 0 % 2 = 0 /\ 0 \div 2 = 0
    OBVIOUS
  <2>6. ASSUME NEW qi \in 0 .. valid_q - 1 PROVE KeysTaken(qi)' = KeysTaken(qi)
    <3>1. KeysTaken(qi) = IF qi < batch_base THEN valid_k ELSE 0
      BY <1>1 DEF KeysTaken
    <3>2. KeysTaken(qi)' = IF qi < batch_base THEN valid_k
                           ELSE IF qi < batch_base + B
                           THEN 0 + IF qi - batch_base < 0 THEN 1 ELSE 0
                           ELSE 0
      BY <1>3, <2>1, <2>2, <2>3, <2>4, <2>5 DEF KeysTaken
    <3> QED
      BY <1>4, <3>1, <3>2
  <2>7. KVTileInv'
    BY <1>1, <1>3, <1>4, <1>6, <2>1, <2>6 DEF LoopInv, KVTileInv
  <2>8. StreamInv'
    <3>1. Packets' \in Nat
      <4>1. B * valid_k \in Nat
        BY <1>4
      <4> QED
        BY <1>3, <2>3, <2>4, <4>1 DEF Packets
    <3>2. gen' = PositionOf(0)'
      BY <2>1, <2>3, <2>4, <2>5 DEF NoPacket, PositionOf
    <3>3. score_stream' = <<>> /\ Len(<<>>) = 0 /\ 0 + 0 = 0
      BY <1>1
    <3> QED
      BY <2>1, <3>1, <3>2, <3>3 DEF StreamInv
  <2> QED
    BY <1>1, <1>2, <1>3, <1>5, <2>1, <2>2, <2>7, <2>8 DEF LoopInv, OnTile
<1> QED
  BY <1>7, <1>8

\* What a batch works on stays as it is while its packets come and go.
BatchKept ==
  /\ kpc = "batch" /\ kpc' = "batch" /\ call' = call /\ q_start' = q_start /\ out' = out
  /\ k_start' = k_start /\ q_tile' = q_tile /\ kv_tile' = kv_tile /\ active_ping' = active_ping
  /\ batch_idx' = batch_idx

LEMMA BatchKeeps ==
  ASSUME LoopInv, BatchKept
  PROVE  /\ valid_q' = valid_q /\ stride' = stride /\ valid_k' = valid_k /\ ActiveBank' = ActiveBank
         /\ batch_base' = batch_base /\ batch_rows' = batch_rows /\ Packets' = Packets
         /\ LoadedKV(k_start)' = LoadedKV(k_start)
         /\ \A m : PacketAt(m)' = PacketAt(m) /\ PositionOf(m)' = PositionOf(m)
         /\ QTileInv' /\ StoredTo(q_start)' /\ StoredTo(q_start)
         /\ batch_idx < QPairBatchCount /\ batch_base < valid_q
         /\ call.seq_len \in Nat /\ call.stride_bytes \in Nat /\ q_start \in Nat
         /\ KVTileInv /\ StreamInv /\ QTileInv
<1>1. /\ valid_q' = valid_q /\ stride' = stride /\ valid_k' = valid_k /\ ActiveBank' = ActiveBank
      /\ batch_base' = batch_base /\ LoadedKV(k_start)' = LoadedKV(k_start)
  BY DEF BatchKept, valid_q, stride, valid_k, ValidK, ActiveBank, batch_base, LoadedKV
<1>2. batch_rows' = batch_rows
  BY <1>1 DEF batch_rows
<1>3. Packets' = Packets
  BY <1>1, <1>2 DEF Packets
<1>4. \A m : PacketAt(m)' = PacketAt(m) /\ PositionOf(m)' = PositionOf(m)
  BY <1>1, <1>2 DEF BatchKept, PacketAt, PositionOf
<1>5. QTileInv' /\ StoredTo(q_start)' /\ StoredTo(q_start) /\ QTileInv
  BY <1>1 DEF BatchKept, LoopInv, OnTile, QTileInv, StoredTo
<1> QED
  BY <1>1, <1>2, <1>3, <1>4, <1>5 DEF BatchKept, LoopInv

\* The producer goes on to the next row, and from the last row to the next key.
LEMMA NextPosition ==
  ASSUME LoopInv, kpc = "batch", NEW m \in Nat
  PROVE  NextPacket(PositionOf(m)) = PositionOf(m + 1)
<1>1. PICK B, r, k : B \in Nat \ {0} /\ B = batch_rows /\ r = m % B /\ k = m \div B
  BY RowsShape
<1>2. /\ B \in Nat \ {0} /\ r \in 0 .. B - 1 /\ k \in Nat
      /\ (m + 1) \div B = (IF r + 1 < B THEN k ELSE k + 1)
      /\ (m + 1) % B = (IF r + 1 < B THEN r + 1 ELSE 0)
  BY <1>1, DivMod
<1>3. PICK slot, lane : slot = r \div 2 /\ lane = r % 2
  OBVIOUS
<1>4. slot \in Nat /\ lane \in {0, 1} /\ r = 2 * slot + lane
  BY <1>2, <1>3
<1>5. PositionOf(m) = [kj |-> k, slot |-> slot, lane |-> lane]
  BY <1>1, <1>3 DEF PositionOf
<1>6. PacketRow(PositionOf(m)) = batch_base + r
  <2>1. batch_base \in Nat
    BY BankShape
  <2> QED
    BY <1>4, <1>5, <2>1 DEF PacketRow, RowPar
<1>7. pair_count = (B + 1) \div 2
  BY <1>1 DEF pair_count, RowPar
<1>8. PICK Q, c, b, pairs :
        /\ Q \in Nat /\ c \in Nat /\ b \in Nat
        /\ Q = valid_q /\ c = SoftmaxCtxs /\ b = batch_base /\ pairs = pair_count
  BY BatchShape, BankShape, KernelShape DEF OnTile
<1>9. b + B <= Q /\ B <= 2 * c /\ (B = 2 * c \/ b + B = Q)
  BY <1>1, <1>8, RowsShape, KernelShape
<1>10. pairs \in Nat /\ (B + 1 = 2 * pairs \/ B = 2 * pairs)
  BY <1>2, <1>7, <1>8
<1>11. CASE r + 1 < B
  <2>1. PositionOf(m + 1) = [kj |-> k, slot |-> (r + 1) \div 2, lane |-> (r + 1) % 2]
    BY <1>1, <1>2, <1>11 DEF PositionOf
  <2>2. CASE lane = 0
    <3>1. (r + 1) \div 2 = slot /\ (r + 1) % 2 = 1
      BY <1>4, <2>2
    <3>2. b + r + 1 < Q
      BY <1>2, <1>8, <1>9, <1>11
    <3>3. NextPacket(PositionOf(m)) = [PositionOf(m) EXCEPT !.lane = 1]
      BY <1>5, <1>6, <1>8, <2>2, <3>2 DEF NextPacket
    <3> QED
      BY <1>5, <2>1, <3>1, <3>3
  <2>3. CASE lane = 1
    <3>1. (r + 1) \div 2 = slot + 1 /\ (r + 1) % 2 = 0
      BY <1>4, <2>3
    <3>2. slot + 1 < pairs
      BY <1>2, <1>4, <1>10, <1>11, <2>3
    <3>3. NextPacket(PositionOf(m)) = [PositionOf(m) EXCEPT !.slot = @ + 1, !.lane = 0]
      BY <1>5, <1>6, <1>8, <2>3, <3>2 DEF NextPacket
    <3>4. PICK p : p = PositionOf(m)
      OBVIOUS
    <3>5. [p EXCEPT !.slot = @ + 1, !.lane = 0] = [kj |-> k, slot |-> slot + 1, lane |-> 0]
      <4>1. PICK t : t = [p EXCEPT !.slot = @ + 1]
        OBVIOUS
      <4>2. t = [kj |-> k, slot |-> slot + 1, lane |-> lane]
        BY <1>5, <3>4, <4>1
      <4>3. [p EXCEPT !.slot = @ + 1, !.lane = 0] = [t EXCEPT !.lane = 0]
        BY <4>1
      <4> QED
        BY <4>2, <4>3
    <3>6. NextPacket(PositionOf(m)) = [kj |-> k, slot |-> slot + 1, lane |-> 0]
      BY <3>3, <3>4, <3>5
    <3> QED
      BY <2>1, <3>1, <3>6
  <2> QED
    BY <1>4, <2>2, <2>3
<1>12. CASE ~(r + 1 < B)
  <2>1. PositionOf(m + 1) = [kj |-> k + 1, slot |-> 0, lane |-> 0]
    <3>1. 0 \div 2 = 0 /\ 0 % 2 = 0
      OBVIOUS
    <3> QED
      BY <1>1, <1>2, <1>12, <3>1 DEF PositionOf
  <2>2. r + 1 = B
    BY <1>2, <1>12
  <2>3. ~(lane = 0 /\ b + r + 1 < Q)
    <3>1. CASE b + B = Q
      BY <1>2, <1>8, <2>2, <3>1
    <3>2. CASE B = 2 * c
      BY <1>2, <1>4, <1>8, <2>2, <3>2
    <3> QED
      BY <1>9, <3>1, <3>2
  <2>4. ~(slot + 1 < pairs)
    BY <1>2, <1>4, <1>10, <2>2
  <2>5. NextPacket(PositionOf(m)) = [kj |-> k + 1, slot |-> 0, lane |-> 0]
    BY <1>5, <1>6, <1>8, <2>3, <2>4 DEF NextPacket
  <2> QED
    BY <2>1, <2>5
<1> QED
  BY <1>11, <1>12

LEMMA ScoreGenerated == LoopInv /\ GenerateScore => LoopInv'
<1> SUFFICES ASSUME LoopInv, GenerateScore PROVE LoopInv'
  OBVIOUS
<1>1. /\ BatchKept /\ rows' = rows /\ popped' = popped /\ gen' = NextPacket(gen) /\ gen.kj < valid_k
      /\ score_stream' = Append(score_stream,
           [qi |-> PacketRow(gen), kj |-> gen.kj,
            score |-> ScoreOf(call, dotprod_q8_8(q_tile[PacketRow(gen)], kv_tile[ActiveBank].k[gen.kj]),
                              q_start + PacketRow(gen), k_start + gen.kj)])
  BY DEF GenerateScore, BatchKept, tileVars
<1>2. /\ valid_q' = valid_q /\ valid_k' = valid_k /\ ActiveBank' = ActiveBank
      /\ batch_base' = batch_base /\ batch_rows' = batch_rows /\ Packets' = Packets
      /\ LoadedKV(k_start)' = LoadedKV(k_start)
      /\ \A m : PacketAt(m)' = PacketAt(m) /\ PositionOf(m)' = PositionOf(m)
      /\ QTileInv' /\ StoredTo(q_start)'
      /\ batch_idx < QPairBatchCount /\ batch_base < valid_q
      /\ call.seq_len \in Nat /\ call.stride_bytes \in Nat /\ q_start \in Nat
      /\ KVTileInv /\ StreamInv /\ QTileInv
  BY <1>1, BatchKeeps
<1>3. KVTileInv'
  BY <1>1, <1>2 DEF BatchKept, KVTileInv, KeysTaken
<1>4. PICK S : S = {PacketAt(m) : m \in 0 .. Packets - 1}
  OBVIOUS
<1>5. PICK n, p, g : n = Len(score_stream) /\ p = popped /\ g = p + n
  OBVIOUS
<1>6. score_stream \in Seq(S) /\ p \in Nat /\ n \in Nat /\ g \in Nat /\ gen = PositionOf(g)
  BY <1>2, <1>4, <1>5 DEF StreamInv
<1>7. PICK B, r, k, V : /\ B \in Nat \ {0} /\ B = batch_rows /\ V \in Nat /\ V = valid_k
                        /\ r = g % B /\ k = g \div B
  BY <1>1, BankShape, RowsShape DEF BatchKept
<1>8. k \in Nat /\ k < V /\ r \in 0 .. B - 1 /\ gen.kj = k /\ g < B * V /\ Packets = B * V /\ B * V \in Nat
  <2>1. gen.kj = k
    BY <1>6, <1>7 DEF PositionOf
  <2>2. k \in Nat /\ r \in 0 .. B - 1
    BY <1>6, <1>7, DivMod
  <2>3. g < B * V /\ B * V \in Nat
    <3>1. g \div B < V
      BY <1>1, <1>7, <2>1
    <3> QED
      BY <1>6, <1>7, <3>1, DivBound
  <2> QED
    BY <1>1, <1>7, <2>1, <2>2, <2>3 DEF Packets
<1>9. PICK qi : qi = batch_base + r
  OBVIOUS
<1>10. PacketRow(gen) = qi /\ qi \in 0 .. valid_q - 1
  <2>1. PICK slot, lane : slot = r \div 2 /\ lane = r % 2
    OBVIOUS
  <2>2. gen.slot = slot /\ gen.lane = lane /\ slot \in Nat /\ lane \in {0, 1} /\ r = 2 * slot + lane
    <3>1. gen.slot = slot /\ gen.lane = lane
      BY <1>6, <1>7, <2>1 DEF PositionOf
    <3>2. r \in Nat
      BY <1>7, <1>8
    <3> QED
      BY <2>1, <3>1, <3>2
  <2>3. /\ batch_base \in Nat /\ valid_q \in Nat /\ batch_base + B <= valid_q
    BY <1>1, <1>7, BatchShape, BankShape, RowsShape, KernelShape DEF BatchKept, OnTile
  <2> QED
    BY <1>7, <1>8, <1>9, <2>2, <2>3 DEF PacketRow, RowPar
<1>11. PICK packet : packet = PacketAt(g)
  OBVIOUS
<1>12. score_stream' = Append(score_stream, packet)
  <2>1. q_tile[qi] = Row(call.q, q_start + qi, stride, TRUE)
    BY <1>2, <1>10 DEF QTileInv
  <2>2. kv_tile[ActiveBank].k[k] = Row(call.k, k_start + k, stride, TRUE)
    <3>1. k \in 0 .. TileK - 1 /\ k < ValidK(k_start)
      BY <1>1, <1>7, <1>8, BankShape, KernelShape DEF BatchKept, valid_k
    <3>2. kv_tile[ActiveBank] = LoadedKV(k_start)
      BY <1>2 DEF KVTileInv
    <3> QED
      BY <3>1, <3>2 DEF LoadedKV, Row
  <2>3. PICK j : j = k_start + k + 1 /\ j - 1 = k_start + k
    <3>1. k_start \in Nat
      BY <1>1, BankShape DEF BatchKept
    <3> QED
      BY <1>8, <3>1
  <2>4. packet = [qi |-> qi, kj |-> k, score |-> KeyOf(call, q_start + qi, j).score]
    BY <1>7, <1>9, <1>11, <2>3 DEF PacketAt
  <2>5. KeyOf(call, q_start + qi, j).score
          = ScoreOf(call, dotprod_q8_8(q_tile[qi], kv_tile[ActiveBank].k[k]), q_start + qi, k_start + k)
    BY <2>1, <2>2, <2>3 DEF KeyOf, stride
  <2> QED
    BY <1>1, <1>8, <1>10, <2>4, <2>5
<1>13. StreamInv'
  <2>1. packet \in S
    BY <1>4, <1>6, <1>8, <1>11
  <2>2. score_stream' \in Seq(S) /\ Len(score_stream') = n + 1
    BY <1>5, <1>6, <1>12, <2>1
  <2>3. p + (n + 1) <= Packets
    BY <1>5, <1>6, <1>8
  <2>4. ASSUME NEW x \in 1 .. n + 1 PROVE score_stream'[x] = PacketAt(p + x - 1)
    <3>1. CASE x = n + 1
      <4>1. p + x - 1 = g
        BY <1>5, <1>6, <3>1
      <4>2. score_stream'[x] = packet
        BY <1>5, <1>6, <1>12, <3>1
      <4> QED
        BY <1>11, <4>1, <4>2
    <3>2. CASE x # n + 1
      <4>1. x \in 1 .. n
        BY <1>6, <3>2
      <4>2. score_stream'[x] = score_stream[x]
        BY <1>5, <1>6, <1>12, <4>1
      <4> QED
        BY <1>2, <1>5, <4>1, <4>2 DEF StreamInv
    <3> QED
      BY <3>1, <3>2
  <2>5. gen' = PositionOf(p + (n + 1))
    <3>1. gen' = PositionOf(g + 1)
      BY <1>1, <1>6, NextPosition DEF BatchKept
    <3>2. g + 1 = p + (n + 1)
      BY <1>5, <1>6
    <3> QED
      BY <3>1, <3>2
  <2>6. S = {PacketAt(m)' : m \in 0 .. Packets' - 1}
    BY <1>2, <1>4
  <2> QED
    BY <1>1, <1>2, <1>5, <1>6, <2>2, <2>3, <2>4, <2>5, <2>6 DEF StreamInv
<1>14. DOMAIN rows' = TileRows /\ DOMAIN kv_tile' = Banks
  BY <1>1 DEF LoopInv, BatchKept
<1> QED
  BY <1>1, <1>2, <1>3, <1>13, <1>14 DEF LoopInv, OnTile, BatchKept

LEMMA ScoreConsumed == LoopInv /\ ConsumeScore => LoopInv'
<1> SUFFICES ASSUME LoopInv, ConsumeScore PROVE LoopInv'
  OBVIOUS
<1>0. PICK pkt : pkt = Head(score_stream)
  OBVIOUS
<1>1. /\ BatchKept /\ gen' = gen /\ popped' = popped + 1 /\ popped < batch_rows * valid_k
      /\ score_stream # <<>> /\ score_stream' = Tail(score_stream)
      /\ rows' = [rows EXCEPT ![pkt.qi] =
                    online_softmax_ctx_acc_row_step(rows[pkt.qi], pkt.score, kv_tile[ActiveBank].v[pkt.kj])]
  BY <1>0 DEF ConsumeScore, BatchKept, tileVars
<1>2. /\ valid_q' = valid_q /\ valid_k' = valid_k /\ ActiveBank' = ActiveBank
      /\ batch_base' = batch_base /\ batch_rows' = batch_rows /\ Packets' = Packets
      /\ LoadedKV(k_start)' = LoadedKV(k_start)
      /\ \A m : PacketAt(m)' = PacketAt(m) /\ PositionOf(m)' = PositionOf(m)
      /\ QTileInv' /\ StoredTo(q_start)'
      /\ batch_idx < QPairBatchCount /\ batch_base < valid_q
      /\ call.seq_len \in Nat /\ call.stride_bytes \in Nat /\ q_start \in Nat
      /\ KVTileInv /\ StreamInv /\ QTileInv
  BY <1>1, BatchKeeps
<1>3. PICK S, n, p : S = {PacketAt(m) : m \in 0 .. Packets - 1} /\ n = Len(score_stream) /\ p = popped
  OBVIOUS
<1>4. score_stream \in Seq(S) /\ p \in Nat /\ n \in Nat \ {0}
  BY <1>1, <1>2, <1>3 DEF StreamInv
<1>5. PICK B, r, k, V, b : /\ B \in Nat \ {0} /\ B = batch_rows /\ V \in Nat /\ V = valid_k
                           /\ r = p % B /\ k = p \div B /\ b = batch_base /\ b \in Nat
                           /\ b + B <= valid_q
  BY <1>1, BankShape, RowsShape DEF BatchKept
<1>6. k \in Nat /\ k < V /\ r \in 0 .. B - 1
  BY <1>1, <1>3, <1>4, <1>5, DivMod, DivBound
<1>7. pkt = PacketAt(p)
  <2>1. 1 \in 1 .. n /\ p + 1 - 1 = p
    BY <1>4
  <2>2. pkt = score_stream[1]
    BY <1>0, <1>3, <1>4
  <2> QED
    BY <1>2, <1>3, <2>1, <2>2 DEF StreamInv
<1>8. PICK i, key : i = b + r /\ key = k_start + k
  OBVIOUS
<1>9. i \in 0 .. valid_q - 1 /\ i \in TileRows /\ key \in Nat /\ key + 1 \in 1 .. call.seq_len
  <2>1. /\ valid_q \in 1 .. TileQ /\ k_start \in Nat /\ k_start + V <= call.seq_len
    BY <1>1, <1>5, BatchShape, BankShape DEF BatchKept, OnTile
  <2> QED
    BY <1>2, <1>5, <1>6, <1>8, <2>1, KernelShape DEF TileRows
<1>10. pkt.qi = i /\ pkt.kj = k /\ pkt.score = KeyOf(call, q_start + i, key + 1).score
  BY <1>5, <1>7, <1>8 DEF PacketAt
<1>11. kv_tile[ActiveBank].v[k] = KeyOf(call, q_start + i, key + 1).v
  <2>1. k \in 0 .. TileK - 1 /\ k < ValidK(k_start) /\ (key + 1) - 1 = k_start + k
    <3>1. V \in 1 .. TileK /\ V = ValidK(k_start)
      BY <1>1, <1>5, BankShape DEF BatchKept, valid_k
    <3>2. TileK \in Nat
      BY KernelShape
    <3> QED
      BY <1>6, <1>8, <1>9, <3>1, <3>2
  <2>2. kv_tile[ActiveBank].v[k] = Row(call.v, k_start + k, stride, TRUE)
    BY <1>2, <2>1 DEF KVTileInv, LoadedKV, Row
  <2>3. PICK j : j = key + 1 /\ j - 1 = k_start + k
    BY <2>1
  <2> QED
    BY <2>2, <2>3 DEF KeyOf, stride
<1>12. PICK seq : seq = [qi \in 0 .. valid_q - 1 |-> SequentialRow(call, q_start + qi)]
  OBVIOUS
<1>13. \A qi \in 0 .. valid_q - 1 : rows[qi] = seq[qi][k_start + KeysTaken(qi)]
  BY <1>2, <1>12 DEF KVTileInv
<1>14. rows' = [rows EXCEPT ![i] = WithKey(call, q_start + i, rows[i], key + 1)]
  BY <1>1, <1>10, <1>11 DEF WithKey
<1>15. /\ (p + 1) \div B = (IF r + 1 < B THEN k ELSE k + 1)
       /\ (p + 1) % B = (IF r + 1 < B THEN r + 1 ELSE 0)
  BY <1>4, <1>5, DivMod
<1>16. \A qi \in 0 .. valid_q - 1 :
         KeysTaken(qi) = IF qi < b THEN V
                         ELSE IF qi < b + B THEN k + IF qi - b < r THEN 1 ELSE 0
                         ELSE 0
  BY <1>1, <1>3, <1>5 DEF KeysTaken, BatchKept
<1>17. \A qi \in 0 .. valid_q - 1 :
         KeysTaken(qi)' = IF qi < b THEN V
                          ELSE IF qi < b + B
                          THEN (IF r + 1 < B THEN k ELSE k + 1)
                                 + IF qi - b < (IF r + 1 < B THEN r + 1 ELSE 0) THEN 1 ELSE 0
                          ELSE 0
  BY <1>1, <1>2, <1>3, <1>5, <1>15 DEF KeysTaken, BatchKept
<1>18. KeysTaken(i) = k /\ KeysTaken(i)' = k + 1
  BY <1>5, <1>6, <1>8, <1>9, <1>16, <1>17
<1>19. ASSUME NEW qi \in 0 .. valid_q - 1, qi # i PROVE KeysTaken(qi)' = KeysTaken(qi)
  <2>1. qi \in Nat
    BY <1>9
  <2>2. CASE qi < b \/ ~(qi < b + B)
    BY <1>16, <1>17, <2>2
  <2>3. CASE ~(qi < b) /\ qi < b + B
    <3>1. PICK x : x = qi - b /\ x \in 0 .. B - 1 /\ x # r
      BY <1>5, <1>6, <1>8, <1>19, <2>1, <2>3
    <3>2. KeysTaken(qi) = k + IF x < r THEN 1 ELSE 0
      BY <1>16, <2>3, <3>1
    <3>3. KeysTaken(qi)' = (IF r + 1 < B THEN k ELSE k + 1)
                              + IF x < (IF r + 1 < B THEN r + 1 ELSE 0) THEN 1 ELSE 0
      BY <1>17, <2>3, <3>1
    <3> QED
      BY <1>5, <1>6, <3>1, <3>2, <3>3
  <2> QED
    BY <2>2, <2>3
<1>20. ASSUME NEW qi \in 0 .. valid_q - 1
       PROVE  rows'[qi] = SequentialRow(call, q_start + qi)[k_start + KeysTaken(qi)']
  <2>1. CASE qi # i
    BY <1>12, <1>13, <1>14, <1>19, <2>1
  <2>2. CASE qi = i
    <3>1. DOMAIN rows = TileRows
      BY DEF LoopInv
    <3>2. rows'[i] = WithKey(call, q_start + i, rows[i], key + 1)
      BY <1>9, <1>14, <3>1
    <3>3. LoopsTo(call, q_start + i, SequentialRow(call, q_start + i), call.seq_len)
      BY <1>2, SequentialLoop
    <3>4. /\ rows[i] = SequentialRow(call, q_start + i)[key]
          /\ k_start + (k + 1) = key + 1 /\ (key + 1) - 1 = key
      <4>1. k_start \in Nat
        BY <1>1, BankShape DEF BatchKept
      <4> QED
        BY <1>6, <1>8, <1>9, <1>12, <1>13, <1>18, <4>1
    <3>5. SequentialRow(call, q_start + i)[key + 1]
            = WithKey(call, q_start + i, SequentialRow(call, q_start + i)[(key + 1) - 1], key + 1)
      BY <1>9, <3>3 DEF LoopsTo
    <3> QED
      BY <1>18, <2>2, <3>2, <3>4, <3>5
  <2> QED
    BY <2>1, <2>2
<1>21. KVTileInv'
  BY <1>1, <1>2, <1>20 DEF BatchKept, KVTileInv
<1>22. StreamInv'
  <2>1. /\ score_stream' \in Seq(S) /\ Len(score_stream') = n - 1
        /\ \A x \in 1 .. n - 1 : score_stream'[x] = score_stream[x + 1]
    BY <1>1, <1>3, <1>4
  <2>2. ASSUME NEW x \in 1 .. n - 1 PROVE score_stream'[x] = PacketAt(p + 1 + x - 1)
    <3>1. x + 1 \in 1 .. n /\ p + (x + 1) - 1 = p + 1 + x - 1
      BY <1>4
    <3> QED
      BY <1>2, <1>3, <2>1, <3>1 DEF StreamInv
  <2>3. p + 1 + (n - 1) = p + n /\ p + 1 \in Nat /\ n - 1 \in Nat
    BY <1>4
  <2>4. S = {PacketAt(m)' : m \in 0 .. Packets' - 1}
    BY <1>2, <1>3
  <2> QED
    BY <1>1, <1>2, <1>3, <2>1, <2>2, <2>3, <2>4 DEF StreamInv
<1>23. DOMAIN rows' = TileRows /\ DOMAIN kv_tile' = Banks
  BY <1>1 DEF LoopInv, BatchKept
<1> QED
  BY <1>1, <1>2, <1>21, <1>22, <1>23 DEF LoopInv, OnTile, BatchKept

LEMMA BatchEnds == LoopInv /\ EndBatch => LoopInv'
<1> SUFFICES ASSUME LoopInv, EndBatch PROVE LoopInv'
  OBVIOUS
<1>1. /\ kpc = "batch" /\ kpc' = "kv_tile" /\ call' = call /\ q_start' = q_start /\ out' = out /\ rows' = rows
      /\ k_start' = k_start /\ q_tile' = q_tile /\ kv_tile' = kv_tile /\ active_ping' = active_ping
      /\ score_stream' = score_stream /\ batch_idx' = batch_idx + 1 /\ popped = Packets
  BY DEF EndBatch, tileVars, Packets
<1>2. /\ valid_q' = valid_q /\ stride' = stride /\ valid_k' = valid_k /\ ActiveBank' = ActiveBank
      /\ LoadedKV(k_start)' = LoadedKV(k_start)
  BY <1>1 DEF valid_q, stride, valid_k, ValidK, ActiveBank, LoadedKV
<1>3. QTileInv' /\ StoredTo(q_start)'
  BY <1>1, <1>2 DEF LoopInv, OnTile, QTileInv, StoredTo
<1>4. PICK B, V, b, Q : /\ B \in Nat \ {0} /\ B = batch_rows /\ V \in Nat /\ V = valid_k
                        /\ b = batch_base /\ b \in Nat /\ Q \in Nat /\ Q = valid_q
                        /\ b + B <= Q /\ B <= QPairBatchRows /\ (B = QPairBatchRows \/ b + B = Q)
  BY <1>1, BatchShape, BankShape, RowsShape DEF OnTile
<1>5. popped = B * V /\ B * V \in Nat /\ popped \div B = V /\ popped % B = 0
  BY <1>1, <1>4, DivBound DEF Packets
<1>6. score_stream = <<>>
  <2>1. Len(score_stream) = 0 /\ score_stream \in Seq({PacketAt(m) : m \in 0 .. Packets - 1})
    <3>1. /\ score_stream \in Seq({PacketAt(m) : m \in 0 .. Packets - 1})
          /\ popped + Len(score_stream) <= popped
      BY <1>1 DEF LoopInv, StreamInv
    <3> QED
      BY <1>5, <3>1
  <2> QED
    BY <2>1
<1>7. batch_base' = b + QPairBatchRows /\ batch_idx' \in 0 .. QPairBatchCount
  <2>1. batch_base' = (batch_idx + 1) * QPairBatchRows
    BY <1>1 DEF batch_base
  <2>2. batch_idx \in 0 .. QPairBatchCount /\ batch_idx < QPairBatchCount
    BY <1>1, BankShape DEF LoopInv
  <2> QED
    BY <1>1, <1>4, <2>1, <2>2, BankShape, KernelShape
<1>8. ASSUME NEW qi \in 0 .. valid_q - 1 PROVE KeysTaken(qi)' = KeysTaken(qi)
  <2>1. KeysTaken(qi)' = IF qi < b + QPairBatchRows THEN V ELSE 0
    BY <1>1, <1>2, <1>4, <1>7 DEF KeysTaken
  <2>2. KeysTaken(qi) = IF qi < b THEN V
                        ELSE IF qi < b + B THEN V + IF qi - b < 0 THEN 1 ELSE 0
                        ELSE 0
    BY <1>1, <1>4, <1>5 DEF KeysTaken
  <2>3. qi \in Nat /\ qi < Q /\ QPairBatchRows \in Nat
    BY <1>4, KernelShape
  <2> QED
    BY <1>4, <2>1, <2>2, <2>3
<1>9. KVTileInv'
  <2>1. \A qi \in 0 .. valid_q - 1 : rows[qi] = SequentialRow(call, q_start + qi)[k_start + KeysTaken(qi)]
    BY <1>1 DEF LoopInv, KVTileInv
  <2> QED
    BY <1>1, <1>2, <1>7, <1>8, <2>1 DEF LoopInv, KVTileInv
<1> QED
  BY <1>1, <1>3, <1>6, <1>9 DEF LoopInv, OnTile

LEMMA KernelStepsInOrder == LoopInv /\ KernelStep => LoopInv'
BY QTileLoads, KVTileEnds, QTileStores, KernelFinishes, BatchStarts, ScoreGenerated, ScoreConsumed, BatchEnds
   DEF KernelStep

LEMMA InitLoopInv == KernelInit => LoopInv
<1> SUFFICES ASSUME KernelInit PROVE LoopInv
  OBVIOUS
<1>1. kpc = "idle" /\ DOMAIN rows = TileRows /\ DOMAIN kv_tile = Banks /\ score_stream = <<>>
  BY DEF KernelInit
<1> QED
  BY <1>1 DEF LoopInv, OnTile

\* A call of the runtime or of the runner.
LEMMA CallStarts ==
  ASSUME LoopInv, NEW c, NEW o, NEW on_fpga, StartKernel(c, o, on_fpga), c.null = FALSE,
         {"seq_len", "stride_bytes"} \subseteq DOMAIN c,
         c.seq_len \in 1 .. MaxSeqLen, c.stride_bytes \in Nat
  PROVE  LoopInv'
<1>1. PICK m : m = Clamped(c.seq_len)
  OBVIOUS
<1>2. m \in Nat
  BY <1>1, HlsShape DEF Clamped
<1>3. call' = [c EXCEPT !.seq_len = m]
  BY <1>1 DEF StartKernel
<1>4. call'.seq_len = m /\ call'.stride_bytes = c.stride_bytes
  BY <1>3
<1> QED
  BY <1>2, <1>4, LoopStarts

LEMMA RuntimeCalls ==
  ASSUME IInv, RunInv, LoopInv, RunSoftwareHls \/ LaunchXrt
  PROVE  LoopInv'
<1>1. rpc # "idle" /\ drain_idx <= Len(queue)
  BY DEF RunSoftwareHls, LaunchXrt, Draining, IInv, DrainInv
<1>2. PICK t : t = Current
  OBVIOUS
<1>3. t.seq_len \in 1 .. MaxSeqLen /\ t.stride_bytes \in Nat
  BY <1>1, <1>2, CurrentTask, HlsShape
<1>4. CASE RunSoftwareHls
  <2>1. PICK c : c = CallArguments(t)
    OBVIOUS
  <2>2. StartKernel(c, memory[t.o], FALSE)
    BY <1>2, <1>4, <2>1 DEF RunSoftwareHls
  <2>3. /\ c.null = FALSE /\ c.seq_len = t.seq_len /\ c.stride_bytes = t.stride_bytes
        /\ {"seq_len", "stride_bytes"} \subseteq DOMAIN c
    BY <2>1 DEF CallArguments
  <2> QED
    BY <1>3, <2>2, <2>3, CallStarts
<1>5. CASE LaunchXrt
  <2>1. PICK c : c = OnDevice(CallArguments(t))
    OBVIOUS
  <2>2. StartKernel(c, ZeroMatrix(t.seq_len), TRUE)
    BY <1>2, <1>5, <2>1 DEF LaunchXrt
  <2>3. /\ c.null = FALSE /\ c.seq_len = t.seq_len /\ c.stride_bytes = t.stride_bytes
        /\ {"seq_len", "stride_bytes"} \subseteq DOMAIN c
    BY <2>1 DEF OnDevice, CallArguments
  <2> QED
    BY <1>3, <2>2, <2>3, CallStarts
<1> QED
  BY <1>4, <1>5

LEMMA RunnerCalls ==
  ASSUME LoopInv, RunnerStarts
  PROVE  LoopInv'
<1>1. opt.seq_len \in 1 .. MaxSeqLen /\ 2 * HeadDim \in Nat
  BY HlsShape DEF RunnerStarts, parse_args_ok
<1>2. PICK c : c = RunnerCall
  OBVIOUS
<1>3. StartKernel(c, RunnerOutput, TRUE)
  BY <1>2 DEF RunnerStarts
<1>4. /\ c.null = FALSE /\ c.seq_len = opt.seq_len /\ c.stride_bytes = 2 * HeadDim
      /\ {"seq_len", "stride_bytes"} \subseteq DOMAIN c
  BY <1>2 DEF RunnerCall
<1> QED
  BY <1>1, <1>3, <1>4, CallStarts

LEMMA NextLoopInv == IInv /\ RunInv /\ LoopInv /\ [Next]_vars => LoopInv'
<1> SUFFICES ASSUME IInv, RunInv, LoopInv, [Next]_vars PROVE LoopInv'
  OBVIOUS
<1>1. CASE KernelStep
  BY <1>1, KernelStepsInOrder
<1>2. CASE RunSoftwareHls \/ LaunchXrt
  BY <1>2, RuntimeCalls
<1>3. CASE RunnerStarts
  BY <1>3, RunnerCalls
<1>4. CASE ReturnKernel /\ UNCHANGED <<call, dataflow, tileVars, rows, batchVars, out, prof>>
  BY <1>4, KernelReturns
<1>5. CASE UNCHANGED kernelVars
  BY <1>5, LoopUnaffected
<1>6. CASE RuntimeProgram
  <2>1. CASE SoftwareHlsDone \/ XrtDone
    BY <1>4, <2>1 DEF SoftwareHlsDone, XrtDone
  <2>2. CASE XrtThrows
    BY <1>4, <1>5, <2>2 DEF XrtThrows, kernelVars
  <2>3. CASE CallRuntime \/ RunStrict \/ EnsureBuffers \/ DrainReturns
    BY <1>5, <2>3
       DEF CallRuntime, Init_, Drain, Clear, Submit, Rewrite, RunStrict, EnsureBuffers, DrainReturns
  <2> QED
    BY <1>1, <1>2, <1>6, <2>1, <2>2, <2>3 DEF RuntimeProgram, DrainStep
<1>7. CASE RunnerProgram
  <2>1. CASE RunnerFails
    BY <1>4, <1>5, <2>1 DEF RunnerFails, kernelVars
  <2>2. CASE RunnerEnds
    BY <1>4, <2>2 DEF RunnerEnds
  <2> QED
    BY <1>1, <1>3, <1>7, <2>1, <2>2 DEF RunnerProgram, RunnerStep
<1> QED
  BY <1>5, <1>6, <1>7 DEF Next, GemvProgram, ScoreProgram, CoreProgram, Over, vars

LEMMA LoopInvariant == Spec => []LoopInv
<1>1. Init => LoopInv
  BY InitLoopInv DEF Init
<1>2. Init => RunInv
  BY InitRunInv
<1>3. Spec => [](IInv /\ RunInv /\ LoopInv)
  <2>1. Init => IInv /\ RunInv /\ LoopInv
    BY <1>1, <1>2, InitIInv
  <2>2. IInv /\ RunInv /\ LoopInv /\ [Next]_vars => (IInv /\ RunInv /\ LoopInv)'
    BY NextIInv, NextRunInv, NextLoopInv
  <2> QED
    BY <2>1, <2>2, PTL DEF Spec
<1> QED
  BY <1>3, PTL

\* Whatever the lengths, the tiles and banks, the batches of row pairs and the order in which
\* the two processes of a batch take turns: every row of the tiled kernel takes every key
\* once, the first key first, and is stored where it belongs (run_attention_tiled_hls).
THEOREM RowsTakeKeysInOrder == Spec => []KernelIsSequential
<1>1. LoopInv => KernelIsSequential
  <2> SUFFICES ASSUME LoopInv, kpc = "done" PROVE KernelIsSequential
    BY DEF KernelIsSequential
  <2>1. StoredTo(call.seq_len) /\ call.seq_len \in Nat
    BY DEF LoopInv
  <2> QED
    BY <2>1 DEF StoredTo, KernelIsSequential
<1> QED
  BY <1>1, LoopInvariant, PTL
=============================================================================
