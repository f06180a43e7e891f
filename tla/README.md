# A TLA+ model of the FlashAttention IP

The repository builds an attention accelerator: `softmax(Q K^T * scale + mask) V`
computed tile by tile with the online-softmax recurrence, as SystemVerilog RTL
(`rtl/`), as HLS kernels with a host runtime (`fpga/`), with a C reference model
(`cmodel/`), verification benches (`dv/`), llama programs that run a network on it
(`inference/native`) and experiments (`experiments/`).  This directory models three of
these: the RTL's control (what moves which data when, and what happens when the memory,
the pipelines and the host choose their moments) and its pipelines, bit for bit against the
C model; the HLS kernels with the programs that call them, likewise; and the llama programs.

## 1. The system

| part | source | state | operations |
| --- | --- | --- | --- |
| attention core, master FSM | `rtl/core/fa_attention_core.sv` 612-978 | `ms`, tile indices, fill and write counters, Q buffer, two K/V banks, O buffer, registered DMA commands | start, soft reset, load Q/K/V, reset contexts, compute with prefetch, normalise, write O, next tile, done |
| K/V prefetcher | same, 776-845 | `pf_state`, `pf_fill_cnt`, `pref_target_bank` | command and data phases for K and V of the next tile |
| inner compute FSM | same, 448-610 | `cs`, batch base, issue counters, tag pipeline, `batch_done_mask`, `comp_done` | launch, issue and score keys, retire a batch, finish |
| row contexts | same, 137-140 | `row_m`, `row_l`, `row_acc` | written by the compute FSM (567-579) and by `S_INIT_CONTEXT` (702-707) |
| read DMA | `rtl/bus/fa_dma_reader.sv` | `ar_state`, address, length, two beat counters, error | accept a command, send AR, stream R, split into bursts |
| write DMA | `rtl/bus/fa_dma_writer.sv` | `w_state`, address, length, beat counter, error | accept a command, send AW, stream W, take B |
| top level | `rtl/top/fa_attention_ip_top.sv` | wires | connects all of these |
| register file | `rtl/bus/fa_axi_lite_regs.sv` | control, configuration, DONE, two half-open write channels | AXI-Lite reads and writes, start pulse, soft-reset level |
| performance counters | `rtl/top/fa_perf_counters.sv` | 22 counters | count events, cleared by start and soft reset |
| datapath | `fa_qk_dotprod_slice`, `fa_online_softmax_ctx`, `fa_o_normalize_block`, `fa_recip_nr_q16_16`, `fa_exp_pwl_8seg_q1_15`, `fa_mul_sat_q8_8` | pipelines | dot products, online softmax with forwarding, scaling, reciprocal |
| task queue runtime | `fpga/integration/llama/fa_task_queue_runtime.cpp` | a queue of tasks that point to the caller's matrices, four device buffers and their capacity | init, submit, drain, clear; software and XRT modes |
| HLS attention kernel | `fpga/hls/fa_attention_kernel`, `fpga/common/fa_q8_8_attention.cpp` | Q tile, ping and pong K/V banks, row states, score stream, profile words | load, score, consume, normalise, store, next tile |
| HLS matrix-vector kernel | `fpga/hls/fa_gemv_queue_kernel`, `fpga/common/fa_q8_8_linear.cpp` | descriptors of up to 16 tasks, a vector of up to 256 elements, a tile of outputs | read descriptors, copy the vector, compute a tile |
| runner | `fpga/host/xrt_runner/fa_xrt_runner.cpp` | options, three random matrices | parse, run, verify |
| C model | `cmodel/csrc/` | none between calls | one reference output per mode; floating-point sums for the BF16 core |
| llama programs | `inference/native/run.c`, `run_profiled.c`, `runperf.c`, `run_fa.c`, `flash_attn.c` | weights mapped from a file, activations, KV cache, static counters | encode, forward, sample, decode, report; as a program or as a library called again and again |
| benches, experiments, scripts | `dv/`, `experiments/`, `python/`, `scripts/` | | |

How they interact.  Everything in `rtl/` is on one clock.  The core offers commands
to the DMAs through registered `valid` and combinational `ready`; read data passes
through the reader combinationally (`out_valid = rvalid`, `rready = out_ready`),
write data through the writer.  Master FSM and compute FSM run side by side and
speak through one-cycle pulses (`comp_start`, `comp_done`) and through shared
arrays: the operand buffers, the indices and the row contexts, which both assign.
The host starts and resets the core through the register file.

The software side does not use the RTL.  A caller of the runtime submits tasks that name
its matrices; nothing is copied until a task is run, in the call of `submit` that fills
the queue or in `drain`: by the strict kernel, by the HLS kernel compiled for the host, or
on the FPGA through XRT, whose calls may throw.  `fa_xrt_runner` calls the same kernel
once.  The llama programs contain an attention of their own (the loops over the cache, or
the one-pass loop of `flash_attn.c`), are linked with neither, and share among themselves
everything but the attention and the counters.

What is hard about it:

- *two machines and a prefetcher on shared buffers*: which bank is written and which
  is read, and what happens when a pulse arrives at a moment its receiver is not
  ready for;
- *ready sampled a cycle before valid appears*, with the same command offered again
  every cycle until the sample succeeds;
- *burst splitting*: address, length and two counters updated from one another;
- *soft reset* that reaches the master FSM only: neither the compute FSM nor the
  DMAs have it, so work in flight survives into the next run;
- *completion*: what holds when `o_done` rises, and whether a run always gets there;
- *the register protocol*: two write channels that move apart from each other, a DONE
  flag that starts, ends and the host all assign, soft reset as a level, counters
  cleared by pulses the core may ignore;
- *partial failure*: an XRT call that throws in the middle of a drain, of an allocation of
  four buffers, or of a task;
- *the caller's memory*: tasks read their operands when they are run, so what a task
  computes depends on when that is and on what the tasks before it have written;
- *two processes on a FIFO* of limited depth inside the kernel, and two banks of which one
  is loaded while the other is read;
- *bits*: saturation, rounding of negative numbers, a reciprocal by two Newton steps, sums
  in floating point with guard bits;
- *state shared by layers, positions, heads and calls*: two flat caches, activations that
  all heads write at the same time, counters that outlive a call;
- *pipelines without interlocks*: a key reads a state the key before it has not written yet,
  tags and data travel through separate registers, halves of a dot product are told apart
  by the order in which they arrive.

What makes each part correct is listed in section 5.

## 2. Modules

| module | models |
| --- | --- |
| `DmaReader` | the read DMA, one action per arm of its state machine; `ReaderClock` is one clock edge, the Verilog ports are its parameters |
| `DmaWriter` | the write DMA, likewise |
| `ReadChannel` | reader and memory wired together; used by both systems below.  The memory, which is not in the repository, is any slave that answers requests in order, one burst at a time, which is all the reader ever has outstanding |
| `AxiWriteSlave` | the memory behind the writer, likewise |
| `BeatStream` | abstract specification of a read DMA: the beats of a command, in order, once each, the last one flagged; no bursts |
| `DmaReaderSystem` | the reader between an arbitrary client and an arbitrary memory, with the refinement to `BeatStream` |
| `AttentionCore` | master FSM, prefetcher, compute FSM and row contexts; `CoreClock` is one clock edge |
| `AttentionSystem` | core, both DMAs, memory and host: initial state, next-state relation, fairness |
| `AttentionProperties` | what the IP promises, over `AttentionSystem` |
| `RunControl` | abstract specification of the core as the host sees it: idle, some stage of a run, done for one cycle; what the stages do is open |
| `AxiLiteRegs` | the register file, one operator per part of its `always_ff` block |
| `RegisterFile` | abstract specification of it: a queue of writes, done atomically, answered afterwards; no channels, no latches |
| `PerfCounters` | the performance counters: start, soft reset and counting in their priority |
| `ControlPlane` | register file, counters, `RunControl` and a host: a driver that starts, polls, clears or gives up, or any master that pipelines writes |
| `ControlProperties` | what they promise the host |
| `Evaluation` | ways to write an expression that have TLC compute it once |
| `Bytes` | machine words of 32, 64 and more bits, for the places where the code's width matters |
| `FixedPoint` | the kernels' saturation, exponential, reciprocal and rounding |
| `HlsAttention` | scores, online softmax of a row, normalisation, and the strict kernel |
| `TiledKernel` | the HLS attention kernel as a machine: tiles, banks, score stream |
| `CoreDatapath` | the pipelines of the RTL core with the blocks it instantiates; `CoreStep` is one clock edge |
| `TaskQueueRuntime` | the runtime: calls, drain, device buffers, exceptions |
| `XrtRunner` | `fa_xrt_runner` |
| `LinearKernel` | the matrix-vector queue kernel and the strict loops |
| `CModel` | the C model's `online_rtl_like` with its own copies of the helpers |
| `CModelFp32` | the C model's floating-point sum, maximum, product and dot product |
| `TaskQueue` | abstract specification of the runtime: tasks in order, each once, each as a whole, by the C model |
| `HostSystem` | a program that uses one of these, and what they promise |
| `ModelFile` | the checkpoint: what the exporter writes and where the reader points |
| `LlamaMath` | the arithmetic of the llama programs on abstracted floats; the attention of one head over the cache, in both forms |
| `Tokenizer` | encoding by merges, decoding, the chat template |
| `Sampler` | greedy, multinomial and nucleus sampling |
| `Llama` | the four programs and their entries; forward pass with the heads in any order |
| `ReferenceModel` | the same network without a cache, from the tensors the exporter wrote |
| `TextGenerator` | abstract specification of a llama program: a text that grows by permitted tokens and ends |
| `MCControl`, `MCHost`, `MCLlama` | the instances TLC checks; `DmaReaderSystem.cfg` and the `Attention_*.cfg`, for `AttentionProperties`, have their values themselves |
| `FoldLemmas` | what the community modules' sums and folds compute, for use in proofs |
| `ReadChannelProofs`, `DmaReaderProofs`, `AttentionProofs`, `ControlProofs`, `HostSystemProofs`, `KernelProofs`, `LlamaProofs` | the theorems |

`DmaReader` <- `ReadChannel` <- `DmaReaderSystem`, `AttentionSystem`;
`AttentionCore`, `DmaWriter`, `AxiWriteSlave` <- `AttentionSystem` <-
`AttentionProperties` <- `AttentionProofs`;
`AxiLiteRegs`, `PerfCounters`, `RunControl` <- `ControlPlane` <- `ControlProperties` <-
`MCControl`, `ControlProofs`;
`Bytes` <- `FixedPoint` <- `HlsAttention` <- `TiledKernel` <- `TaskQueueRuntime`, `XrtRunner`;
`FixedPoint` <- `CoreDatapath`; these three, `LinearKernel` and `CModelFp32` <- `HostSystem` <- `MCHost`, `HostSystemProofs` <- `KernelProofs`;
`CModel` <- `TaskQueue`, an instance of which is the promise in `HostSystem`;
`LlamaMath` <- `Sampler`; both, `ModelFile` and `Tokenizer` <- `Llama`;
`Llama`, `ReferenceModel` <- `MCLlama`, with an instance of `TextGenerator`;
`MCLlama`, `FoldLemmas` <- `LlamaProofs`; `FoldLemmas` <- `ControlProofs`, `HostSystemProofs`.

The IP is modelled in two halves that meet in `RunControl`.  `AttentionSystem` has the
core in detail and takes start and soft reset from any host; `ControlPlane` has the
register file in detail and `RunControl` in place of the core.  `AttentionSystem`
implements `RunControl` (`ImplementsRunControl`, checked and proved), so what
`ControlPlane` shows of every such core it shows of this one; that a run ends is an
assumption there and a property here (`RunEnds`).

The core itself is modelled twice.  `AttentionCore` has its control with the data reduced to
who contributed to what; `CoreDatapath` has its pipelines, clock by clock and bit for bit,
and no buses: a tile is there when the core turns to it, and prefetches are never late.

### One step of the RTL is one clock edge

All registers of the modelled RTL change on the rising edge of the same clock, so
the system is synchronous: `Clock` conjoins one move of every part, each computing
its primed registers from the unprimed registers of all.  The actions of a part are
the arms of its `case`, and exactly one of them is enabled at every edge (`...Hold`
and `InFlight` are the arms in which nothing happens).  Combinational outputs are
state functions.  The nondeterminism is in the inputs of an edge: the host's `start`
and `softReset`, the memory's side of its handshakes, and whether the pipelines
advance.  Inputs that nothing looks at are held low, which loses no behaviour.

### Correspondence

Names are the code's wherever TLA+ allows it (`pf_state`, `kv_fill_cnt`,
`total_beats_left_r`, ...).  `PROJECT.json` maps every definition to its lines.  What
is abstracted, and how:

- *Data.*  The unit is a bus beat, tagged with the run in which its address was
  accepted and with its address.  A K or V beat stands for the keys in it, a Q beat
  for the rows in it.  Addresses are counted in beats, a tile is contiguous.
- *Row contexts.*  `row_m`, `row_l` and `row_acc` of the `QPAIR_BATCH_ROWS` rows of a
  batch are represented by the set of contributions they were accumulated from and
  the set of those that entered more than once.  A contribution records the operands
  the pipeline read (Q rows, K beat, V beat of the active bank) and the tile indices
  that place them under the causal mask.
- *Pipelines.*  The dot-product and softmax pipelines have a fixed latency in the
  RTL.  In the model a batch consumes its key beats one after the other, each after
  any number of cycles, and retires after any number of cycles.  That covers every
  latency; misalignment inside the pipelines is what `CoreDatapath` is for.
- *`CoreDatapath`.*  A pipeline is a sequence of stages, the youngest first.  A dot product
  is computed where it enters the slice and a normalised element where it enters its block,
  and both travel through as many registers as the RTL has: nothing reads the stages
  between.  The softmax is computed stage by stage, because its stages are forwarded.
  The exponential, the saturating product and the reciprocal of the RTL have the bits of the
  kernels' (`FixedPoint`), and are those operators under the RTL's names; the RTL reads the
  reciprocal as an unsigned number.  Sums of a row stay within 32 bits as long as it has at
  most 256 keys at the extreme of Q8.8, and do not wrap in the model; 256 is the default of
  `SEQ_LEN` (`fa_attention_core.sv:8`), and `CoreOperands` asks for no more.  A tile has a
  multiple of eight rows, so that both rows of a pair are always there, and a row has one
  or two chunks of lanes (`CoreShape`).
- *Normalisation.*  Per batch instead of per row, any number of cycles for the
  reciprocal and for the chunks of the row.  An O row records the context it was
  scaled from and the context whose `row_l` was inverted.
- *Two drivers.*  When the compute FSM retires a batch in the cycle of
  `S_INIT_CONTEXT` both `always_ff` blocks assign the same registers; either value may
  remain (`RowCtxNext`).
- *Reset.*  `rst_n` gives the initial state.  The contents of the buffers, undefined
  after reset, are a marker that no property accepts as an operand.
- *Registers.*  A word is the set of its bits that are 1; the registers that only hold
  what was written to them are one kind (`PLAIN_REGS`).  Writes go through the latches of
  both channels.  The only read modelled is that of STATUS, answered as the flags stand
  when the master takes it, as the code's combinational `rdata` does.
- *Counters.*  One that counts starts and any set of counters of one run; in the instance
  there is one per stage and `busy_cycles`, and `cycle_counter` of the core beside them.
- *Left out*: the other reads, the other `o_perf_*` outputs, `rd_bytes`, `wr_bytes`, the
  values of scale and mask, AXI IDs, sizes and strobes, 32-bit wrap-around of counters.

### One step of the software is one stretch of code no other thread can interrupt

*Kernels and host programs.*  The runtime is called from one thread and every call blocks,
so a step is a call, one task of a drain, or one XRT call, after each of which the caller's
memory can be seen.  In the tiled kernel a step is what one of its two processes does
between two uses of the score stream: on the FPGA the `dataflow` pragma lets them overlap,
in a software build the consumer runs when the producer has returned, and both are
behaviours of the model.  Nothing in the data is abstracted: `FixedPoint`, `HlsAttention`,
`LinearKernel` and `CModel` compute the code's bits, and `CModel` is translated from the C
model's own copies of the helpers, so a difference between the two sources is a difference
between the two modules.  The matrices are two elements wide.  An exception is a disjunct
of the XRT call that throws it; the buffers allocated before it stay, the task is lost with
the rest of the queue, and the call answers false.  `CModelFp32` takes the widths of a float
and of a fixed-point word as parameters, so that TLC can add every pair of floats of a
narrow format and compare with the exact sum.

*Llama programs.*  A process is one of the four programs with an entry (`main` or one of
the two library entries), a model file and the calls that will be made.  A step is the start
of a call, the embedding of a token, a layer up to its attention, the attention of one head,
the rest of the layer, the choice of the next token, a report.  The heads are a step each
because `#pragma omp parallel for` gives them to threads: they are taken in any order, from
buffers they share.  A float is one of 17 numbers with sums and products that wrap around,
exp is a power of two: what is computed from different operands stays apart, rounding is
not modelled.  The exporter's order of tensors and the reader's pointers are both
translated, so that a section in the wrong place would show.  A process whose `main` passes
uninitialised pointers (`run.c:1096`) ends in a crash that no property forbids.
`TextGenerator` knows only that a network has room for so many tokens: a text that outgrows it
is lost (`Lose`), and before that every token must be a permitted one.

*Matrix-vector queue.*  A descriptor has dimensions of 16 bits; the kernel copies the vector into
`x_local[kMaxInDim]` (`fa_q8_8_linear.cpp:23-28`, `114-117`) without looking whether it fits.  A
longer one takes the model to a state of its own, `overrun`, where it stops, because what the
kernel does from there on is undefined.  The kernel adds up the products of a row in
lanes and the strict loop one by one, and so does the model; for vectors of at most 256 elements no
sum leaves the 32 bits it is cast to, and 16 tasks leave the counters of 32 bits as they are.

Bounds: `MAX_RUNS` limits how often the host's start is accepted; without it the run
tags would grow for ever.  Nothing else in the state of `AttentionSystem` is unbounded.
In `ControlPlane`, `MAX_ISSUED` limits the writes of a free master and the starts of a
driver, `MAX_OUTSTANDING` the writes a master leaves unanswered, and `MAX_CYCLES` the
length of a run; the counters grow no further.  In `HostSystem`, `MaxCalls` limits the calls
of the runtime and `MaxThrows` the XRT calls that throw.  The llama programs end by
themselves after `max_steps` tokens or, where that is more than `seq_len`, at the latest at the
position that is not there: from there on the program writes beyond its arrays
(`run_fa.c:379-382`, section 4), and the model stops in a state of its own, `overrun`.

`HOST_RESETS` says when the host may raise soft reset: never; only while neither the
compute machine nor a write burst is active (`"quiet"`); or at any edge (`"any"`).
`FAST_MEMORY` restricts the behaviours to those in which a prefetch has finished
before the tile that hides it has been computed (`PrefetchKeepsUp`).  Both are
assumptions about the environment, and each run says which it makes.

## 3. Runs

| run | instance | checks | result |
| --- | --- | --- | --- |
| `run` | 2 Q tiles of 2 beats and 2 batches, 3 K/V tiles of 3 beats, bursts of 2, one run, no reset, any timing | `TypeOK`, `DoneMeansWritten`, `OperandsStable`, `RunEnds` | hold |
| `fast` | the same, two runs, prefetch keeps up | `AccumulatedOnce` | holds |
| `slow` | the same, one run, any timing | `AccumulatedOnce` | **violated**, finding 1 |
| `quiet` | 1 Q tile, 2 K/V tiles of 2 beats, two runs, soft resets while quiescent, any timing | `OperandsLoaded`, `DoneMeansWritten`, `RunEnds` | hold |
| `reset` | the same with one batch, soft resets at any edge | `CoreReaderAgree`, `CoreWriterAgree`, `WriteBurstAgree`, `ImplementsRunControl` | hold |
| `resetw` | smallest instance, two runs, resets at any edge | `RunEnds` | **violated**, finding 2 |
| `resetc` | one Q tile, one K/V tile of 2 beats, two runs, resets at any edge | `DoneMeansWritten` | **violated**, finding 3 |
| `dmareader` | bursts of 3, commands of 1 to 8 beats at two addresses | `ReaderTypeOK`, `BurstAgree`, `MaximalBursts`, `ImplementsBeatStream`, `CommandCompletes` | hold |
| `control` | two stages, one plain register, 3 writes or starts, 2 outstanding, runs of up to 2 cycles | `ControlTypeOK`, `PollingSeesTheRun`, `CountersCoverRun`, `DriverRunsCounted`, `ImplementsRegisterFile`, `WritesAnswered`, `DriverServed` | hold |
| `controlfree` | the same | `RunCountIsStartWrites` | **violated**, finding 4 |
| `accel` | head dimension 2, tiles of 8 queries and 4 keys, batches of two row pairs, stream depth 2; four tasks of 8 to 16 rows, one of which is refused; queue depth 2 and 0, all modes, 3 calls, 1 throw; runner with 3, 11 and 17 rows; up to 3 descriptors with room for 2, and vectors of up to 5 elements with room for 4; floats with 3 bits of exponent and 3 of fraction; RTL cores with one and two chunks per row, one and two batches, one and two Q tiles, two to four K/V tiles, causal and not | `KernelMatchesModel`, `KernelIsSequential`, `MaskedKeysWeighNothing`, `ReciprocalIsClose`, `BuffersFit`, `TasksAccounted`, `GemvQueueAgrees`, `SumsRoundOnce`, `DatapathMatchesModel`, `BatchesKeptApart`, `TasksRunAsPromised` | hold |
| `llama` | two layers, four heads on two kv heads, 18 positions, 13 tokens; eight processes of one to three calls over the four programs, three entries and three samplers, some asking for fewer than no steps, as many as there are positions, or more | `LlamaTypeOK`, `LogitsAsReference`, `PromptEncoded`, `CountersAddUp`, `GenerationAsPromised` | hold |

Why the bounds are enough.  Three K/V tiles are the fewest with a first tile (loaded),
a middle one (whose swap starts another prefetch, `NextTile`'s second branch) and a
last one (which does not).  Three beats per tile with bursts of two need a full and a
partial burst, so loads cross a burst boundary.  Two Q tiles exercise the reset of the
contexts and the write DMA's second command; two batches the batch loop of the compute
machine and of the normalisation.  Two runs are enough to see anything one run leaves
behind in another.  In `quiet` a second K/V tile keeps the prefetcher in play while a
single Q tile keeps the resets affordable.  The DMA instance has commands below, at and
above one and two bursts.  In `control`, two outstanding writes fill latch and queue of
each channel while a response is pending, which is as far as the channels can drift apart;
three starts allow a run after one that was given up after one that ended; the shortest
and a longer run put DONE before and after the answer to the start.

In `accel`, two tiles of queries and up to four of keys use both banks twice and load the
second bank while the first is read; two batches of two row pairs in a tile and a stream of
two packets have the producer wait for the consumer and the other way round; 3, 11 and 17
rows leave the last tile, batch and pair partly filled or empty.  The tasks include one that
reads what another writes, and a caller that writes a matrix between calls, so the moment
at which a task reads its operands shows in its output; tasks of two sizes make the device
buffers grow, and a throw in the middle of that leaves them of two sizes.  Queue depth 0 is
what the constructor turns into 1.  Three descriptors for a kernel with room for two are one
too many.  Fixed-point numbers have their full width.  Fourteen operands, subnormal and
large among them, take the sums from minus to plus infinity through every exponent.  The
RTL core has the real depth of every pipeline and four contexts; the shortest row of
chunks makes two keys of a context follow each other at the distance forwarding is for, the
longer one at the distance of a state that has been written, and some rows are masked
so that no key has a weight in them.  In
`llama`, two query heads share a kv head and two layers share a cache, which is the least
that tells a wrong index from a right one; the prompts merge pairs and triples, contain a
character without a token and an unmerged blank; both the end token and the limit end a
text; and second calls run with the caches and counters of the first.

Every run but `llama` has deadlock checking on: at every edge some choice of inputs exists,
and a program of `HostSystem` that is over stutters (`Over`).  The processes of `llama` end.
In `FAST_MEMORY` instances the restriction never leaves a state without a step,
because the compute machine can wait.

Every property of a passing run has a mutant in `PROJECT.json`: an altered form of a
mapped definition, kept beside the original, with which TLC finds the property
violated.

### Fairness

`FairSpec` assumes that the clock ticks (`WF(Tick)`), that the memory accepts
addresses, returns and takes beats and responds in the end, and that the pipelines
deliver (they have finite latency in the RTL: `QK_LAT`, `RECIP_LAT`, the softmax and
normalisation stages).  All conditions are weak and on steps in which the host does
nothing; nothing is assumed of the host.  Weak fairness suffices for the memory because
the parts that wait for it keep waiting: no `valid` of the DMAs is withdrawn, and the
core keeps `rd_data_ready` up throughout a load.  `DmaReaderSystem` assumes the same of
its memory and that the client is ready for a waiting beat in the end.

`ControlPlane`'s `FairSpec` assumes that the clock ticks, that the master carries through
what it has begun (each address, each word, each answer and each read), that a driver that
polls polls on, and that a run left alone ends, which `RunEnds` shows of the core.  It is
not assumed that a master begins anything else: a driver need neither start, nor give up,
nor clear DONE.

`Llama` assumes `WF(Next)`: a process goes on until it ends, and OpenMP gives every head to
a thread that runs.  Nothing is assumed of what is sampled.  `HostSystem` has no liveness
property and assumes no fairness.

## 4. Findings

1. **A tile can be accumulated twice** (`slow`).  `comp_done` is high for one cycle.
   If the prefetch is not `PF_DONE` in that cycle, the master neither swaps banks nor
   remembers the pulse, and one cycle later raises `comp_start` again
   (`fa_attention_core.sv:847`) for the tile just finished.  `row_l` and `row_acc` then
   hold its keys twice.  `docs/report/20260305_详细架构与数据流规划.md:36` describes the
   flip as waiting for both conditions, and
   `dv/cocotb/tests/test_fa_attention_ip_top_regs.py:711` expects one launch per tile.
   With the default parameters a tile computes for about two thousand cycles and a
   prefetch takes about one thousand beats, so a memory without stalls hides it.
2. **A soft reset during `S_WRITE_O` blocks the next run** (`resetw`).  The write DMA
   has no soft reset and keeps waiting for the rest of the burst; the next run waits for
   the DMA to be ready before it offers data.
3. **A soft reset during `S_COMPUTE` can corrupt the next run** (`resetc`).  The compute
   FSM goes on, and retires rows of the old run into contexts of the new one.  A tile
   computes far longer than a Q load takes, so the window is wide.

4. **A start can go uncounted** (`controlfree`).
   `docs/20260309_ip_perf_counters_design.md:143` counts every start pulse, and the
   scoreboard (`dv/uvm/env/fa_scoreboard.sv:82`) compares `run_count` with the writes of
   CTRL that have bit 0 set.  A write with START and SOFT_RESET gives a pulse that meets
   the soft-reset branch of the counters (`fa_perf_counters.sv:101`) and is not counted;
   the core does not take it either.  A start written while the core is busy is counted
   although there is no run.

Smaller divergences, without a run:

- `rtl/bus/fa_dma_reader.sv:42` documents `out_last` as the last beat of the burst; it
  flags the last beat of the command, which is what the core needs.
- The counter document (line 43) has `busy_cycles` count the cycles with `core_busy = 1`; it
  counts the eight stages, one cycle less, because `S_DONE` is busy too.
- The same document (lines 144-148) has the counters of a run hold until the next start; a
  soft reset clears them, and a start written while the core is busy clears those of the
  run that is going on.
- *Masking.*  `docs/report_0312/FlashAttention_IP_设计验证与综合报告_0312.md:140` calls
  `neg_large` equivalent to minus infinity.  With the default -2048 of runtime, runner and C
  model (`fa_xrt_runner.cpp:128`) a masked key keeps a weight of 11/32768, which is enough to
  change outputs; with the -8192 of `docs/20260309_cmodel_rtl_equivalence_check.md:217` it has
  none.  `MaskedKeysWeighNothing` is stated for the latter.
- *Runner.*  `--verify` compares the tiled kernel, which takes exponentials as powers of two,
  with the strict kernel, which takes them from another table, and demands equal bits: it
  can report a mismatch of a correct kernel.
- *A row without weight.*  When every score of a row is some 11 or more below the mask value,
  from which the running maximum starts (with the default of -8: below about -19), all its weights
  are 0.  The core then saturates to 32767 (`norm_row_den_zero`,
  `fa_attention_core.sv:883`, `fa_o_normalize_block.sv:71`), and so does the tiled HLS kernel
  (`fpga/common/fa_q8_8_o_normalize_block.cpp:14`); the C model and the strict kernel give 0,
  although `docs/20260309_cmodel_rtl_equivalence_check.md:202` has the strict mode normalise as
  the RTL does.  `DatapathMatchesModel` states both outcomes; for the tiled kernel see
  `WeightInEveryRow` in section 6.
- *More than two chunks.*  With `D` above 64 the core would pair the first chunk of a dot
  product with the second and the third with one of another row
  (`fa_attention_core.sv:537-565`); no parameter check says so.
- *Queue kernel.*  More descriptors than there is room for are dropped without a sign
  (`GemvQueueAgrees` says what is computed for the rest), and a vector of more than 256 elements
  overruns `x_local`, though `in_dim` has 16 bits (`fa_q8_8_linear.cpp:114-117`).
- *C model in floating point.*  The conversions from Q16.16 cut the significand to 24 bits
  before they test for a carry out of it (`attention_math.cpp:317-324`), so a number that
  rounds up to a power of two comes out halved; a shift right by 32 or more gives 1; the product of
  `fp32_mul_q16_bits` is cut to 32 bits before the clamps that follow it.  Several modes of
  `online_rtl_like` disagree with their callers about the scale of the output.
- *Llama programs.*  `run_with_encode_decode` passes on `max_steps` before it is clamped
  (`run_fa.c:1467`), and `eva/python_c_throughput.py:38` passes 10000 where the exporter's
  `seq_len` is 2048: unless the end token comes in time, the program writes positions its cache
  has no room for.  The model reaches that state (`Overruns`); `LlamaTypeOK` says that this is
  the only way there.  Averages per token divide counters of all calls by the tokens of
  the last (`run_fa.c:1239-1245`).  Line ends and characters beyond ASCII in a prompt fall
  back to bytes although the comment at `run_fa.c:755-757` says otherwise.  The buffer for
  merges is sized for two tokens (`run_fa.c:694`) and is filled with three.

## 5. Properties

- `CoreReaderAgree`: once the core has seen the reader ready, exactly one command is on
  its way or being executed, it is for as many beats as the core expects, and both count
  down together.  It is what makes the two end-of-load tests (`last`, and `full`)
  coincide and no beat stay behind.  It holds under soft resets at any time.
- `CoreWriterAgree`: the same for the writer, whose end of burst is the core's last beat.
  It too holds under soft resets at any time: what finding 2 shows is a core that never
  gets as far as being served.
- `WriteBurstAgree`: the writer and the memory count the same beats of a burst, mean the
  same addresses and end it together, whatever becomes of the core.
- `OperandsLoaded`, `OperandsStable`: while a tile is in the pipelines the Q tile and the
  active K/V bank hold precisely the beats the indices name, of this run, and nothing the
  pipelines read changes.
- `DoneMeansWritten`: at `o_done` the memory holds, at the right address of every row, a
  row scaled by its own sum and built from every key of this run with its own value, and
  from nothing else.
- `AccumulatedOnce`: no contribution enters a row twice.
- `RunEnds`: an accepted run ends.
- `BurstAgree`, `MaximalBursts`, `ImplementsBeatStream`, `CommandCompletes`: reader and
  memory agree on the rest of a burst; bursts are as long as AXI allows; the client sees
  the abstract stream; every command completes.
- `ImplementsRunControl`: the core takes a start only when idle, is busy from then to its
  end or a reset, and reports done for one cycle, after a run only.
- `ImplementsRegisterFile`: although address and data of a write travel apart, every write
  takes effect once, in order, with its own data, and is answered after that.
- `WritesAnswered`: master and register file never wait for each other.
- `PollingSeesTheRun`: from the answer to its start on, a driver finds DONE set if and only
  if that run is over.  A start that finds DONE being set by an earlier run, a run that ends
  before the start is answered and a run given up are the cases that could break it.
- `DriverServed`: a driver's start leads to DONE, or to its own soft reset.
- `CountersCoverRun`, `DriverRunsCounted`: the counters a driver reads are those of its run
  from the first cycle on, the stages add up to the whole, and its starts are counted.
- `TasksRunAsPromised`: the runtime implements `TaskQueue`.  Whatever is called in whichever
  order, and wherever an XRT call throws, tasks run in the order in which they were accepted,
  each once, and an output becomes what the C model computes from the operands of that time
  or stays what it was.
- `TasksAccounted`: a task accepted has been run, is waiting, or was given up by `clear` or by
  a call that answered false; a full queue never stays full.
- `BuffersFit`: a kernel is never started on a device buffer smaller than its matrix, also
  after an allocation that failed between two buffers.
- `KernelMatchesModel`: however the two processes of the kernel interleave and however its
  last tiles are filled, its output and its profile are those of the C model; the strict kernel
  computes, for each task drain comes to, what the model does in `RTL_STRICT`.
- `KernelIsSequential`: tiles, the two banks, batches of row pairs and the score stream come to
  a loop over the keys of each row: each key once, in order, with its own score and value, and
  the row stored in its place.  The numbers are not looked into; `KernelMatchesModel` compares
  them.
- `DatapathMatchesModel`: whatever overtakes what in the pipelines of the RTL core, and
  however a row is spread over chunks, tiles, batches and pairs, it writes the C model's bits.
- `BatchesKeptApart`: when a batch is begun or tiles are exchanged nothing of the last batch
  is left in the pipelines, where nothing would tell it from the new one (rows have one chunk or
  two).
- `MaskedKeysWeighNothing`: with a low mask value a causal call computes what passing over
  the masked keys would.
- `ReciprocalIsClose`: normalisation by the approximated reciprocal is off by at most one
  in the last place (for the rows that occur).
- `GemvQueueAgrees`: the matrix-vector queue, in tiles and lanes, computes what the strict queue
  does in one loop per row; a vector that does not fit `x_local` stops it, all tasks before that
  one done and none left out.
- `SumsRoundOnce`: the floating-point sum with three guard bits is the exact sum rounded once,
  for every pair of an accumulator and an operand, and differences from a maximum are not
  positive.
- `LlamaTypeOK`, in its part `PassesFit`: a forward pass has a position in the cache; a process
  comes to a position beyond it only through `run_with_encode_decode`, asked for more than there
  are, and never through `main` or `run_without_encode_decode`, whatever they are asked for.
- `LogitsAsReference`: cache, grouped heads, shared buffers, weights read from a file and one
  pass over the keys give the logits of a network that has none of these.
- `PromptEncoded`: a prompt's tokens spell the chat and cannot be merged further.
- `CountersAddUp`: over all calls, the operations and multiplications counted are those the
  shape of the network implies, whichever thread counted them.
- `GenerationAsPromised`: the programs implement `TextGenerator`: every token is one the
  sampler may choose after the whole text, a text ends with the end token or its limit and
  not otherwise, and every call ends, or comes to a text the network has no position for.

## 6. Proofs

TLAPS checks the following for all values of the constants that satisfy the assumptions
`BurstAssumption`, `AwLenAssumption`, `CoreAssumption`, `EnvironmentAssumption` and
`CommandAssumption` (positive sizes, addresses in `Nat`), and `StageAssumption`,
`RegsAssumption` and `PlaneAssumption` (names of stages, registers and counters do not
collide); and, for the runtime, `TasksAssumption` (no task writes into its own operands),
`MemoryAssumption` (the caller's matrices are arrays of 16-bit numbers), `OptionsAssumption`,
`HlsShape` and `RuntimeBounds`; `RoomAssumption` (the matrices of a task that `validate_task`
accepts have room for its rows, and are written again in their size: the kernels read and write
that far without looking), `RunnerDefaults` and `RunnerAssumption` (the runner's scale and mask
value are 16-bit numbers, and so are the matrices it fills, as far as it fills them); for the
matrix-vector queue,
`GemvAssumption` (the operands of a descriptor are in memory and 16-bit numbers, its
dimensions words of 16 bits, and the output is cleared before the call, as
`test_fa_gemv_queue_kernel.cpp` does; that a vector fits `x_local` is not assumed) and
`LinearShape` (`x_local` has at most 256 elements and the queue at most 16 descriptors); for the pipelines of the RTL core,
`CoreShape` (tiles cover the sequence, a tile has a multiple of eight rows, a row one or two
chunks) and `CoreOperands` (16-bit numbers, at most 256 keys); for the llama programs, `VocabAssumption` and `ChatAssumption` (a vocabulary is
numbers and texts of numbers, the tokens of the chat template among them) and
`ProcessAssumption` (positive sizes of the network, whose heads have `dim` between them, as
the code's `dim / n_heads` takes for granted; at least one call, none of no tokens; calls may ask
for any number of steps).

| theorem | statement |
| --- | --- |
| `AttentionProofs!TypeCorrect` | `Spec => []TypeOK` |
| `AttentionProofs!ReaderAgreement` | `Spec => []CoreReaderAgree` |
| `AttentionProofs!WriteBurstAgreement` | `Spec => []WriteBurstAgree` |
| `AttentionProofs!WriterAgreement` | `Spec => []CoreWriterAgree`, if `BEATS_PER_TILE_Q <= AW_LEN_MOD` |
| `AttentionProofs!RunControlImplemented` | `Spec => ImplementsRunControl` |
| `AttentionProofs!OperandsAreLoaded` | `Spec => []OperandsLoaded`, if `HOST_RESETS # "any"` |
| `AttentionProofs!OperandsAreStable` | `Spec => OperandsStable`, if `HOST_RESETS # "any"` |
| `AttentionProofs!DoneAfterWriting` | `Spec => []DoneMeansWritten`, if `HOST_RESETS # "any"`, `BEATS_PER_TILE_Q <= AW_LEN_MOD`, `OutputReserved` and `UnwrittenIsNoRow` |
| `AttentionProofs!ComputedOnce` | `Spec => []AccumulatedOnce`, if `HOST_RESETS # "any"` and `FAST_MEMORY` |
| `ControlProofs!ControlTyped` | `Spec => []ControlTypeOK` |
| `ControlProofs!PollingTold` | `Spec => []PollingSeesTheRun` |
| `ControlProofs!StartsCounted` | `Spec => []DriverRunsCounted` |
| `ControlProofs!RunCounted` | `Spec => []CountersCoverRun`, if `IsFiniteSet(STAGES)` |
| `ControlProofs!RegisterFileImplemented` | `Spec => ImplementsRegisterFile` |
| `DmaReaderProofs!ReaderTypeCorrect` | `Spec => []ReaderTypeOK` |
| `DmaReaderProofs!BurstAgreement` | `Spec => []BurstAgree` |
| `DmaReaderProofs!BurstsAreMaximal` | `Spec => []MaximalBursts` |
| `DmaReaderProofs!ReaderImplementsBeatStream` | `Spec => ImplementsBeatStream` |
| `HostSystemProofs!TasksAreAccounted` | `Spec => []TasksAccounted` |
| `HostSystemProofs!DeviceBuffersFit` | `Spec => []BuffersFit` |
| `HostSystemProofs!RuntimeKeepsItsPromise` | `Spec /\ []KernelMatchesModel => TasksRunAsPromised` |
| `HostSystemProofs!QueueAgrees` | `Spec => []GemvQueueAgrees` |
| `HostSystemProofs!RowsTakeKeysInOrder` | `Spec => []KernelIsSequential` |
| `HostSystemProofs!BatchesApart` | `Spec => []BatchesKeptApart` |
| `KernelProofs!KernelComputesModel` | `Spec => [](WeightInEveryRow => KernelMatchesModel)` |
| `KernelProofs!TasksComputeModel` | `Spec /\ []WeightInEveryRow => TasksRunAsPromised` |
| `KernelProofs!ScoresGiveWeight` | `Spec => [](ScoresReachMask => WeightInEveryRow)` |
| `KernelProofs!DatapathComputesModel` | `Spec => []DatapathMatchesModel` |
| `LlamaProofs!CallsCounted` | `Spec => []CountersAddUp` |
| `LlamaProofs!PassesHaveRoom` | `Spec => []PassesFit` |

*The read channel.*  `ChannelInv` is the types, `BurstAgree` and `MaximalBursts`.  It is
inductive: `ReadChannelProofs` has one lemma per move of the reader (`AcceptStep`,
`SendStep`, `BeatStep`, `HoldStep`), stated for any client, and both systems use
`ChannelStep`.  Refinement to `BeatStream` follows because the mapped `next` is the
reader's address register between bursts and the memory's within one, and `BurstAgree`
says the two meet.

*The core and the reader.*  `TypeOK` alone is not inductive: that `pf_fill_cnt` and
`kv_fill_cnt` stay within a tile depends on the loads ending where they should, and that
depends on the reader.  `CoreReaderAgree` is not inductive either: when `ready` is seen,
the command already on the port may be one the reader takes at this very edge, so the
invariant must say that whatever is on the port while the core is still asking is the
command it is asking for (`AskedFor`), and that a prefetch never runs beside the loads of
the first K/V tile, so that at most one party reads the bus (`OneReader`).  The invariant is

    IInv == TypeOK /\ ChannelInv /\ run \in Nat /\ OneReader /\ AskedFor /\ CoreReaderAgree

`Handover` covers the edge at which the core sees the reader ready, `Transfer` the edges
of a load after it; `LoadQAgrees`, `LoadKAgrees`, `LoadVAgrees` and `PrefetchAgrees` apply
them to the four loads, and the master machine's other moves have no load open.  The proof
makes no assumption on soft resets: the `"any"` instances are covered.

*The write side.*  `BurstInv` adds to `WriteBurstAgree` that a burst starts at beat 0 and
never passes its length; it is inductive beside `TypeOK` (`BurstStep`), without a word
about the core.  `WriterPortInv` adds to `CoreWriterAgree` that the only commands on the
port are whole tiles, and is inductive beside both (`WriterPortStep`).  The theorem
carries the hypothesis `BEATS_PER_TILE_Q <= AW_LEN_MOD`, because the top level connects the
core's 16-bit length to a port of `AXI_LEN_W` = 8 bits
(`rtl/top/fa_attention_ip_top.sv:290`): the default parameters give exactly 256 beats,
the largest tile for which it holds.

*The data of a run.*  The second half of `AttentionProofs` follows the beats from memory to memory, one
invariant on top of the other, each with a lemma for its step:

- `WorkInv`: the compute machine is at work only in `S_COMPUTE`, its `comp_done` is the end
  of the one tile it was started for, and the prefetcher's bank is the other one.
- `LoadInv`: while a load is open, the next beat the read channel delivers is the one that
  belongs into the next slot (`Points`), and the slots before it are filled with the tile's
  beats of this run (`Filled`).  The lemma `LoadEdge` shows this once, for any buffer and
  address, and serves Q, K, V and both halves of a prefetch.  Until the core has seen the DMA
  ready, nothing is said of the reader but that a command on the port is the right one: it
  may still deliver what a run before a soft reset asked for, and `q_fill_cnt = 0` keeps
  that out of `q_buf`.
- `RowInv`: in `S_COMPUTE` a row holds every key of the tiles before the current one
  (`KeysBefore`), nothing of those after it, and all of the current one once that has been
  computed; the context in the pipeline also holds the keys it has consumed (`KeysOf`).
  This is said of the set of keys accumulated, so a tile computed twice does not break it.
- `NormInv` and `OutInv`: finished rows are in `o_buf`, then in memory at the addresses of
  their tile, for every tile before the current one; `OutAddressInv` says that the burst under
  way is for this tile, and `TilesApart` that the addresses of two beats differ.
- `OnceInv`, with `FAST_MEMORY`: `comp_done` finds the prefetch done, a row not yet computed
  holds nothing of the current tile, and so no key meets a row that has it (`NewKey`).

`OperandsLoaded` and `OperandsStable` follow from the first two, `DoneMeansWritten` from the
first four, `AccumulatedOnce` from `RowInv` and `OnceInv`.  Their hypotheses are what the runs
have: `HOST_RESETS # "any"` because finding 3 shows what a reset in the middle of a tile
does; `FAST_MEMORY` because of finding 1; `BEATS_PER_TILE_Q <= AW_LEN_MOD` as above;
`OutputReserved`, that the host reserved memory for every beat of O; and `UnwrittenIsNoRow`,
that the value which stands for memory not yet written is not a row.  Nothing is assumed of
where Q, K, V and O lie relative to each other: tags name what was read, not what
it overwrote.

*The control plane.*  `ControlTypeOK` is inductive only with `Accounting`: the number of
answers owed stays in `Nat` because every write owed an answer is in exactly one place on
each channel (queue, latch, response).  `PollingSeesTheRun` needs to know, for every state
of the driver, where its one write is and what the core may be doing (`DriverInv`): while a
start is on its way the core is quiet, from the edge at which it takes effect the run is
about to begin or told about truly, and a soft reset takes effect before it is answered.
`IdleStep`, `CarriedStep` and `AnsweringStep` follow a write across the bus, `QuietStep`,
`StartStep` and `TellStep` the core, and `DriverStep` puts them together for each state.

`DriverRunsCounted` needs only that a driver's start pulse never meets a busy core or a soft
reset (`DriverPulse`, from `DriverInv`).  `CountersCoverRun` speaks of a sum over the counters of
the stages, for any finite set of them: one more cycle in one stage is one more in all
(`SumOfChange`), and `StageSumStep` is a case split over what an edge does to the counters.

*Sums and folds.*  `FoldLemmas` proves that the community modules' `MapThenSumSet` adds a
function up (`SumAddsUp`), and that a `FoldLeft` whose steps keep to a set ends in it
(`LeftFoldStays`), each place being one more step (`LeftFoldOnward`).  Both are a `CHOOSE` of a function on subsets, which exists and satisfies its
recursion (`FoldExists`).  The induction is over finite subsets, as a smallest
counterexample (`SmallestSubset`), because the induction theorems of the library cannot be
instantiated.

*The register file.*  `ImplementsRegisterFile` maps `pending`, the writes issued and not
done, to the pairs of what the two channels have not delivered: for each channel its latch,
then its queue (`Undelivered`).  Both are as long as what is owed and not done
(`SameBacklog`, from `Accounting`), so they can be paired (`Zip`).  `ChannelStep` says that
taking in an entry from queue to latch is not seen, and that doing a write takes the oldest
of each; `ZipStep` that pairing commutes with both; so an edge of the bus is one
`RegisterFileStep` (`RegisterFileMove`), however far apart the channels are.

*The task queue runtime.*  `TasksAccounted` is inductive only with what a call leaves behind:
the invariant adds that a call drains to the end of the queue and no further (`DrainInv`),
that between calls there is room for another task (`RoomInv`, which is why a queue of depth
one must drain in every `submit`), and the types.  `BuffersFit` says that during a run the
four buffers hold the matrices; it follows from `CapacityInv`, that the capacity noted is at
most the size of every buffer.  `BuffersStep` shows that for an allocation that throws after any
of the four buffers, because the capacity is noted only after the last.  There is one lemma
per kind of step (`DrainBegins`, `TaskBegins`, `TaskEnds`, `QueueCleared`), and `Unaffected` for
the kernel, the RTL core, the runner, the queue kernel and the sums.

*The order of tasks.*  `RuntimeKeepsItsPromise` is a refinement under a hypothesis,
`KernelMatchesModel` (a kernel that is done has computed what the C model computes from its
arguments; `KernelProofs` proves that), and from it the theorem concludes that the runtime
implements `TaskQueue`.  The waiting
tasks are the queue from `drain_idx` on.  What is to be shown is that a kernel which takes many steps
amounts to one step of `TaskQueue`, and the invariant `RunInv` says why: the arguments are those
of the current task, on the device copies of its rows (`KernelCall`); the caller's memory does not
change until the kernel is done; and of the output only the rows of the call have been written
(`OutputFrame`; `MatrixWritten` carries it through a store).  `RunInv` rests on `IInv` above, which
says that the current task is a valid one: its stride is the row (`StrideIsHeadDim`), its length is not
clamped.  `SoftwareResult` and `XrtResult` then compare the whole output matrix with
the one promised, element by element; for XRT that takes `CopiedMatrix`: the C model does not see
whether it is given the whole operands or copies of the rows of the call.  `TaskExecuted`,
`TasksGivenUp` and `QueueMove` map each step to `Execute`, `GiveUp`, `Accept`, `Answer`,
`Write` or a stutter (`TaskQueue` may accept only tasks `validate_task` lets through); a call
that throws gives up
the tasks that wait, the current one with them, and leaves their outputs alone.

*The matrix-vector queue kernel.*  `GemvInv` says what the output and the counters are at each
step: those of the strict queue over the tasks done, and of the current task as many rows as its
tiles have covered (`TilesDone`), from the vector that was loaded for it.  Two tiles are one of all
their rows (`TilesJoin`), so the last tile, which may be shorter, completes the strict task.  The
strict queue is a `FoldLeft` over the descriptors; `StrictQueue` unfolds it, one task after the
other, through a fold over their places (`StrictFold`).  The kernel adds a row up in lanes and the
strict loop element by element: `DotProductIsSum` takes the lanes together, which are disjoint and
cover the row, and `SameSum` compares.  Where a vector does not fit, `GemvInv` says that the
tasks before it are done (`QueueOverruns`).

*The order of keys in the attention kernel.*  `KernelIsSequential` is about the end of a call.
`LoopInv` says what the kernel is in the middle of it: the tiles hold the rows they stand for
(`QTileInv`), and each row is the sequential row after the keys it has been given (`KVTileInv`),
which are those of the K/V tiles done and of the current tile all, none, or, in the batch
that is running, as many as the packets taken so far say (`KeysTaken`): packet m of a batch
of B rows is for row m mod B and key m div B.  `StreamInv` says that the stream holds those
packets from the next one to be taken to the next one to be generated, in order, whichever
process is ahead.  That the producer's three nested loops, with an odd row, pair or key missing at
the end, count in the same order is `NextPosition`; it rests on `DivMod`.  When a batch ends,
the stream is empty and its rows have all keys (`BatchEnds`, `DivBound`), and the batches
cover the tile (`KernelShape`).  The invariant uses no bound on the stream and nothing of how
the processes are scheduled, so it holds of the FPGA's dataflow and of the software build.  The
sequential row is a recursive function; `LoopExists` and `SequentialLoop` show that it is
defined, without which its equations could not be used.  A call's length comes from a task or
from the runner's options and is in range (`RunInv`, `parse_args_ok`).

*The kernel and the C model.*  `KernelMatchesModel` compares two programs bit by bit.
`RowsTakeKeysInOrder` has brought the kernel to a loop over the keys of each row; what is left
is that this loop is the model's.  `KernelProofs` goes through it from the bottom.  The two
write saturation, casts and the weight of a key in different words (`SameSaturation` to
`SameDecay`).  Words are bytes on both sides (`Word8`), but the kernel counts leading zeros by
shifting until one is left and the model until nothing is, so both are shown to find the highest
bit (`HighestBit`, `ShiftsOut`, `LeadingZeros`).  The kernel corrects the product with its
reciprocal for the bit that 32 bits have no room for, and subtracts from two to the 32nd where the
model negates (`NegationAsDifference`, `SameCorrection`); with the seed (`SameSeed`) and the upper
halves of the products that makes `SameReciprocal`.  `SameNormalization` and `SameRowStep` are a
row's end and one of its steps.  The kernel's dot product adds up lanes, which are themselves
sums, the model's adds up elements (`SameDotProduct`, from `DotProductIsSum`).
`SameKeys` gives both the same keys and scores, masked or not, and `FoldIsLoop` turns the model's
fold over the keys into the loop.  `TiledReference` and `StrictReference` put the rows together.

The kernels read as many elements as the length says, so all of this rests on the operands having
them: `DataInv` says that the caller's matrices keep their size, that the call in progress
has room for its rows (`CallFits`) and that everything in them is a number; every step keeps
it (`NextCallData`, `NextMemoryData`).  The counters are `TallyInv`: in the tile kt of keys after
qt tiles of queries, what has been loaded, scored and stored so far.  The invariant is

    KernelInv == IInv /\ RunInv /\ LoopInv /\ DataInv /\ TallyInv

The hypothesis `WeightInEveryRow` is there because without it the statement is false.  A row
whose scores all lie so far below `neg_large` that every weight rounds to zero has `l = 0`;
`o_normalize_block_row` then saturates with the sign of the accumulator
(`fpga/common/fa_q8_8_o_normalize_block.cpp:14`), the C model goes on and multiplies with the
reciprocal it has for zero.  On the instance that TLC checks the property holds as it stands.  `ScoresGiveWeight` says how
far away the others are from it: one score that reaches `neg_large` is enough, and a masked key has
exactly that score.  Its invariant is `RowWeighs`: the sum is never negative, and once the
maximum has risen it holds a weight of one, because the key that raised it weighs
exactly one (`WeightOfKey`), and a sum is scaled down only when another key raises the maximum
again.

*The pipelines of the RTL core.*  The core issues a batch without a gap, so one number, the
edges since the batch began, tells where everything of it is.  `Timeline(n)` says so: what was
issued in i-th place is, if it is in the pipelines at all, in the stage of age n - i, with the
tags of that place (`Place`); a first half waits for the second for exactly one edge; and the
last pair of rows is marked done only when the last place has come out.  There is one lemma for
each thing that moves at an edge (`IssueStep`, `SliceStep`, `CollectStep`, `SoftmaxStep`).
`BatchesKeptApart` follows because the mask is full at 15 edges after the last issue at the
earliest, when every stage is empty (`LastSlotDone`, `BatchDrains`), and a new batch is at edge 0
(`NothingBefore`).  The number of keys, rows and lanes does not matter, but that a row is at
most two chunks does (`CoreShape`).

*What the pipelines compute.*  `DatapathMatchesModel` asks for the bits.  `CoreRow` is what a
row comes to, key after key; the pipelines have four pairs of rows in hand and work on one key
of each in turn.  `Course(B, n)` says of every register of the batch what it holds n edges after
the batch began: the sums in the slice (`SliceCourse`), the first half that waits and the score it
becomes, the entry in each stage of the softmax (`EntriesAt`), the states of the four pairs
(`KnownStates`) and the rows written back (`RowsAt`).  The hard part is that a key finds the
state after the key before.  That key is four places ahead if a row is one chunk and eight if it is
two, so what came of it is in the third stage or already in the register of its pair, and
`ForwardedState` shows that this is the one taken (the fourth stage, which the RTL forwards as
well, never holds the same pair).  Over batches, tiles and normalisation the invariant is

    DatapathInv == program = "core" => CoreRunInv /\ NormInv

`CoreRunInv` says which keys the rows of the tile have between two edges, whatever the master FSM
and the compute FSM are at; `NormInv` says of the row being normalised that its reciprocal is to
be asked for (`Asking`), awaited (`Awaiting`) or there, with so many chunks on their way and so many
back (`Scaling`), and that the rows before it are stored.  What remains is about numbers.
The model of the RTL goes through the same keys and scores (`SameCoreDot`, `SameCoreKey`,
`SameCoreRow`, `CoreReferenceIs`).  The core reads the reciprocal as an unsigned number and the model as a
signed one.  They differ in sign for a denominator of one and agree for all others
(`UnsignedReciprocal`); a row's sum of weights is never one, and at most 65536 for each of
at most 256 keys (`Weighed`, `RowsWeighed`), so that the 32 bits hold it and `StoredAgrees`
follows.  A row without weight has gathered nothing either, so the model rounds zero to zero
(`ZeroNumerator`) where the core saturates: that is the second outcome of the property.

*The counters of the llama programs.*  `CountersAddUp` speaks of the moments at which nothing
is half done; the invariant `CountInv` says what the counters are in between.  `FlowInv` is where
the process is: the layer, which heads have their scores and which their sums, how far the
positions have come.  `CounterInv` says that the counters are the sums over the positions
finished, those of earlier calls too, plus what the current position has done (`MacsIn`,
`CountsIn`): by the layers entered and left, and by the number of heads in each state, not by
which heads they are, because the threads come to them in any order.  `ReportInv` says
that each report is true of the calls up to its own (`Told`), which the later ones do not change
(`ReportsKept`).  The programs multiply with `dim` and `hidden_dim` and the property with the sizes
of the matrices the exporter wrote; `MatrixFloats` says that these agree.
`PositionTotals` and `AppendedDone` add a position to the sums, `CountsMove` and `MacsMove` a
move within one, and there is one lemma for each action (`QkvCounts` to `ReturnsCount`).

Random choices are counted from the last token of the prompt on, and so the proof has to
know that a prompt has a token, whatever the text.  `PromptTokens` follows `encode` through its
merges to show that: what is merged is again a sequence of tokens (`MergedTokens`), and the
template's own tokens stay in front.  That no merge is left to do, and that the tokens spell
the text, is not needed and stays with TLC.

*Room for the positions.*  `PassesFit` needs to know which number of steps a call was given:
`StepsInv` says that `main` and `run_without_encode_decode` have cut it to `seq_len` (`Clamped`,
`run_fa.c:1407`), whatever it was, and that `run_with_encode_decode` has passed it on.

Not proved, only model-checked:

- `MaskedKeysWeighNothing`, `ReciprocalIsClose` and `SumsRoundOnce` are about the numbers: that
  the weight of a masked key rounds to nothing for this mask value, that two Newton steps on a
  table of 32 seeds come close enough, that a sum of floats is the rounded one.  The first holds
  of some values of the constants and not of others; the other two are facts about the
  numbers in a table or about the positions of bits, which the prover would have to go through.
- `LlamaTypeOK` but for `PassesFit`, `LogitsAsReference`, `PromptEncoded` and `GenerationAsPromised` are about folds
  over tensors, texts and candidates.
- The liveness properties `RunEnds`, `CommandCompletes`, `WritesAnswered` and `DriverServed`:
  the prover handles neither fairness nor `ENABLED`.

## 7. Not modelled

See `PROJECT.json` for every component with its reason.  In short: the superseded blocks in `rtl/core/` are instantiated by nothing; the Python API
talks to registers that are modelled and adds no state; the experiments are variants of the
same core under evaluation; benches and scripts are read for what they expect and not
modelled.  Of the C model, the modes no kernel implements and the exponential and reciprocal
in floating point are left out; of the llama programs, `trace.log`, times and throughput.

## 8. Plan

The first five are done, in the order of importance; the rest is left.

1. Core, DMAs, memory and host; types, agreement with both DMAs, refinement of the reader.
2. Register file, performance counters and driver; the core as `RunControl`.
3. The task queue runtime, the HLS kernels and the runner against the C model, with the
   fixed-point arithmetic they share; the accounting of tasks and buffers, proved.
4. The llama programs against a network without a cache.
5. The RTL core's pipelines, clock by clock, against the C model.
6. `TileSchedule`, an abstract specification of a run (every Q tile: every K/V tile once,
   then written), and `AttentionSystem` with fast memory as an implementation of it.
7. Proofs: that a run with fast memory implements `TileSchedule`, from `RowInv`, `OutInv` and
   `OnceInv`; the types of the llama programs.
