---------------------------- MODULE ControlProofs ----------------------------
(***************************************************************************)
(* For every set of stages and plain registers, every bound and every      *)
(* timing of the bus: a driver that polls is told the truth about its run. *)
(***************************************************************************)
EXTENDS ControlProperties, FoldLemmas, SequenceTheorems

\* Busy and done follow the state of the master FSM.
CoreInv ==
  /\ o_busy <=> ms # "S_IDLE"
  /\ o_done => ms = "S_IDLE"

\* Every write that is owed an answer is in one place on each channel: with the host,
\* in the latch, or done and in the response.
One(b) == IF b THEN 1 ELSE 0
Accounting ==
  /\ b_due = Len(aw_q) + One(aw_seen) + One(bvalid)
  /\ b_due = Len(w_q) + One(w_seen) + One(bvalid)

\* The read channel carries the host's only read.
ReadInv ==
  /\ rvalid <=> reading = "data"
  /\ reading # "none" => d_state = "POLLING"

\* Where the one write of a driver may be.
BusIdle == aw_q = <<>> /\ ~aw_seen /\ w_q = <<>> /\ ~w_seen /\ ~bvalid
Answering == aw_q = <<>> /\ ~aw_seen /\ w_q = <<>> /\ ~w_seen /\ bvalid
OnItsWay(w) ==
  /\ ~bvalid
  /\ \/ aw_q = <<w.addr>> /\ ~aw_seen
     \/ aw_q = <<>> /\ aw_seen /\ awaddr_latched = w.addr
  /\ \/ w_q = <<w.word>> /\ ~w_seen
     \/ w_q = <<>> /\ w_seen /\ wdata_latched = w.word

\* The core has nothing of the driver's to do or to report.
CoreQuiet == ms = "S_IDLE" /\ ~o_done /\ ~o_start_pulse

\* The run of the start that is being answered: about to begin, or told about truly.
JustStarted == ms = "S_IDLE" /\ ~o_done /\ o_start_pulse /\ ~done_sticky
ToldTruly == ~o_start_pulse /\ (done_sticky <=> ms = "S_IDLE" /\ ~o_done)

DriverInv ==
  CASE d_state \in {"READY", "SEEN"} -> BusIdle /\ CoreQuiet
    [] d_state = "STARTING"  -> \/ OnItsWay(StartWrite) /\ CoreQuiet
                                \/ Answering /\ ~o_soft_reset /\ (JustStarted \/ ToldTruly)
    [] d_state = "POLLING"   -> BusIdle /\ ~o_soft_reset /\ ToldTruly
    [] d_state = "CLEARING"  -> (OnItsWay(ClearWrite) \/ Answering) /\ CoreQuiet
    [] d_state = "RESETTING" -> /\ ~o_start_pulse
                                /\ OnItsWay(ResetWrite) \/ (Answering /\ o_soft_reset)
    [] OTHER -> d_state = "FREE"

ControlInv == ControlTypeOK /\ Accounting /\ CoreInv /\ ReadInv /\ DriverInv

-----------------------------------------------------------------------------
\* One clock edge with the choices that made it.
Move(write, read, awvalid, wvalid, bready, arvalid, rready, next) ==
  /\ write = NoWrite \/ write \in Writes
  /\ read => reading = "none" /\ d_state = "POLLING" /\ write = NoWrite
  /\ awvalid \in BOOLEAN /\ (awvalid => aw_q # <<>> /\ ~aw_seen)
  /\ wvalid \in BOOLEAN /\ (wvalid => w_q # <<>> /\ ~w_seen)
  /\ bready \in BOOLEAN /\ (bready => bvalid)
  /\ arvalid \in BOOLEAN /\ (arvalid => reading = "addr" /\ ~rvalid)
  /\ rready \in BOOLEAN /\ (rready => rvalid)
  /\ read \in BOOLEAN
  /\ next \in STAGES \cup {"S_DONE"}
  /\ Clock(write, read, awvalid, wvalid, bready, arvalid, rready, next)

LEMMA EdgeMove ==
  ASSUME NEW write, write = NoWrite \/ write \in Writes,
         NEW read \in BOOLEAN, read => reading = "none" /\ d_state = "POLLING" /\ write = NoWrite,
         Edge(write, read)
  PROVE  \E awvalid, wvalid, bready, arvalid, rready, next :
           Move(write, read, awvalid, wvalid, bready, arvalid, rready, next)
<1>1. PICK awvalid \in AWValid, wvalid \in WValid, bready \in BReady, arvalid \in ARValid,
           rready \in RReady, next \in NextStages :
        Clock(write, read, awvalid, wvalid, bready, arvalid, rready, next)
  BY DEF Edge
<1>2. Move(write, read, awvalid, wvalid, bready, arvalid, rready, next)
  BY <1>1 DEF Move, AWValid, WValid, BReady, ARValid, RReady, NextStages, Choice, awready,
              wready, arready
<1> QED
  BY <1>2

LEMMA NextMove ==
  ASSUME Next
  PROVE  \E write, read, awvalid, wvalid, bready, arvalid, rready, next :
           Move(write, read, awvalid, wvalid, bready, arvalid, rready, next)
<1>1. CASE Tick
  <2>1. Edge(NoWrite, FALSE)
    BY <1>1 DEF Tick
  <2> QED
    BY <2>1, EdgeMove
<1>2. CASE IssueWrite
  <2>1. PICK w \in Writes : Edge(w, FALSE)
    BY <1>2 DEF IssueWrite
  <2> QED
    BY <2>1, EdgeMove
<1>3. CASE IssueRead
  <2>1. reading = "none" /\ d_state = "POLLING" /\ Edge(NoWrite, TRUE)
    BY <1>3 DEF IssueRead
  <2> QED
    BY <2>1, EdgeMove
<1> QED
  BY <1>1, <1>2, <1>3 DEF Next

\* Everything a host writes is a write of a register, and what is not a write is not.
LEMMA WriteTypes ==
  /\ \A w \in Writes : w \in [addr : Addresses, word : Words] /\ w # NoWrite
  /\ {StartWrite, ResetWrite, ClearWrite} \subseteq [addr : Addresses, word : Words]
  /\ NoWrite \notin [addr : Addresses, word : Words]
<1>1. {StartWrite, ResetWrite, ClearWrite} \subseteq [addr : Addresses, word : Words]
  BY DEF StartWrite, ResetWrite, ClearWrite, Write, Addresses, Words, START, SOFT_RESET, DONE
<1>2. NoWrite \notin [addr : Addresses, word : Words]
  BY RegsAssumption DEF NoWrite, Write, Addresses
<1>3. Writes \subseteq FREE_WRITES \cup {StartWrite, ResetWrite, ClearWrite}
  BY DEF Writes
<1> QED
  BY <1>1, <1>2, <1>3, PlaneAssumption

-----------------------------------------------------------------------------
(* Types, and where the writes are.                                        *)

LEMMA OneType ==
  \A b \in BOOLEAN : One(b) \in Int
BY DEF One

\* A latch is filled by its channel; when both are, they are emptied into the response.
LEMMA Handover ==
  ASSUME NEW seen \in BOOLEAN, NEW other \in BOOLEAN, NEW response \in BOOLEAN,
         NEW valid \in BOOLEAN, NEW ready \in BOOLEAN,
         NEW seenNext \in BOOLEAN, NEW responseNext \in BOOLEAN,
         ready => response,
         responseNext <=> (seen /\ other /\ ~response) \/ (response /\ ~ready),
         valid => ~seen /\ seenNext,
         ~valid => (seenNext <=> seen /\ ~(other /\ ~response))
  PROVE  One(seenNext) + One(responseNext) =
           One(seen) + One(response) + One(valid) - One(ready)
BY DEF One

\* What a channel accepts leaves its queue for its latch; what the host takes is settled.
LEMMA Balance ==
  \A q, seen, response, issue, ready, valid \in Int :
    (q - valid + issue) + (seen + response + valid - ready) = q + seen + response + issue - ready
OBVIOUS

\* A queue loses its head when that is accepted and gains what is issued.
LEMMA QueueStep ==
  ASSUME NEW T, NEW q \in Seq(T), NEW fire \in BOOLEAN, fire => q # <<>>,
         NEW write, NEW entry, write # NoWrite => entry \in T
  PROVE  /\ Queue(q, fire, write, entry) \in Seq(T)
         /\ Len(Queue(q, fire, write, entry)) = Len(q) - One(fire) + One(write # NoWrite)
<1> USE DEF One
<1> DEFINE rest == IF fire THEN Tail(q) ELSE q
<1>1. rest \in Seq(T) /\ Len(rest) = Len(q) - One(fire)
  OBVIOUS
<1>2. Queue(q, fire, write, entry) = IF write = NoWrite THEN rest ELSE Append(rest, entry)
  BY DEF Queue
<1> HIDE DEF rest
<1>3. CASE write = NoWrite
  BY <1>1, <1>2, <1>3
<1>4. CASE write # NoWrite
  <2>1. Append(rest, entry) \in Seq(T) /\ Len(Append(rest, entry)) = Len(rest) + 1
    BY <1>1, <1>4
  <2> QED
    BY <1>1, <1>2, <1>4, <2>1
<1> QED
  BY <1>3, <1>4

LEMMA TypeStep ==
  ASSUME ControlTypeOK, Accounting, CoreInv,
         NEW write, NEW read, NEW awvalid, NEW wvalid, NEW bready, NEW arvalid, NEW rready,
         NEW next, Move(write, read, awvalid, wvalid, bready, arvalid, rready, next)
  PROVE  ControlTypeOK' /\ Accounting'
<1>1. write = NoWrite \/ (write \in [addr : Addresses, word : Words] /\ write # NoWrite)
  BY WriteTypes DEF Move
<1>2. /\ ms' \in STAGES \cup {"S_IDLE", "S_DONE"}
      /\ o_busy' \in BOOLEAN /\ o_done' \in BOOLEAN
  BY StageAssumption DEF Move, Clock, RunControlClock, Abort, Begin, Rest, Work, Complete,
     ControlTypeOK
<1>3. /\ aw_seen' \in BOOLEAN /\ w_seen' \in BOOLEAN /\ bvalid' \in BOOLEAN
      /\ rvalid' \in BOOLEAN /\ done_sticky' \in BOOLEAN /\ o_start_pulse' \in BOOLEAN
  BY DEF Move, Clock, RegsClock, AddressChannel, DataChannel, PerformWrite, WriteResponse,
     ReadResponse, DoneFlag, write_fire, StartsRun, ClearsDone, ControlTypeOK
<1>4. /\ awvalid => Head(aw_q) \in Addresses /\ Len(aw_q) > 0 /\ Tail(aw_q) \in Seq(Addresses)
                    /\ Len(Tail(aw_q)) = Len(aw_q) - 1
      /\ wvalid => Head(w_q) \in Words /\ Len(w_q) > 0 /\ Tail(w_q) \in Seq(Words)
                   /\ Len(Tail(w_q)) = Len(w_q) - 1
  BY DEF Move, ControlTypeOK
<1>5. awaddr_latched' \in Addresses /\ wdata_latched' \in Words
  BY <1>4 DEF Move, Clock, RegsClock, AddressChannel, DataChannel, ControlTypeOK
<1>6. reg' \in [{"CTRL"} \cup PLAIN_REGS -> Words]
  <2>1. wdata_latched \cap {SOFT_RESET, IRQ_EN} \in Words
    BY DEF Words, ControlTypeOK
  <2> QED
    BY <2>1 DEF Move, Clock, RegsClock, PerformWrite, Stored, ControlTypeOK
<1>7. o_run_count' \in Nat /\ perf' \in [COUNTERS -> Nat] /\ cycle_counter' \in Nat
  <2>1. \A c \in COUNTERS : Happening[c] \in Nat
    BY DEF Happening
  <2>2. o_run_count' \in Nat /\ perf' \in [COUNTERS -> Nat]
    BY <2>1 DEF Move, Clock, PerfClock, PerfSoftReset, PerfStart, ClearAll, CountEvents,
       ControlTypeOK
  <2> QED
    BY <2>2 DEF Move, Clock, CycleCounter, ControlTypeOK
<1>8. /\ aw_q' \in Seq(Addresses)
      /\ Len(aw_q') = Len(aw_q) - One(awvalid) + One(write # NoWrite)
  <2>1. aw_q' = Queue(aw_q, awvalid, write, write.addr)
    BY DEF Move, Clock, HostClock
  <2>2. aw_q \in Seq(Addresses) /\ awvalid \in BOOLEAN /\ (awvalid => aw_q # <<>>)
    BY DEF Move, ControlTypeOK
  <2>3. write # NoWrite => write.addr \in Addresses
    BY <1>1
  <2> QED
    BY <2>1, <2>2, <2>3, QueueStep
<1>9. /\ w_q' \in Seq(Words)
      /\ Len(w_q') = Len(w_q) - One(wvalid) + One(write # NoWrite)
  <2>1. w_q' = Queue(w_q, wvalid, write, write.word)
    BY DEF Move, Clock, HostClock
  <2>2. w_q \in Seq(Words) /\ wvalid \in BOOLEAN /\ (wvalid => w_q # <<>>)
    BY DEF Move, ControlTypeOK
  <2>3. write # NoWrite => write.word \in Words
    BY <1>1
  <2> QED
    BY <2>1, <2>2, <2>3, QueueStep
<1>10. Accounting'
  <2>1. b_due' = b_due + One(write # NoWrite) - One(bready)
    BY DEF Move, Clock, HostClock, One
  <2>2. /\ aw_seen \in BOOLEAN /\ w_seen \in BOOLEAN /\ bvalid \in BOOLEAN
        /\ awvalid \in BOOLEAN /\ wvalid \in BOOLEAN /\ bready \in BOOLEAN
        /\ aw_seen' \in BOOLEAN /\ w_seen' \in BOOLEAN /\ bvalid' \in BOOLEAN
    BY <1>3 DEF Move, ControlTypeOK
  <2>3. /\ bready => bvalid
        /\ bvalid' <=> (aw_seen /\ w_seen /\ ~bvalid) \/ (bvalid /\ ~bready)
    BY <2>2 DEF Move, Clock, RegsClock, WriteResponse, write_fire
  <2>4. /\ awvalid => ~aw_seen /\ aw_seen'
        /\ ~awvalid => (aw_seen' <=> aw_seen /\ ~(w_seen /\ ~bvalid))
    BY <2>2 DEF Move, Clock, RegsClock, AddressChannel, awready, write_fire
  <2>5. /\ wvalid => ~w_seen /\ w_seen'
        /\ ~wvalid => (w_seen' <=> w_seen /\ ~(aw_seen /\ ~bvalid))
    BY <2>2 DEF Move, Clock, RegsClock, DataChannel, wready, write_fire
  <2>6. /\ Len(aw_q) \in Int /\ Len(w_q) \in Int
        /\ Len(aw_q') \in Int /\ Len(w_q') \in Int
        /\ (write # NoWrite) \in BOOLEAN
    BY <1>8, <1>9 DEF ControlTypeOK
  <2>7. b_due' = Len(aw_q') + One(aw_seen') + One(bvalid')
    <3>1. b_due = Len(aw_q) + One(aw_seen) + One(bvalid)
      BY DEF Accounting
    <3>2. One(aw_seen') + One(bvalid') =
            One(aw_seen) + One(bvalid) + One(awvalid) - One(bready)
      BY <2>2, <2>3, <2>4, Handover
    <3> QED
      <4>1. /\ One(aw_seen) \in Int /\ One(bvalid) \in Int /\ One(awvalid) \in Int
            /\ One(bready) \in Int /\ One(write # NoWrite) \in Int
            /\ One(aw_seen') \in Int /\ One(bvalid') \in Int
        BY <2>2, <2>6, OneType
      <4>2. b_due' = Len(aw_q) + One(aw_seen) + One(bvalid) + One(write # NoWrite) - One(bready)
        BY <2>1, <3>1
      <4>3. Len(aw_q') + One(aw_seen') + One(bvalid') =
              Len(aw_q') + (One(aw_seen') + One(bvalid'))
        BY <2>6, <4>1
      <4>4. @ = (Len(aw_q) - One(awvalid) + One(write # NoWrite))
                + (One(aw_seen) + One(bvalid) + One(awvalid) - One(bready))
        BY <1>8, <3>2
      <4>5. @ = Len(aw_q) + One(aw_seen) + One(bvalid) + One(write # NoWrite) - One(bready)
        BY <2>6, <4>1, Balance
      <4> QED
        BY <4>2, <4>3, <4>4, <4>5
  <2>8. b_due' = Len(w_q') + One(w_seen') + One(bvalid')
    <3>1. b_due = Len(w_q) + One(w_seen) + One(bvalid)
      BY DEF Accounting
    <3>2. One(w_seen') + One(bvalid') =
            One(w_seen) + One(bvalid) + One(wvalid) - One(bready)
      BY <2>2, <2>3, <2>5, Handover
    <3> QED
      <4>1. /\ One(w_seen) \in Int /\ One(bvalid) \in Int /\ One(wvalid) \in Int
            /\ One(bready) \in Int /\ One(write # NoWrite) \in Int
            /\ One(w_seen') \in Int /\ One(bvalid') \in Int
        BY <2>2, <2>6, OneType
      <4>2. b_due' = Len(w_q) + One(w_seen) + One(bvalid) + One(write # NoWrite) - One(bready)
        BY <2>1, <3>1
      <4>3. Len(w_q') + One(w_seen') + One(bvalid') =
              Len(w_q') + (One(w_seen') + One(bvalid'))
        BY <2>6, <4>1
      <4>4. @ = (Len(w_q) - One(wvalid) + One(write # NoWrite))
                + (One(w_seen) + One(bvalid) + One(wvalid) - One(bready))
        BY <1>9, <3>2
      <4>5. @ = Len(w_q) + One(w_seen) + One(bvalid) + One(write # NoWrite) - One(bready)
        BY <2>6, <4>1, Balance
      <4> QED
        BY <4>2, <4>3, <4>4, <4>5
  <2> QED
    BY <2>7, <2>8 DEF Accounting
<1>11. b_due' \in Nat /\ reading' \in {"none", "addr", "data"}
  <2>1. aw_q' \in Seq(Addresses) /\ aw_seen' \in BOOLEAN /\ bvalid' \in BOOLEAN
    BY <1>3, <1>8
  <2>2. b_due' = Len(aw_q') + One(aw_seen') + One(bvalid')
    BY <1>10 DEF Accounting
  <2>3. Len(aw_q') \in Nat /\ One(aw_seen') \in Nat /\ One(bvalid') \in Nat
    BY <2>1 DEF One
  <2>4. b_due' \in Nat
    BY <2>2, <2>3
  <2> QED
    BY <2>4 DEF Move, Clock, HostClock, ControlTypeOK
<1> QED
  BY <1>2, <1>3, <1>5, <1>6, <1>7, <1>8, <1>9, <1>10, <1>11 DEF ControlTypeOK

LEMMA CoreStep ==
  ASSUME ControlTypeOK, CoreInv,
         NEW write, NEW read, NEW awvalid, NEW wvalid, NEW bready, NEW arvalid, NEW rready,
         NEW next, Move(write, read, awvalid, wvalid, bready, arvalid, rready, next)
  PROVE  CoreInv'
BY StageAssumption DEF CoreInv, ControlTypeOK, Move, Clock, RunControlClock, Abort, Begin, Rest,
   Work, Complete

LEMMA ReadStep ==
  ASSUME ControlTypeOK, ReadInv,
         NEW write, NEW read, NEW awvalid, NEW wvalid, NEW bready, NEW arvalid, NEW rready,
         NEW next, Move(write, read, awvalid, wvalid, bready, arvalid, rready, next)
  PROVE  ReadInv'
BY DEF ReadInv, ControlTypeOK, Move, Clock, HostClock, DriverNext, RegsClock, ReadResponse, arready,
   Writes
-----------------------------------------------------------------------------
(* The driver.                                                             *)

\* What an edge leaves alone when no write takes effect at it.
NothingDone ==
  /\ reg' = reg
  /\ ~o_start_pulse'
  /\ done_sticky' <=> o_done \/ done_sticky

\* The effects of write w.
Done(w) ==
  /\ reg' = Stored(reg, w.addr, w.word)
  /\ o_start_pulse' <=> StartsRun(w.addr, w.word)
  /\ done_sticky' <=> o_done \/ (done_sticky /\ ~ClearsDone(w.addr, w.word))

LEMMA Effects ==
  ASSUME ControlTypeOK,
         NEW write, NEW read, NEW awvalid, NEW wvalid, NEW bready, NEW arvalid, NEW rready,
         NEW next, Move(write, read, awvalid, wvalid, bready, arvalid, rready, next)
  PROVE  /\ ~write_fire => NothingDone
         /\ \A w : write_fire /\ w.addr = awaddr_latched /\ w.word = wdata_latched => Done(w)
<1>1. /\ reg' = IF write_fire THEN Stored(reg, awaddr_latched, wdata_latched) ELSE reg
      /\ o_start_pulse' = (write_fire /\ StartsRun(awaddr_latched, wdata_latched))
      /\ done_sticky' = (o_done \/ (done_sticky /\
                           ~(write_fire /\ ClearsDone(awaddr_latched, wdata_latched))))
  BY DEF Move, Clock, RegsClock, PerformWrite, DoneFlag
<1>2. done_sticky \in BOOLEAN /\ o_done \in BOOLEAN
  BY DEF ControlTypeOK
<1> QED
  BY <1>1, <1>2 DEF NothingDone, Done

\* A bus with nothing on it takes up a write that is issued.
LEMMA IdleStep ==
  ASSUME ControlTypeOK, BusIdle,
         NEW write, NEW read, NEW awvalid, NEW wvalid, NEW bready, NEW arvalid, NEW rready,
         NEW next, Move(write, read, awvalid, wvalid, bready, arvalid, rready, next)
  PROVE  /\ NothingDone
         /\ write = NoWrite => BusIdle'
         /\ write # NoWrite => OnItsWay(write)'
<1>1. ~awvalid /\ ~wvalid /\ ~bready /\ ~write_fire
  BY DEF Move, BusIdle, write_fire
<1>2. NothingDone
  BY <1>1, Effects
<1>3. ~aw_seen' /\ ~w_seen' /\ ~bvalid'
  BY <1>1 DEF Move, Clock, RegsClock, AddressChannel, DataChannel, WriteResponse, BusIdle
<1>4. /\ aw_q' = IF write = NoWrite THEN <<>> ELSE <<write.addr>>
      /\ w_q' = IF write = NoWrite THEN <<>> ELSE <<write.word>>
  BY <1>1 DEF Move, Clock, HostClock, Queue, BusIdle
<1> QED
  BY <1>2, <1>3, <1>4 DEF BusIdle, OnItsWay

\* A write on its way stays so until both of its halves are latched, then is done.
LEMMA CarriedStep ==
  ASSUME ControlTypeOK, NEW w, OnItsWay(w),
         NEW write, NEW read, NEW awvalid, NEW wvalid, NEW bready, NEW arvalid, NEW rready,
         NEW next, Move(write, read, awvalid, wvalid, bready, arvalid, rready, next),
         write = NoWrite
  PROVE  /\ ~bready
         /\ (NothingDone /\ OnItsWay(w)') \/ (Done(w) /\ Answering')
<1>1. ~bready /\ ~bvalid
  BY DEF Move, OnItsWay
<1>2. bvalid' <=> write_fire
  BY <1>1 DEF Move, Clock, RegsClock, WriteResponse, write_fire, ControlTypeOK
<1>3. \/ aw_q' = <<w.addr>> /\ ~aw_seen' /\ ~write_fire
      \/ aw_q' = <<>> /\ aw_seen' /\ awaddr_latched' = w.addr /\ ~write_fire
      \/ aw_q' = <<>> /\ ~aw_seen' /\ awaddr_latched = w.addr /\ write_fire
  <2>1. CASE aw_q = <<w.addr>> /\ ~aw_seen /\ awvalid
    BY <2>1 DEF Move, Clock, RegsClock, AddressChannel, awready, HostClock, Queue, write_fire
  <2>2. CASE aw_q = <<w.addr>> /\ ~aw_seen /\ ~awvalid
    BY <2>2 DEF Move, Clock, RegsClock, AddressChannel, HostClock, Queue, write_fire
  <2>3. CASE aw_q = <<>> /\ aw_seen /\ awaddr_latched = w.addr
    BY <2>3 DEF Move, Clock, RegsClock, AddressChannel, HostClock, Queue, write_fire
  <2> QED
    BY <2>1, <2>2, <2>3 DEF OnItsWay, Move
<1>4. \/ w_q' = <<w.word>> /\ ~w_seen' /\ ~write_fire
      \/ w_q' = <<>> /\ w_seen' /\ wdata_latched' = w.word /\ ~write_fire
      \/ w_q' = <<>> /\ ~w_seen' /\ wdata_latched = w.word /\ write_fire
  <2>1. CASE w_q = <<w.word>> /\ ~w_seen /\ wvalid
    BY <2>1 DEF Move, Clock, RegsClock, DataChannel, wready, HostClock, Queue, write_fire
  <2>2. CASE w_q = <<w.word>> /\ ~w_seen /\ ~wvalid
    BY <2>2 DEF Move, Clock, RegsClock, DataChannel, HostClock, Queue, write_fire
  <2>3. CASE w_q = <<>> /\ w_seen /\ wdata_latched = w.word
    BY <2>3 DEF Move, Clock, RegsClock, DataChannel, HostClock, Queue, write_fire
  <2> QED
    BY <2>1, <2>2, <2>3 DEF OnItsWay, Move
<1>5. CASE write_fire
  <2>1. Done(w)
    BY <1>3, <1>4, <1>5, Effects
  <2> QED
    BY <1>1, <1>2, <1>3, <1>4, <1>5, <2>1 DEF Answering
<1>6. CASE ~write_fire
  <2>1. NothingDone
    BY <1>6, Effects
  <2> QED
    BY <1>1, <1>2, <1>3, <1>4, <1>6, <2>1 DEF OnItsWay
<1> QED
  BY <1>5, <1>6

\* An answer waits for the host to take it.
LEMMA AnsweringStep ==
  ASSUME ControlTypeOK, Answering,
         NEW write, NEW read, NEW awvalid, NEW wvalid, NEW bready, NEW arvalid, NEW rready,
         NEW next, Move(write, read, awvalid, wvalid, bready, arvalid, rready, next),
         write = NoWrite
  PROVE  /\ NothingDone
         /\ bready => BusIdle'
         /\ ~bready => Answering'
<1>1. ~awvalid /\ ~wvalid /\ ~write_fire
  BY DEF Move, Answering, write_fire
<1>2. NothingDone
  BY <1>1, Effects
<1>3. ~aw_seen' /\ ~w_seen' /\ (bvalid' <=> ~bready)
  BY <1>1 DEF Move, Clock, RegsClock, AddressChannel, DataChannel, WriteResponse, Answering
<1>4. aw_q' = <<>> /\ w_q' = <<>>
  BY <1>1 DEF Move, Clock, HostClock, Queue, Answering
<1> QED
  BY <1>2, <1>3, <1>4 DEF BusIdle, Answering

\* An idle core that is not started stays idle, and a soft reset makes it so.
LEMMA QuietStep ==
  ASSUME ControlTypeOK,
         NEW write, NEW read, NEW awvalid, NEW wvalid, NEW bready, NEW arvalid, NEW rready,
         NEW next, Move(write, read, awvalid, wvalid, bready, arvalid, rready, next),
         (ms = "S_IDLE" /\ ~o_start_pulse) \/ o_soft_reset
  PROVE  ms' = "S_IDLE" /\ ~o_done'
BY StageAssumption DEF Move, Clock, RunControlClock, Abort, Begin, Rest, Work, Complete,
   ControlTypeOK

\* A start begins a run of which nothing is told yet.
LEMMA StartStep ==
  ASSUME ControlTypeOK, CoreInv, JustStarted, ~o_soft_reset, NothingDone,
         NEW write, NEW read, NEW awvalid, NEW wvalid, NEW bready, NEW arvalid, NEW rready,
         NEW next, Move(write, read, awvalid, wvalid, bready, arvalid, rready, next)
  PROVE  ToldTruly'
<1>1. ms' = FIRST_STAGE /\ ~o_done'
  BY StageAssumption DEF Move, Clock, RunControlClock, Begin, Rest, Work, Complete, CoreInv,
     JustStarted
<1> QED
  BY <1>1, StageAssumption DEF JustStarted, NothingDone, ToldTruly

\* What is told stays true while the run goes on, ends and is over.
LEMMA TellStep ==
  ASSUME ControlTypeOK, CoreInv, ToldTruly, ~o_soft_reset, NothingDone,
         NEW write, NEW read, NEW awvalid, NEW wvalid, NEW bready, NEW arvalid, NEW rready,
         NEW next, Move(write, read, awvalid, wvalid, bready, arvalid, rready, next)
  PROVE  ToldTruly'
<1>1. CASE ms = "S_IDLE"
  <2>1. ms' = "S_IDLE" /\ ~o_done'
    BY <1>1, QuietStep DEF ToldTruly
  <2> QED
    BY <1>1, <2>1 DEF ToldTruly, NothingDone
<1>2. CASE ms \in STAGES
  <2>1. ms' # "S_IDLE" /\ ~o_done /\ ms # "S_IDLE"
    BY <1>2, StageAssumption DEF Move, Clock, RunControlClock, Begin, Rest, Work, Complete,
       CoreInv
  <2> QED
    BY <2>1 DEF ToldTruly, NothingDone
<1>3. CASE ms = "S_DONE"
  <2>1. o_done' /\ ~o_done
    BY <1>3, StageAssumption DEF Move, Clock, RunControlClock, Begin, Rest, Work, Complete,
       CoreInv
  <2> QED
    BY <1>3, <2>1 DEF ToldTruly, NothingDone
<1> QED
  BY <1>1, <1>2, <1>3 DEF ControlTypeOK

LEMMA DriverStep ==
  ASSUME ControlInv,
         NEW write, NEW read, NEW awvalid, NEW wvalid, NEW bready, NEW arvalid, NEW rready,
         NEW next, Move(write, read, awvalid, wvalid, bready, arvalid, rready, next)
  PROVE  DriverInv'
<1> USE DEF ControlInv
<1>1. d_state' = DriverNext(write, bready, rready /\ DONE \in StatusWord(o_busy))
  BY DEF Move, Clock, HostClock
<1>2. bready \in BOOLEAN
  BY DEF Move
<1>3. CASE d_state = "READY"
  <2>1. BusIdle /\ CoreQuiet
    BY <1>3 DEF DriverInv
  <2>2. ms' = "S_IDLE" /\ ~o_done'
    BY <2>1, QuietStep DEF CoreQuiet
  <2>3. CoreQuiet'
    BY <2>1, <2>2, IdleStep DEF NothingDone, CoreQuiet
  <2>4. CASE write = NoWrite
    <3>1. d_state' = "READY" /\ BusIdle'
      BY <1>1, <1>3, <2>1, <2>4, IdleStep DEF DriverNext
    <3> QED
      BY <2>3, <3>1 DEF DriverInv
  <2>5. CASE write # NoWrite
    <3>1. write = StartWrite
      BY <1>3, <2>5 DEF Move, Writes
    <3>2. d_state' = "STARTING" /\ OnItsWay(StartWrite)'
      BY <1>1, <1>3, <2>1, <2>5, <3>1, IdleStep DEF DriverNext
    <3> QED
      BY <2>3, <3>2 DEF DriverInv
  <2> QED
    BY <2>4, <2>5
<1>4. CASE d_state = "STARTING"
  <2>1. write = NoWrite
    BY <1>4 DEF Move, Writes
  <2>2. CASE OnItsWay(StartWrite) /\ CoreQuiet
    <3>1. d_state' = "STARTING"
      BY <1>1, <1>4, <2>1, <2>2, CarriedStep DEF DriverNext
    <3>2. ms' = "S_IDLE" /\ ~o_done'
      BY <2>2, QuietStep DEF CoreQuiet
    <3>3. CASE NothingDone /\ OnItsWay(StartWrite)'
      BY <3>1, <3>2, <3>3 DEF DriverInv, CoreQuiet, NothingDone
    <3>4. CASE Done(StartWrite) /\ Answering'
      <4>1. o_start_pulse' /\ ~done_sticky'
        BY <2>2, <3>4 DEF Done, CoreQuiet, StartWrite, Write, StartsRun, ClearsDone, START
      <4>2. ~o_soft_reset'
        BY <3>4 DEF Done, StartWrite, Write, Stored, o_soft_reset, START, SOFT_RESET, IRQ_EN,
           ControlTypeOK
      <4> QED
        BY <3>1, <3>2, <3>4, <4>1, <4>2 DEF DriverInv, JustStarted
    <3> QED
      BY <2>1, <2>2, <3>3, <3>4, CarriedStep
  <2>3. CASE Answering /\ ~o_soft_reset /\ (JustStarted \/ ToldTruly)
    <3>1. NothingDone /\ (bready => BusIdle') /\ (~bready => Answering')
      BY <2>1, <2>3, AnsweringStep
    <3>2. ToldTruly' /\ ~o_soft_reset'
      BY <2>3, <3>1, StartStep, TellStep DEF NothingDone, o_soft_reset
    <3>3. d_state' = IF bready THEN "POLLING" ELSE "STARTING"
      BY <1>1, <1>2, <1>4, <2>1 DEF DriverNext
    <3> QED
      BY <1>2, <3>1, <3>2, <3>3 DEF DriverInv
  <2> QED
    BY <1>4, <2>2, <2>3 DEF DriverInv
<1>5. CASE d_state = "POLLING"
  <2>1. BusIdle /\ ~o_soft_reset /\ ToldTruly
    BY <1>5 DEF DriverInv
  <2>2. NothingDone /\ (write = NoWrite => BusIdle') /\ (write # NoWrite => OnItsWay(write)')
    BY <2>1, IdleStep
  <2>3. CASE write # NoWrite
    <3>1. write = ResetWrite
      BY <1>5, <2>3 DEF Move, Writes
    <3>2. d_state' = "RESETTING"
      <4>1. ~rready
        BY <1>5, <2>3 DEF Move, Writes, ReadInv
      <4> QED
        BY <1>1, <1>5, <2>3, <4>1 DEF DriverNext
    <3> QED
      BY <2>2, <2>3, <3>1, <3>2 DEF DriverInv, NothingDone
  <2>4. CASE write = NoWrite /\ rready /\ DONE \in StatusWord(o_busy)
    <3>1. d_state' = "SEEN"
      BY <1>1, <1>5, <2>4 DEF DriverNext
    <3>2. CoreQuiet
      BY <2>1, <2>4 DEF ToldTruly, CoreQuiet, StatusWord, BUSY, DONE
    <3>3. ms' = "S_IDLE" /\ ~o_done'
      BY <3>2, QuietStep DEF CoreQuiet
    <3> QED
      BY <2>2, <2>4, <3>1, <3>3 DEF DriverInv, CoreQuiet, NothingDone
  <2>5. CASE write = NoWrite /\ ~(rready /\ DONE \in StatusWord(o_busy))
    <3>1. d_state' = "POLLING"
      BY <1>1, <1>5, <2>5 DEF DriverNext
    <3>2. ToldTruly' /\ ~o_soft_reset'
      BY <2>1, <2>2, TellStep DEF NothingDone, o_soft_reset
    <3> QED
      BY <2>2, <2>5, <3>1, <3>2 DEF DriverInv
  <2> QED
    BY <2>3, <2>4, <2>5
<1>6. CASE d_state = "SEEN"
  <2>1. BusIdle /\ CoreQuiet
    BY <1>6 DEF DriverInv
  <2>2. ms' = "S_IDLE" /\ ~o_done'
    BY <2>1, QuietStep DEF CoreQuiet
  <2>3. CoreQuiet'
    BY <2>1, <2>2, IdleStep DEF NothingDone, CoreQuiet
  <2>4. CASE write = NoWrite
    <3>1. d_state' = "READY" /\ BusIdle'
      BY <1>1, <1>6, <2>1, <2>4, IdleStep DEF DriverNext
    <3> QED
      BY <2>3, <3>1 DEF DriverInv
  <2>5. CASE write # NoWrite
    <3>1. write = ClearWrite
      BY <1>6, <2>5 DEF Move, Writes
    <3>2. d_state' = "CLEARING" /\ OnItsWay(ClearWrite)'
      BY <1>1, <1>6, <2>1, <2>5, <3>1, IdleStep DEF DriverNext
    <3> QED
      BY <2>3, <3>2 DEF DriverInv
  <2> QED
    BY <2>4, <2>5
<1>7. CASE d_state = "CLEARING"
  <2>1. write = NoWrite /\ (OnItsWay(ClearWrite) \/ Answering) /\ CoreQuiet
    BY <1>7 DEF Move, Writes, DriverInv
  <2>2. ms' = "S_IDLE" /\ ~o_done'
    BY <2>1, QuietStep DEF CoreQuiet
  <2>3. CASE OnItsWay(ClearWrite)
    <3>1. d_state' = "CLEARING"
      BY <1>1, <1>7, <2>1, <2>3, CarriedStep DEF DriverNext
    <3>2. (NothingDone /\ OnItsWay(ClearWrite)') \/ (Done(ClearWrite) /\ Answering')
      BY <2>1, <2>3, CarriedStep
    <3>3. ~o_start_pulse'
      BY <3>2 DEF NothingDone, Done, ClearWrite, Write, StartsRun
    <3> QED
      BY <2>2, <3>1, <3>2, <3>3 DEF DriverInv, CoreQuiet
  <2>4. CASE Answering
    <3>1. NothingDone /\ (bready => BusIdle') /\ (~bready => Answering')
      BY <2>1, <2>4, AnsweringStep
    <3>2. d_state' = IF bready THEN "READY" ELSE "CLEARING"
      BY <1>1, <1>2, <1>7, <2>1 DEF DriverNext
    <3> QED
      BY <1>2, <2>2, <3>1, <3>2 DEF DriverInv, CoreQuiet, NothingDone
  <2> QED
    BY <2>1, <2>3, <2>4
<1>8. CASE d_state = "RESETTING"
  <2>1. write = NoWrite /\ ~o_start_pulse
    BY <1>8 DEF Move, Writes, DriverInv
  <2>2. CASE OnItsWay(ResetWrite)
    <3>1. d_state' = "RESETTING"
      BY <1>1, <1>8, <2>1, <2>2, CarriedStep DEF DriverNext
    <3>2. (NothingDone /\ OnItsWay(ResetWrite)') \/ (Done(ResetWrite) /\ Answering')
      BY <2>1, <2>2, CarriedStep
    <3>3. ~o_start_pulse'
      BY <3>2 DEF NothingDone, Done, ResetWrite, Write, StartsRun, START, SOFT_RESET
    <3>4. Done(ResetWrite) => o_soft_reset'
      BY DEF Done, ResetWrite, Write, Stored, o_soft_reset, SOFT_RESET, IRQ_EN, ControlTypeOK
    <3> QED
      BY <3>1, <3>2, <3>3, <3>4 DEF DriverInv
  <2>3. CASE Answering /\ o_soft_reset
    <3>1. NothingDone /\ (bready => BusIdle') /\ (~bready => Answering')
      BY <2>1, <2>3, AnsweringStep
    <3>2. o_soft_reset' /\ ms' = "S_IDLE" /\ ~o_done'
      BY <2>3, <3>1, QuietStep DEF NothingDone, o_soft_reset
    <3>3. d_state' = IF bready THEN "READY" ELSE "RESETTING"
      BY <1>1, <1>2, <1>8, <2>1 DEF DriverNext
    <3> QED
      BY <1>2, <3>1, <3>2, <3>3 DEF DriverInv, CoreQuiet, NothingDone
  <2> QED
    BY <1>8, <2>2, <2>3 DEF DriverInv
<1>9. CASE d_state = "FREE"
  <2>1. d_state' = "FREE"
    BY <1>1, <1>9 DEF DriverNext
  <2> QED
    BY <2>1 DEF DriverInv
<1> QED
  BY <1>3, <1>4, <1>5, <1>6, <1>7, <1>8, <1>9 DEF DriverInv

-----------------------------------------------------------------------------
LEMMA ControlStart ==
  Init => ControlInv
<1> SUFFICES ASSUME Init PROVE ControlInv
  OBVIOUS
<1> USE DEF Init, RunControlInit, RegsInit, PerfInit
<1>1. ControlTypeOK
  <2>1. reg \in [{"CTRL"} \cup PLAIN_REGS -> Words]
    BY RegsAssumption DEF Words
  <2>2. awaddr_latched \in Addresses /\ wdata_latched \in Words
    BY DEF Addresses, Words
  <2>3. aw_q \in Seq(Addresses) /\ w_q \in Seq(Words)
    OBVIOUS
  <2>4. o_run_count \in Nat /\ perf \in [COUNTERS -> Nat] /\ cycle_counter \in Nat
    OBVIOUS
  <2> QED
    BY <2>1, <2>2, <2>3, <2>4 DEF ControlTypeOK
<1>2. Accounting /\ CoreInv /\ ReadInv
  BY DEF Accounting, One, CoreInv, ReadInv
<1>3. DriverInv
  BY DEF DriverInv, BusIdle, CoreQuiet
<1> QED
  BY <1>1, <1>2, <1>3 DEF ControlInv

LEMMA ControlStep ==
  ControlInv /\ [Next]_vars => ControlInv'
<1> SUFFICES ASSUME ControlInv, [Next]_vars PROVE ControlInv'
  OBVIOUS
<1>1. CASE Next
  <2>1. PICK write, read, awvalid, wvalid, bready, arvalid, rready, next :
          Move(write, read, awvalid, wvalid, bready, arvalid, rready, next)
    BY <1>1, NextMove
  <2>2. ControlTypeOK' /\ Accounting'
    BY <2>1, TypeStep DEF ControlInv
  <2>3. CoreInv' /\ ReadInv'
    BY <2>1, CoreStep, ReadStep DEF ControlInv
  <2>4. DriverInv'
    BY <2>1, DriverStep
  <2> QED
    BY <2>2, <2>3, <2>4 DEF ControlInv
<1>2. CASE UNCHANGED vars
  BY <1>2 DEF vars, runControlVars, regsVars, writeChannelVars, perfVars, hostVars, ControlInv,
     ControlTypeOK, Accounting, CoreInv, ReadInv, DriverInv, BusIdle, Answering, OnItsWay,
     CoreQuiet, JustStarted, ToldTruly, o_soft_reset
<1> QED
  BY <1>1, <1>2

\* The invariant behind the theorems: where each write is, and what the driver may rely on.
THEOREM ControlInvariant ==
  Spec => []ControlInv
BY ControlStart, ControlStep, PTL DEF Spec

\* Registers, counters and queues keep their types whatever the host writes and whichever
\* way the channels move.
THEOREM ControlTyped ==
  Spec => []ControlTypeOK
<1>1. ControlInv => ControlTypeOK
  BY DEF ControlInv
<1> QED
  BY <1>1, ControlInvariant, PTL

\* A driver that polls is told the truth about the run it started, for every set of
\* stages, every length of the run and every timing of the three write channels and of
\* the reads: DONE is neither left over, nor lost, nor early.
THEOREM PollingTold ==
  Spec => []PollingSeesTheRun
<1>1. ControlInv => PollingSeesTheRun
  BY DEF ControlInv, DriverInv, CoreInv, ToldTruly, PollingSeesTheRun
<1> QED
  BY <1>1, ControlInvariant, PTL

-----------------------------------------------------------------------------
(* The counters.                                                           *)

\* Every start of a driver is counted, at the latest when its pulse has passed: it never
\* meets a soft reset.
CountInv ==
  d_state # "FREE" => /\ start_writes \in Nat
                      /\ o_run_count + One(o_start_pulse) = start_writes

\* A driver's run is being counted from the edge after the start pulse on.
RunCovered ==
  \/ ms # "S_IDLE"
  \/ d_state \in {"POLLING", "SEEN"}
  \/ d_state = "STARTING" /\ bvalid /\ ~o_start_pulse

CoverInv ==
  d_state # "FREE" =>
    /\ RunCovered => perf["busy_cycles"] = cycle_counter
    /\ d_state = "SEEN" => ~o_soft_reset

\* In every cycle some stage is counted or none, and so is the whole.
StageSum == perf["busy_cycles"] = SumOver(perf, STAGES)

\* A driver stays a driver, and its start pulse is never out while the core is busy or
\* is being reset.
LEMMA DriverPulse ==
  ASSUME ControlInv, d_state # "FREE"
  PROVE  o_start_pulse => ms = "S_IDLE" /\ ~o_soft_reset /\ d_state = "STARTING" /\ bvalid
BY DEF ControlInv, ControlTypeOK, DriverInv, CoreQuiet, JustStarted, ToldTruly, Answering

LEMMA StaysFree ==
  ASSUME NEW write, NEW read, NEW awvalid, NEW wvalid, NEW bready, NEW arvalid, NEW rready,
         NEW next, Move(write, read, awvalid, wvalid, bready, arvalid, rready, next),
         d_state = "FREE"
  PROVE  d_state' = "FREE"
BY DEF Move, Clock, HostClock, DriverNext

LEMMA CountStep ==
  ASSUME ControlInv, CountInv,
         NEW write, NEW read, NEW awvalid, NEW wvalid, NEW bready, NEW arvalid, NEW rready,
         NEW next, Move(write, read, awvalid, wvalid, bready, arvalid, rready, next)
  PROVE  CountInv'
<1> SUFFICES ASSUME d_state' # "FREE"
             PROVE  start_writes' \in Nat /\ o_run_count' + One(o_start_pulse') = start_writes'
  BY DEF CountInv
<1>1. d_state # "FREE"
  BY StaysFree
<1>2. o_start_pulse => ~o_soft_reset
  BY <1>1, DriverPulse
<1>3. o_run_count' = o_run_count + One(o_start_pulse)
  BY <1>2 DEF Move, Clock, PerfClock, PerfSoftReset, PerfStart, CountEvents, One, ControlInv,
     ControlTypeOK
<1>4. start_writes' = start_writes + One(o_start_pulse')
  <2>1. o_start_pulse' = (write_fire /\ StartsRun(awaddr_latched, wdata_latched))
    BY DEF Move, Clock, RegsClock, PerformWrite
  <2>2. start_writes' = IF write_fire /\ StartsRun(awaddr_latched, wdata_latched)
                        THEN start_writes + 1 ELSE start_writes
    BY DEF Move, Clock
  <2>3. start_writes \in Nat
    BY <1>1 DEF CountInv
  <2>4. CASE write_fire /\ StartsRun(awaddr_latched, wdata_latched)
    BY <2>1, <2>2, <2>4 DEF One
  <2>5. CASE ~(write_fire /\ StartsRun(awaddr_latched, wdata_latched))
    <3>1. ~o_start_pulse'
      BY <2>1, <2>5
    <3> QED
      BY <2>2, <2>3, <2>5, <3>1 DEF One
  <2> QED
    BY <2>4, <2>5
<1>5. o_start_pulse' \in BOOLEAN
  BY TypeStep DEF ControlInv, ControlTypeOK
<1> QED
  BY <1>1, <1>3, <1>4, <1>5 DEF CountInv, One, ControlInv, ControlTypeOK

LEMMA CoverStep ==
  ASSUME ControlInv, CoverInv,
         NEW write, NEW read, NEW awvalid, NEW wvalid, NEW bready, NEW arvalid, NEW rready,
         NEW next, Move(write, read, awvalid, wvalid, bready, arvalid, rready, next)
  PROVE  CoverInv'
<1> SUFFICES ASSUME d_state' # "FREE"
             PROVE  /\ RunCovered' => perf'["busy_cycles"] = cycle_counter'
                    /\ d_state' = "SEEN" => ~o_soft_reset'
  BY DEF CoverInv
<1>1. d_state # "FREE"
  BY StaysFree
<1>2. d_state' = DriverNext(write, bready, rready /\ DONE \in StatusWord(o_busy))
  BY DEF Move, Clock, HostClock
<1>3. d_state' = "SEEN" => ~o_soft_reset'
  <2>1. SUFFICES ASSUME d_state' = "SEEN" PROVE ~o_soft_reset'
    OBVIOUS
  <2>2. d_state \in {"POLLING", "SEEN"}
    BY <1>2, <2>1 DEF DriverNext
  <2>3. BusIdle /\ ~o_soft_reset
    BY <1>1, <2>2 DEF ControlInv, DriverInv, CoverInv
  <2>4. reg' = reg
    BY <2>3, IdleStep DEF NothingDone, ControlInv
  <2> QED
    BY <2>3, <2>4 DEF o_soft_reset
<1>4. CASE o_soft_reset
  <2>1. ms' = "S_IDLE" /\ ~o_start_pulse
    BY <1>1, <1>4, DriverPulse, QuietStep DEF ControlInv
  <2>2. d_state \notin {"POLLING", "SEEN"} /\ ~(d_state = "STARTING" /\ bvalid)
    BY <1>1, <1>4 DEF ControlInv, DriverInv, CoverInv, OnItsWay, ControlTypeOK
  <2>3. CASE d_state = "STARTING"
    <3>1. OnItsWay(StartWrite) /\ CoreQuiet /\ write = NoWrite
      BY <1>4, <2>3 DEF ControlInv, DriverInv, Move, Writes
    <3>2. ~bready /\ ((NothingDone /\ OnItsWay(StartWrite)') \/ (Done(StartWrite) /\ Answering'))
      BY <3>1, CarriedStep DEF ControlInv
    <3>3. d_state' = "STARTING"
      BY <1>2, <2>3, <3>1, <3>2 DEF DriverNext
    <3>4. ~(bvalid' /\ ~o_start_pulse')
      BY <3>2 DEF OnItsWay, Done, StartWrite, Write, StartsRun, START
    <3> QED
      BY <1>3, <2>1, <3>3, <3>4 DEF RunCovered
  <2>4. CASE d_state # "STARTING"
    <3>1. d_state' \notin {"POLLING", "SEEN"}
      BY <1>2, <2>2, <2>4 DEF DriverNext
    <3>2. CASE d_state' = "STARTING"
      <4>1. d_state = "READY" /\ write # NoWrite
        BY <1>2, <2>4, <3>2 DEF DriverNext
      <4>2. ~bvalid'
        BY <4>1, IdleStep DEF ControlInv, DriverInv, OnItsWay
      <4> QED
        BY <1>3, <2>1, <3>2, <4>2 DEF RunCovered
    <3> QED
      BY <1>3, <2>1, <3>1, <3>2 DEF RunCovered
  <2> QED
    BY <2>3, <2>4
<1>5. CASE ~o_soft_reset /\ o_start_pulse
  <2>1. perf'["busy_cycles"] = 0
    BY <1>5, PlaneAssumption DEF Move, Clock, PerfClock, PerfStart, ClearAll
  <2>2. ms = "S_IDLE" /\ ~o_busy
    BY <1>1, <1>5, DriverPulse DEF ControlInv, CoreInv
  <2>3. cycle_counter' = 0
    BY <1>5, <2>2 DEF Move, Clock, CycleCounter
  <2> QED
    BY <1>3, <2>1, <2>3
<1>6. CASE ~o_soft_reset /\ ~o_start_pulse
  <2>1. perf'["busy_cycles"] = perf["busy_cycles"] + One(ms \in STAGES)
    BY <1>6, PlaneAssumption DEF Move, Clock, PerfClock, CountEvents, Happening, One
  <2>2. cycle_counter' = cycle_counter + One(ms \in STAGES)
    BY <1>6 DEF Move, Clock, CycleCounter, One, ControlInv, ControlTypeOK
  <2>3. SUFFICES ASSUME RunCovered' PROVE RunCovered
    BY <1>1, <1>3, <2>1, <2>2 DEF CoverInv
  <2>4. CASE ms' # "S_IDLE"
    <3>1. ms # "S_IDLE"
      BY <1>6, <2>4, QuietStep DEF ControlInv
    <3> QED
      BY <3>1 DEF RunCovered
  <2>5. CASE d_state' \in {"POLLING", "SEEN"}
    <3>1. d_state \in {"POLLING", "SEEN"} \/ (d_state = "STARTING" /\ bready)
      BY <1>2, <2>5 DEF DriverNext
    <3>2. bready => bvalid
      BY DEF Move
    <3> QED
      BY <1>6, <3>1, <3>2 DEF RunCovered
  <2>6. CASE d_state' = "STARTING" /\ bvalid' /\ ~o_start_pulse'
    <3>1. d_state = "READY" \/ d_state = "STARTING"
      BY <1>2, <2>6 DEF DriverNext
    <3>2. d_state # "READY"
      <4>1. SUFFICES ASSUME d_state = "READY" PROVE FALSE
        OBVIOUS
      <4>2. write # NoWrite
        BY <1>2, <2>6, <4>1 DEF DriverNext
      <4>3. ~bvalid'
        BY <4>1, <4>2, IdleStep DEF ControlInv, DriverInv, OnItsWay
      <4> QED
        BY <2>6, <4>3
    <3>3. bvalid
      <4>1. SUFFICES ASSUME ~bvalid PROVE FALSE
        OBVIOUS
      <4>2. OnItsWay(StartWrite) /\ write = NoWrite
        BY <3>1, <3>2, <4>1 DEF ControlInv, DriverInv, Answering, Move, Writes
      <4>3. (NothingDone /\ OnItsWay(StartWrite)') \/ (Done(StartWrite) /\ Answering')
        BY <4>2, CarriedStep DEF ControlInv
      <4> QED
        BY <2>6, <4>3 DEF OnItsWay, Done, StartWrite, Write, StartsRun, START
    <3> QED
      BY <1>6, <3>1, <3>2, <3>3 DEF RunCovered
  <2> QED
    BY <2>3, <2>4, <2>5, <2>6 DEF RunCovered
<1>7. o_soft_reset \in BOOLEAN /\ o_start_pulse \in BOOLEAN
  BY DEF o_soft_reset, ControlInv, ControlTypeOK
<1> QED
  BY <1>4, <1>5, <1>6, <1>7

LEMMA StageSumStep ==
  ASSUME IsFiniteSet(STAGES), ControlTypeOK, StageSum,
         NEW write, NEW read, NEW awvalid, NEW wvalid, NEW bready, NEW arvalid, NEW rready,
         NEW next, Move(write, read, awvalid, wvalid, bready, arvalid, rready, next)
  PROVE  StageSum'
<1>1. CASE perf' = [c \in COUNTERS |-> 0]
  <2>1. \A c \in STAGES : perf'[c] = 0
    BY <1>1, PlaneAssumption
  <2>2. SumOver(perf', STAGES) = 0
    BY <2>1, SumOfNothing
  <2> QED
    BY <1>1, <2>2, PlaneAssumption DEF StageSum
<1>2. CASE perf' = [c \in COUNTERS |-> perf[c] + Happening[c]]
  <2>1. \A c \in STAGES : perf[c] \in Int /\ perf'[c] = perf[c] + One(c = ms)
    <3>1. SUFFICES ASSUME NEW c \in STAGES
                   PROVE  perf[c] \in Int /\ perf'[c] = perf[c] + One(c = ms)
      OBVIOUS
    <3>2. c \in COUNTERS /\ c # "busy_cycles" /\ perf[c] \in Nat
      BY <3>1, PlaneAssumption DEF ControlTypeOK
    <3>3. perf'[c] = perf[c] + Happening[c]
      BY <1>2, <3>2
    <3>4. Happening[c] = One(c = ms)
      BY <3>1, <3>2 DEF Happening, One
    <3> QED
      BY <3>2, <3>3, <3>4
  <2>2. SumOver(perf', STAGES) = SumOver(perf, STAGES) + One(ms \in STAGES)
    <3>1. CASE ms \in STAGES
      <4>1. /\ \A c \in STAGES : perf[c] \in Int /\ (c # ms => perf'[c] = perf[c])
            /\ perf'[ms] = perf[ms] + 1
        BY <2>1, <3>1 DEF One
      <4>2. SumOver(perf', STAGES) = SumOver(perf, STAGES) + 1
        BY <3>1, <4>1, SumOfChange
      <4> QED
        BY <3>1, <4>2 DEF One
    <3>2. CASE ms \notin STAGES
      <4>1. \A c \in STAGES : perf[c] \in Int /\ perf'[c] = perf[c]
        BY <2>1, <3>2 DEF One
      <4>2. SumOver(perf', STAGES) = SumOver(perf, STAGES) /\ SumOver(perf, STAGES) \in Int
        BY <4>1, SumOfEquals, SumIsNumber
      <4> QED
        BY <3>2, <4>2 DEF One
    <3> QED
      BY <3>1, <3>2
  <2>3. perf'["busy_cycles"] = perf["busy_cycles"] + One(ms \in STAGES)
    BY <1>2, PlaneAssumption DEF Happening, One
  <2> QED
    BY <2>2, <2>3 DEF StageSum
<1> QED
  BY <1>1, <1>2 DEF Move, Clock, PerfClock, PerfSoftReset, PerfStart, ClearAll, CountEvents

LEMMA CountersStart ==
  Init => /\ CountInv /\ CoverInv
          /\ IsFiniteSet(STAGES) => StageSum
<1> SUFFICES ASSUME Init
             PROVE  CountInv /\ CoverInv /\ (IsFiniteSet(STAGES) => StageSum)
  OBVIOUS
<1> USE DEF Init, RunControlInit, RegsInit, PerfInit
<1>1. CountInv
  BY DEF CountInv, One
<1>2. CoverInv
  BY PlaneAssumption DEF CoverInv, RunCovered
<1>3. ASSUME IsFiniteSet(STAGES) PROVE StageSum
  <2>1. \A c \in STAGES : perf[c] = 0
    BY PlaneAssumption
  <2>2. SumOver(perf, STAGES) = 0
    BY <1>3, <2>1, SumOfNothing
  <2> QED
    BY <2>2, PlaneAssumption DEF StageSum
<1> QED
  BY <1>1, <1>2, <1>3

LEMMA CountersStep ==
  ASSUME ControlInv, [Next]_vars
  PROVE  /\ CountInv => CountInv'
         /\ CoverInv => CoverInv'
         /\ IsFiniteSet(STAGES) /\ StageSum => StageSum'
<1>1. CASE Next
  <2>1. PICK write, read, awvalid, wvalid, bready, arvalid, rready, next :
          Move(write, read, awvalid, wvalid, bready, arvalid, rready, next)
    BY <1>1, NextMove
  <2> QED
    BY <2>1, CountStep, CoverStep, StageSumStep DEF ControlInv
<1>2. CASE UNCHANGED vars
  BY <1>2 DEF vars, runControlVars, regsVars, writeChannelVars, perfVars, hostVars,
     CountInv, CoverInv, RunCovered, StageSum, o_soft_reset
<1> QED
  BY <1>1, <1>2

\* The counter of runs counts the writes of START of a driver, each once and at the latest
\* in the cycle after its pulse: no start of a driver falls together with a soft reset.
THEOREM StartsCounted ==
  Spec => []DriverRunsCounted
<1>1. ControlInv /\ CountInv /\ [Next]_vars => CountInv'
  BY CountersStep
<1>2. Init => CountInv
  BY CountersStart
<1>3. ControlInv /\ CountInv => DriverRunsCounted
  BY DEF ControlInv, ControlTypeOK, CountInv, One, DriverRunsCounted, RunCountIsStartWrites
<1> QED
  BY <1>1, <1>2, <1>3, ControlInvariant, PTL DEF Spec

\* For any finite set of stages, runs of any length and any timing of the bus: from its
\* first cycle until the driver has seen its end, the counters of a run agree with the
\* core's cycle counter, and the stages add up to the whole.
THEOREM RunCounted ==
  ASSUME IsFiniteSet(STAGES)
  PROVE  Spec => []CountersCoverRun
<1>1. ControlInv /\ CoverInv /\ StageSum /\ [Next]_vars => CoverInv' /\ StageSum'
  BY CountersStep
<1>2. Init => CoverInv /\ StageSum
  BY CountersStart
<1>3. CoverInv /\ StageSum => CountersCoverRun
  BY DEF CoverInv, RunCovered, StageSum, SumOver, CountersCoverRun
<1> QED
  BY <1>1, <1>2, <1>3, ControlInvariant, PTL DEF Spec

-----------------------------------------------------------------------------
(* The register file is what RegisterFile says.                            *)

\* What a channel has not delivered: its latch, then the queue behind it.
Undelivered(seen, latched, q) == (IF seen THEN <<latched>> ELSE <<>>) \o q

LEMMA UndeliveredType ==
  ASSUME NEW T, NEW seen \in BOOLEAN, NEW latched \in T, NEW q \in Seq(T)
  PROVE  /\ Undelivered(seen, latched, q) \in Seq(T)
         /\ Len(Undelivered(seen, latched, q)) = Len(q) + One(seen)
         /\ seen => /\ Undelivered(seen, latched, q) # <<>>
                    /\ Head(Undelivered(seen, latched, q)) = latched
                    /\ Tail(Undelivered(seen, latched, q)) = q
         /\ ~seen => Undelivered(seen, latched, q) = q
<1>1. CASE seen
  <2>1. Undelivered(seen, latched, q) = <<latched>> \o q
    BY <1>1 DEF Undelivered
  <2>2. <<latched>> \in Seq(T) /\ <<latched>> # <<>> /\ Tail(<<latched>>) = <<>>
        /\ Head(<<latched>>) = latched /\ Len(<<latched>>) = 1
    OBVIOUS
  <2>3. <<latched>> \o q \in Seq(T) /\ Len(<<latched>> \o q) = 1 + Len(q)
    BY <2>2, ConcatProperties
  <2>4. Head(<<latched>> \o q) = latched
    BY <2>3
  <2>5. Tail(<<latched>> \o q) = q
    <3>1. Tail(<<latched>> \o q) \in Seq(T) /\ Len(Tail(<<latched>> \o q)) = Len(q)
      BY <2>3
    <3>2. \A i \in 1 .. Len(q) : Tail(<<latched>> \o q)[i] = q[i]
      BY <2>3
    <3> QED
      BY <3>1, <3>2, SeqEqual
  <2>6. One(seen) = 1 /\ Len(q) + 1 = 1 + Len(q) /\ <<latched>> \o q # <<>>
    BY <1>1, <2>3 DEF One
  <2> QED
    BY <1>1, <2>1, <2>3, <2>4, <2>5, <2>6
<1>2. CASE ~seen
  BY <1>2, ConcatEmptySeq DEF Undelivered, One
<1> QED
  BY <1>1, <1>2

\* One cycle of a channel: valid hands an entry to an empty latch, fire takes it from
\* there, a write issues another entry.
ChannelMoves(T, seen, latched, q, valid, fire, write, entry, before, seenNext, latchedNext, after) ==
  /\ seen \in BOOLEAN /\ latched \in T /\ q \in Seq(T) /\ valid \in BOOLEAN /\ fire \in BOOLEAN
  /\ valid => q # <<>> /\ ~seen
  /\ fire => seen
  /\ write # NoWrite => entry \in T
  /\ seenNext \in BOOLEAN /\ (seenNext <=> valid \/ (seen /\ ~fire))
  /\ latchedNext = IF valid THEN Head(q) ELSE latched
  /\ before = Undelivered(seen, latched, q)
  /\ after = Undelivered(seenNext, latchedNext, Queue(q, valid, write, entry))

\* Taking the entry in the latch leaves the queue.
LEMMA UndeliveredRest ==
  ASSUME NEW T, NEW latched \in T, NEW q \in Seq(T)
  PROVE  /\ Tail(Undelivered(TRUE, latched, q)) = q
         /\ Undelivered(FALSE, latched, q) = q
BY UndeliveredType

\* Taking an entry in from the queue is not seen.
LEMMA UndeliveredTaken ==
  ASSUME NEW T, NEW q \in Seq(T), q # <<>>
  PROVE  Undelivered(TRUE, Head(q), Tail(q)) = q
<1>1. <<Head(q)>> \in Seq(T) /\ Tail(q) \in Seq(T) /\ Len(Tail(q)) = Len(q) - 1
  OBVIOUS
<1>2. /\ <<Head(q)>> \o Tail(q) \in Seq(T)
      /\ Len(<<Head(q)>> \o Tail(q)) = Len(q)
  BY <1>1, ConcatProperties
<1>3. \A i \in 1 .. Len(q) : (<<Head(q)>> \o Tail(q))[i] = q[i]
  BY <1>1
<1>4. <<Head(q)>> \o Tail(q) = q
  BY <1>2, <1>3, SeqEqual
<1> QED
  BY <1>4 DEF Undelivered

\* What is issued comes last.
LEMMA UndeliveredMore ==
  ASSUME NEW T, NEW seen \in BOOLEAN, NEW latched \in T, NEW q \in Seq(T), NEW more \in Seq(T)
  PROVE  Undelivered(seen, latched, q \o more) = Undelivered(seen, latched, q) \o more
<1>1. PICK first : first = (IF seen THEN <<latched>> ELSE <<>>)
  OBVIOUS
<1>2. first \in Seq(T)
  BY <1>1
<1>3. first \o (q \o more) = (first \o q) \o more
  BY <1>2, ConcatAssociative
<1> QED
  BY <1>1, <1>3 DEF Undelivered

\* A channel delivers its oldest entry when a write is done, and takes in what is issued;
\* the move from queue to latch is not seen.
LEMMA ChannelStep ==
  ASSUME NEW T, NEW seen, NEW latched, NEW q, NEW valid, NEW fire, NEW write, NEW entry,
         NEW before, NEW seenNext, NEW latchedNext, NEW after,
         ChannelMoves(T, seen, latched, q, valid, fire, write, entry,
                      before, seenNext, latchedNext, after)
  PROVE  after = (IF fire THEN Tail(before) ELSE before)
                   \o (IF write = NoWrite THEN <<>> ELSE <<entry>>)
<1>1. /\ seen \in BOOLEAN /\ latched \in T /\ q \in Seq(T) /\ valid \in BOOLEAN /\ fire \in BOOLEAN
      /\ valid => q # <<>> /\ ~seen
      /\ fire => seen
      /\ write # NoWrite => entry \in T
      /\ seenNext \in BOOLEAN /\ (seenNext <=> valid \/ (seen /\ ~fire))
      /\ latchedNext = IF valid THEN Head(q) ELSE latched
      /\ before = Undelivered(seen, latched, q)
      /\ after = Undelivered(seenNext, latchedNext, Queue(q, valid, write, entry))
  BY DEF ChannelMoves
<1>2. PICK rest : rest = IF valid THEN Tail(q) ELSE q
  OBVIOUS
<1>3. PICK more : more = IF write = NoWrite THEN <<>> ELSE <<entry>>
  OBVIOUS
<1>4. rest \in Seq(T) /\ more \in Seq(T) /\ latchedNext \in T
  BY <1>1, <1>2, <1>3
<1>5. Queue(q, valid, write, entry) = rest \o more
  <2>1. CASE write = NoWrite
    <3>1. Queue(q, valid, write, entry) = rest /\ more = <<>>
      BY <1>2, <1>3, <2>1 DEF Queue
    <3>2. rest \o <<>> = rest
      BY <1>4, ConcatEmptySeq
    <3> QED
      BY <3>1, <3>2
  <2>2. CASE write # NoWrite
    <3>1. Queue(q, valid, write, entry) = Append(rest, entry) /\ more = <<entry>> /\ entry \in T
      BY <1>1, <1>2, <1>3, <2>2 DEF Queue
    <3>2. Append(rest, entry) = rest \o <<entry>>
      BY <1>4, <3>1, AppendIsConcat
    <3> QED
      BY <3>1, <3>2
  <2> QED
    BY <2>1, <2>2
<1>6. after = Undelivered(seenNext, latchedNext, rest) \o more
  <2>1. Undelivered(seenNext, latchedNext, rest \o more)
          = Undelivered(seenNext, latchedNext, rest) \o more
    <3>1. seenNext \in BOOLEAN
      BY <1>1
    <3> QED
      BY <1>4, <3>1, UndeliveredMore
  <2> QED
    BY <1>1, <1>5, <2>1
<1>7. PICK left : left = IF fire THEN Tail(before) ELSE before
  OBVIOUS
<1>8. Undelivered(seenNext, latchedNext, rest) = left
  <2>1. CASE fire
    <3>1. seen = TRUE /\ valid = FALSE /\ seenNext = FALSE /\ latchedNext = latched
      BY <1>1, <2>1
    <3>2. rest = q /\ left = Tail(Undelivered(TRUE, latched, q))
      BY <1>1, <1>2, <1>7, <2>1, <3>1
    <3>3. left = q
      BY <1>1, <3>2, UndeliveredRest
    <3>4. Undelivered(FALSE, latched, q) = q
      BY <1>1, UndeliveredRest
    <3> QED
      BY <3>1, <3>2, <3>3, <3>4
  <2>2. CASE ~fire /\ valid
    <3>1. seen = FALSE /\ seenNext = TRUE /\ latchedNext = Head(q) /\ rest = Tail(q) /\ q # <<>>
      BY <1>1, <1>2, <2>2
    <3>2. left = Undelivered(FALSE, latched, q)
      BY <1>1, <1>7, <2>2, <3>1
    <3>3. Undelivered(FALSE, latched, q) = q
      BY <1>1, UndeliveredRest
    <3>4. Undelivered(TRUE, Head(q), Tail(q)) = q
      BY <1>1, <3>1, UndeliveredTaken
    <3> QED
      BY <3>1, <3>2, <3>3, <3>4
  <2>3. CASE ~fire /\ ~valid
    <3>1. seenNext = seen /\ latchedNext = latched /\ rest = q
      BY <1>1, <1>2, <2>3
    <3> QED
      BY <1>1, <1>7, <2>3, <3>1
  <2> QED
    BY <1>1, <2>1, <2>2, <2>3
<1> QED
  BY <1>3, <1>6, <1>7, <1>8

\* Addresses and words side by side.
Zip(addrs, words) == [i \in 1 .. Len(addrs) |-> Write(addrs[i], words[i])]

LEMMA ZipType ==
  ASSUME NEW addrs \in Seq(Addresses), NEW words \in Seq(Words), Len(addrs) = Len(words)
  PROVE  /\ Zip(addrs, words) \in Seq([addr : Addresses, word : Words])
         /\ Len(Zip(addrs, words)) = Len(addrs)
         /\ \A i \in 1 .. Len(addrs) : Zip(addrs, words)[i] = Write(addrs[i], words[i])
<1>1. Len(addrs) \in Nat
  OBVIOUS
<1>2. \A i \in 1 .. Len(addrs) : Write(addrs[i], words[i]) \in [addr : Addresses, word : Words]
  BY DEF Write
<1> QED
  BY <1>1, <1>2 DEF Zip

LEMMA ZipConcat ==
  ASSUME NEW xs \in Seq(Addresses), NEW ys \in Seq(Words), Len(xs) = Len(ys),
         NEW us \in Seq(Addresses), NEW vs \in Seq(Words), Len(us) = Len(vs)
  PROVE  Zip(xs \o us, ys \o vs) = Zip(xs, ys) \o Zip(us, vs)
<1> DEFINE RW == [addr : Addresses, word : Words]
           zs == Zip(xs, ys)
           more == Zip(us, vs)
<1>1. /\ zs \in Seq(RW) /\ Len(zs) = Len(xs)
      /\ \A i \in 1 .. Len(xs) : zs[i] = Write(xs[i], ys[i])
  BY ZipType
<1>2. /\ more \in Seq(RW) /\ Len(more) = Len(us)
      /\ \A i \in 1 .. Len(us) : more[i] = Write(us[i], vs[i])
  BY ZipType
<1> HIDE DEF RW, zs, more
<1>3. /\ xs \o us \in Seq(Addresses) /\ Len(xs \o us) = Len(xs) + Len(us)
      /\ ys \o vs \in Seq(Words) /\ Len(ys \o vs) = Len(xs) + Len(us)
      /\ zs \o more \in Seq(RW) /\ Len(zs \o more) = Len(xs) + Len(us)
  <2>1. xs \o us \in Seq(Addresses) /\ Len(xs \o us) = Len(xs) + Len(us)
    BY ConcatProperties
  <2>2. ys \o vs \in Seq(Words) /\ Len(ys \o vs) = Len(xs) + Len(us)
    BY ConcatProperties
  <2>3. zs \o more \in Seq(RW) /\ Len(zs \o more) = Len(xs) + Len(us)
    <3>1. zs \in Seq(RW) /\ more \in Seq(RW)
      BY <1>1, <1>2
    <3>2. zs \o more \in Seq(RW) /\ Len(zs \o more) = Len(zs) + Len(more)
      BY <3>1, ConcatProperties
    <3> QED
      BY <1>1, <1>2, <3>2
  <2> QED
    BY <2>1, <2>2, <2>3
<1>4. /\ Zip(xs \o us, ys \o vs) \in Seq(RW)
      /\ Len(Zip(xs \o us, ys \o vs)) = Len(xs) + Len(us)
      /\ \A i \in 1 .. Len(xs) + Len(us) :
           Zip(xs \o us, ys \o vs)[i] = Write((xs \o us)[i], (ys \o vs)[i])
  BY <1>3, ZipType DEF RW
<1>5. ASSUME NEW i \in 1 .. Len(xs) + Len(us)
      PROVE  Zip(xs \o us, ys \o vs)[i] = (zs \o more)[i]
  <2>1. Len(xs) \in Nat /\ Len(us) \in Nat /\ i \in Nat
    OBVIOUS
  <2>2. CASE i <= Len(xs)
    <3>1. i \in 1 .. Len(xs)
      BY <2>1, <2>2
    <3>2. (xs \o us)[i] = xs[i] /\ (ys \o vs)[i] = ys[i]
      BY <3>1, ConcatProperties
    <3>3. (zs \o more)[i] = zs[i]
      BY <1>1, <1>2, <2>2, ConcatProperties
    <3> QED
      BY <1>1, <1>4, <3>1, <3>2, <3>3
  <2>3. CASE i > Len(xs)
    <3>1. i - Len(xs) \in 1 .. Len(us)
      BY <2>1, <2>3
    <3>2. (xs \o us)[i] = us[i - Len(xs)] /\ (ys \o vs)[i] = vs[i - Len(xs)]
      BY <2>3, ConcatProperties
    <3>3. (zs \o more)[i] = more[i - Len(xs)]
      BY <1>1, <1>2, <2>3, ConcatProperties
    <3> QED
      BY <1>2, <1>4, <3>1, <3>2, <3>3
  <2>4. i <= Len(xs) \/ i > Len(xs)
    BY <2>1
  <2> QED
    BY <2>2, <2>3, <2>4
<1>6. Zip(xs \o us, ys \o vs) = zs \o more
  BY <1>1, <1>2, <1>3, <1>4, <1>5, SeqEqual
<1> QED
  BY <1>6 DEF zs, more

LEMMA ZipTail ==
  ASSUME NEW xs \in Seq(Addresses), NEW ys \in Seq(Words), Len(xs) = Len(ys), xs # <<>>
  PROVE  /\ Zip(xs, ys) # <<>>
         /\ Head(Zip(xs, ys)) = Write(Head(xs), Head(ys))
         /\ Tail(Zip(xs, ys)) = Zip(Tail(xs), Tail(ys))
<1> DEFINE RW == [addr : Addresses, word : Words]
           zs == Zip(xs, ys)
<1>1. /\ zs \in Seq(RW) /\ Len(zs) = Len(xs)
      /\ \A i \in 1 .. Len(xs) : zs[i] = Write(xs[i], ys[i])
  BY ZipType
<1>2. /\ Tail(xs) \in Seq(Addresses) /\ Tail(ys) \in Seq(Words)
      /\ Len(Tail(xs)) = Len(xs) - 1 /\ Len(Tail(ys)) = Len(xs) - 1
      /\ \A i \in 1 .. Len(xs) - 1 : Tail(xs)[i] = xs[i + 1] /\ Tail(ys)[i] = ys[i + 1]
  OBVIOUS
<1>3. /\ Zip(Tail(xs), Tail(ys)) \in Seq(RW) /\ Len(Zip(Tail(xs), Tail(ys))) = Len(xs) - 1
      /\ \A i \in 1 .. Len(xs) - 1 :
           Zip(Tail(xs), Tail(ys))[i] = Write(Tail(xs)[i], Tail(ys)[i])
  BY <1>2, ZipType
<1> HIDE DEF RW, zs
<1>4. /\ zs # <<>> /\ Head(zs) = zs[1]
      /\ Tail(zs) \in Seq(RW) /\ Len(Tail(zs)) = Len(xs) - 1
      /\ \A i \in 1 .. Len(xs) - 1 : Tail(zs)[i] = zs[i + 1]
  BY <1>1
<1>5. \A i \in 1 .. Len(xs) - 1 : Tail(zs)[i] = Zip(Tail(xs), Tail(ys))[i]
  BY <1>1, <1>2, <1>3, <1>4
<1>6. Tail(zs) = Zip(Tail(xs), Tail(ys))
  BY <1>3, <1>4, <1>5, SeqEqual
<1>7. zs[1] = Write(xs[1], ys[1])
  BY <1>1
<1> QED
  BY <1>4, <1>6, <1>7 DEF zs

ZipMoves(addrs, words, pairs, fire, write, addrsNext, wordsNext, pairsNext) ==
  /\ addrs \in Seq(Addresses) /\ words \in Seq(Words) /\ Len(addrs) = Len(words)
  /\ fire \in BOOLEAN /\ (fire => addrs # <<>>)
  /\ write = NoWrite \/ write \in [addr : Addresses, word : Words]
  /\ addrsNext = (IF fire THEN Tail(addrs) ELSE addrs)
                   \o (IF write = NoWrite THEN <<>> ELSE <<write.addr>>)
  /\ wordsNext = (IF fire THEN Tail(words) ELSE words)
                   \o (IF write = NoWrite THEN <<>> ELSE <<write.word>>)
  /\ pairs = Zip(addrs, words) /\ pairsNext = Zip(addrsNext, wordsNext)

LEMMA ZipStep ==
  ASSUME NEW addrs, NEW words, NEW pairs, NEW fire, NEW write,
         NEW addrsNext, NEW wordsNext, NEW pairsNext,
         ZipMoves(addrs, words, pairs, fire, write, addrsNext, wordsNext, pairsNext)
  PROVE  pairsNext = (IF fire THEN Tail(pairs) ELSE pairs)
                       \o (IF write = NoWrite THEN <<>> ELSE <<write>>)
<1> SUFFICES ASSUME addrs \in Seq(Addresses), words \in Seq(Words), Len(addrs) = Len(words),
                    fire \in BOOLEAN, fire => addrs # <<>>,
                    write = NoWrite \/ write \in [addr : Addresses, word : Words],
                    addrsNext = (IF fire THEN Tail(addrs) ELSE addrs)
                                  \o (IF write = NoWrite THEN <<>> ELSE <<write.addr>>),
                    wordsNext = (IF fire THEN Tail(words) ELSE words)
                                  \o (IF write = NoWrite THEN <<>> ELSE <<write.word>>)
             PROVE  Zip(addrsNext, wordsNext) =
                      (IF fire THEN Tail(Zip(addrs, words)) ELSE Zip(addrs, words))
                        \o (IF write = NoWrite THEN <<>> ELSE <<write>>)
  BY DEF ZipMoves
<1> DEFINE xs == IF fire THEN Tail(addrs) ELSE addrs
           ys == IF fire THEN Tail(words) ELSE words
           us == IF write = NoWrite THEN <<>> ELSE <<write.addr>>
           vs == IF write = NoWrite THEN <<>> ELSE <<write.word>>
<1>1. xs \in Seq(Addresses) /\ ys \in Seq(Words) /\ Len(xs) = Len(ys)
  OBVIOUS
<1>2. Zip(xs, ys) = IF fire THEN Tail(Zip(addrs, words)) ELSE Zip(addrs, words)
  BY ZipTail
<1>3. /\ us \in Seq(Addresses) /\ vs \in Seq(Words) /\ Len(us) = Len(vs)
      /\ Zip(us, vs) = IF write = NoWrite THEN <<>> ELSE <<write>>
  <2>1. CASE write = NoWrite
    BY <2>1 DEF Zip
  <2>2. CASE write # NoWrite
    <3>1. write = Write(write.addr, write.word) /\ write.addr \in Addresses /\ write.word \in Words
      BY <2>2 DEF Write
    <3>2. us = <<write.addr>> /\ vs = <<write.word>>
      BY <2>2
    <3>3. Zip(<<write.addr>>, <<write.word>>) = <<Write(write.addr, write.word)>>
      BY DEF Zip
    <3> HIDE DEF us, vs
    <3> QED
      BY <2>2, <3>1, <3>2, <3>3
  <2> QED
    BY <2>1, <2>2
<1> HIDE DEF xs, ys, us, vs
<1>4. Zip(xs \o us, ys \o vs) = Zip(xs, ys) \o Zip(us, vs)
  BY <1>1, <1>3, ZipConcat
<1> QED
  BY <1>2, <1>3, <1>4 DEF xs, ys, us, vs

-----------------------------------------------------------------------------
Addrs == Undelivered(aw_seen, awaddr_latched, aw_q)
WriteData == Undelivered(w_seen, wdata_latched, w_q)

\* Both channels are short of the same writes: what is owed and not yet done.
LEMMA SameBacklog ==
  ASSUME NEW aseen \in BOOLEAN, NEW al \in Addresses, NEW aq \in Seq(Addresses),
         NEW wseen \in BOOLEAN, NEW wl \in Words, NEW wq \in Seq(Words),
         NEW due, NEW resp \in BOOLEAN,
         due = Len(aq) + One(aseen) + One(resp), due = Len(wq) + One(wseen) + One(resp)
  PROVE  /\ Undelivered(aseen, al, aq) \in Seq(Addresses)
         /\ Undelivered(wseen, wl, wq) \in Seq(Words)
         /\ Len(Undelivered(aseen, al, aq)) = Len(Undelivered(wseen, wl, wq))
<1>1. /\ Undelivered(aseen, al, aq) \in Seq(Addresses)
      /\ Len(Undelivered(aseen, al, aq)) = Len(aq) + One(aseen)
  BY UndeliveredType
<1>2. /\ Undelivered(wseen, wl, wq) \in Seq(Words)
      /\ Len(Undelivered(wseen, wl, wq)) = Len(wq) + One(wseen)
  BY UndeliveredType
<1>3. Len(aq) \in Nat /\ Len(wq) \in Nat
  OBVIOUS
<1>4. One(aseen) \in Nat /\ One(wseen) \in Nat /\ One(resp) \in Nat
  BY DEF One
<1>5. \A a, b, c, d, e \in Nat : a + b + c = d + e + c => a + b = d + e
  OBVIOUS
<1>6. Len(aq) + One(aseen) + One(resp) = Len(wq) + One(wseen) + One(resp)
  OBVIOUS
<1>7. Len(aq) + One(aseen) = Len(wq) + One(wseen)
  BY <1>3, <1>4, <1>5, <1>6
<1> QED
  BY <1>1, <1>2, <1>7

LEMMA PairsAreZip ==
  ASSUME NEW addrs \in Seq(Addresses), NEW words \in Seq(Words), Len(addrs) = Len(words)
  PROVE  [i \in 1 .. Min({Len(addrs), Len(words)}) |-> Write(addrs[i], words[i])] =
           Zip(addrs, words)
<1>1. \A n \in Nat : Min({n, n}) = n
  BY DEF Min
<1>2. Min({Len(addrs), Len(words)}) = Len(addrs)
  BY <1>1
<1> QED
  BY <1>2 DEF Zip

LEMMA Backlog ==
  ASSUME ControlTypeOK, Accounting
  PROVE  /\ Addrs \in Seq(Addresses) /\ WriteData \in Seq(Words) /\ Len(Addrs) = Len(WriteData)
         /\ Undone = Zip(Addrs, WriteData)
<1>1. Addrs \in Seq(Addresses) /\ WriteData \in Seq(Words) /\ Len(Addrs) = Len(WriteData)
  BY SameBacklog DEF ControlTypeOK, Accounting, Addrs, WriteData
<1>2. Undone = [i \in 1 .. Min({Len(Addrs), Len(WriteData)}) |-> Write(Addrs[i], WriteData[i])]
  BY DEF Undone, Addrs, WriteData, Undelivered
<1> HIDE DEF Addrs, WriteData
<1>3. Undone = Zip(Addrs, WriteData)
  BY <1>1, <1>2, PairsAreZip
<1> QED
  BY <1>1, <1>3

LEMMA BacklogNext ==
  ASSUME ControlTypeOK', Accounting'
  PROVE  /\ Addrs' \in Seq(Addresses) /\ WriteData' \in Seq(Words) /\ Len(Addrs') = Len(WriteData')
         /\ Undone' = Zip(Addrs', WriteData')
<1>1. Addrs' \in Seq(Addresses) /\ WriteData' \in Seq(Words) /\ Len(Addrs') = Len(WriteData')
  BY SameBacklog DEF ControlTypeOK, Accounting, Addrs, WriteData
<1>2. Undone' = [i \in 1 .. Min({Len(Addrs'), Len(WriteData')}) |->
                   Write(Addrs'[i], WriteData'[i])]
  BY DEF Undone, Addrs, WriteData, Undelivered
<1>3. Undone' = Zip(Addrs', WriteData')
  BY <1>1, <1>2, PairsAreZip
<1> QED
  BY <1>1, <1>3

LEMMA RegisterFileStart ==
  Init => RF!RegisterFileInit
<1> SUFFICES ASSUME Init PROVE RF!RegisterFileInit
  OBVIOUS
<1>1. Undone = <<>>
  <2>1. ControlTypeOK /\ Accounting
    BY ControlStart DEF ControlInv
  <2>2. Len(Addrs) = 0
    BY DEF Init, RegsInit, Addrs, Undelivered
  <2>3. Undone = Zip(Addrs, WriteData)
    BY <2>1, Backlog
  <2> QED
    BY <2>2, <2>3 DEF Zip
<1> QED
  BY <1>1 DEF Init, RegsInit, RF!RegisterFileInit

LEMMA RegisterFileMove ==
  ASSUME ControlTypeOK, Accounting, ControlTypeOK', Accounting',
         NEW write, NEW read, NEW awvalid, NEW wvalid, NEW bready, NEW arvalid, NEW rready,
         NEW next, Move(write, read, awvalid, wvalid, bready, arvalid, rready, next)
  PROVE  \E arrived \in {<<>>} \cup {<<w>> : w \in FREE_WRITES \cup {StartWrite, ResetWrite, ClearWrite}},
            perform, answer, coreDone \in BOOLEAN :
           RF!RegisterFileStep(arrived, perform, answer, coreDone)
<1> DEFINE arrived == IF write = NoWrite THEN <<>> ELSE <<write>>
<1>1. write = NoWrite \/ write \in [addr : Addresses, word : Words]
  BY WriteTypes DEF Move
<1>2. arrived \in {<<>>} \cup {<<w>> : w \in FREE_WRITES \cup {StartWrite, ResetWrite, ClearWrite}}
  BY DEF Move, Writes
<1>3. /\ aw_seen \in BOOLEAN /\ w_seen \in BOOLEAN /\ bvalid \in BOOLEAN /\ done_sticky \in BOOLEAN
      /\ awaddr_latched \in Addresses /\ wdata_latched \in Words
      /\ aw_q \in Seq(Addresses) /\ w_q \in Seq(Words) /\ o_done \in BOOLEAN
      /\ write_fire \in BOOLEAN /\ (write_fire => aw_seen /\ w_seen /\ ~bvalid)
  BY DEF ControlTypeOK, write_fire
<1>4. /\ awvalid \in BOOLEAN /\ (awvalid => aw_q # <<>> /\ ~aw_seen)
      /\ wvalid \in BOOLEAN /\ (wvalid => w_q # <<>> /\ ~w_seen)
      /\ bready \in BOOLEAN /\ (bready => bvalid)
  BY DEF Move
<1>5. Addrs' = (IF write_fire THEN Tail(Addrs) ELSE Addrs)
                 \o (IF write = NoWrite THEN <<>> ELSE <<write.addr>>)
  <2>1. /\ aw_seen' = (awvalid \/ (aw_seen /\ ~write_fire))
        /\ awaddr_latched' = IF awvalid THEN Head(aw_q) ELSE awaddr_latched
    BY <1>3, <1>4 DEF Move, Clock, RegsClock, AddressChannel, awready
  <2>2. aw_q' = Queue(aw_q, awvalid, write, write.addr)
    BY DEF Move, Clock, HostClock
  <2>3. write # NoWrite => write.addr \in Addresses
    BY <1>1
  <2> QED
    <3>1. Addrs = Undelivered(aw_seen, awaddr_latched, aw_q)
      BY DEF Addrs
    <3>2. Addrs' = Undelivered(aw_seen', awaddr_latched', Queue(aw_q, awvalid, write, write.addr))
      BY <2>2 DEF Addrs
    <3>3. aw_seen' \in BOOLEAN /\ (aw_seen' <=> awvalid \/ (aw_seen /\ ~write_fire))
      BY <1>3, <2>1
    <3>4. ChannelMoves(Addresses, aw_seen, awaddr_latched, aw_q, awvalid, write_fire, write, write.addr,
                       Addrs, aw_seen', awaddr_latched', Addrs')
      BY <1>3, <1>4, <2>1, <2>3, <3>1, <3>2, <3>3 DEF ChannelMoves
    <3> QED
      BY ONLY <3>4, ChannelStep, ZenonT(60)
<1>6. WriteData' = (IF write_fire THEN Tail(WriteData) ELSE WriteData)
                     \o (IF write = NoWrite THEN <<>> ELSE <<write.word>>)
  <2>1. /\ w_seen' = (wvalid \/ (w_seen /\ ~write_fire))
        /\ wdata_latched' = IF wvalid THEN Head(w_q) ELSE wdata_latched
    BY <1>3, <1>4 DEF Move, Clock, RegsClock, DataChannel, wready
  <2>2. w_q' = Queue(w_q, wvalid, write, write.word)
    BY DEF Move, Clock, HostClock
  <2>3. write # NoWrite => write.word \in Words
    BY <1>1
  <2> QED
    <3>1. WriteData = Undelivered(w_seen, wdata_latched, w_q)
      BY DEF WriteData
    <3>2. WriteData' = Undelivered(w_seen', wdata_latched', Queue(w_q, wvalid, write, write.word))
      BY <2>2 DEF WriteData
    <3>3. w_seen' \in BOOLEAN /\ (w_seen' <=> wvalid \/ (w_seen /\ ~write_fire))
      BY <1>3, <2>1
    <3>4. ChannelMoves(Words, w_seen, wdata_latched, w_q, wvalid, write_fire, write, write.word,
                       WriteData, w_seen', wdata_latched', WriteData')
      BY <1>3, <1>4, <2>1, <2>3, <3>1, <3>2, <3>3 DEF ChannelMoves
    <3> QED
      BY ONLY <3>4, ChannelStep, ZenonT(60)
<1>7. /\ Addrs \in Seq(Addresses) /\ WriteData \in Seq(Words) /\ Len(Addrs) = Len(WriteData)
      /\ Undone = Zip(Addrs, WriteData) /\ Undone' = Zip(Addrs', WriteData')
  BY Backlog, BacklogNext
<1>8. write_fire => /\ Addrs # <<>> /\ Head(Addrs) = awaddr_latched
                    /\ WriteData # <<>> /\ Head(WriteData) = wdata_latched
  <2>1. aw_seen => /\ Undelivered(aw_seen, awaddr_latched, aw_q) # <<>>
                   /\ Head(Undelivered(aw_seen, awaddr_latched, aw_q)) = awaddr_latched
    <3>1. aw_seen \in BOOLEAN /\ awaddr_latched \in Addresses /\ aw_q \in Seq(Addresses)
      BY <1>3
    <3> QED
      BY ONLY <3>1, UndeliveredType, ZenonT(60)
  <2>2. w_seen => /\ Undelivered(w_seen, wdata_latched, w_q) # <<>>
                  /\ Head(Undelivered(w_seen, wdata_latched, w_q)) = wdata_latched
    <3>1. w_seen \in BOOLEAN /\ wdata_latched \in Words /\ w_q \in Seq(Words)
      BY <1>3
    <3> QED
      BY ONLY <3>1, UndeliveredType, ZenonT(60)
  <2> QED
    BY <1>3, <2>1, <2>2 DEF Addrs, WriteData
<1>9. Undone' = (IF write_fire THEN Tail(Undone) ELSE Undone) \o arrived
  <2>1. write_fire => Addrs # <<>>
    BY <1>8
  <2>2. ZipMoves(Addrs, WriteData, Undone, write_fire, write, Addrs', WriteData', Undone')
    BY <1>1, <1>3, <1>5, <1>6, <1>7, <2>1, Zenon DEF ZipMoves
  <2> QED
    BY ONLY <2>2, ZipStep DEF arrived
<1>10. write_fire => Undone # <<>> /\ Head(Undone) = Write(awaddr_latched, wdata_latched)
  BY <1>7, <1>8, ZipTail
<1>11. (IF bvalid' THEN 1 ELSE 0) =
         (IF bvalid THEN 1 ELSE 0) + (IF write_fire THEN 1 ELSE 0) - (IF bready THEN 1 ELSE 0)
  BY <1>3, <1>4 DEF Move, Clock, RegsClock, WriteResponse
<1>12. /\ reg' = IF write_fire THEN Stored(reg, awaddr_latched, wdata_latched) ELSE reg
       /\ o_start_pulse' = (write_fire /\ StartsRun(awaddr_latched, wdata_latched))
       /\ done_sticky' = (o_done \/ (done_sticky /\
                            ~(write_fire /\ ClearsDone(awaddr_latched, wdata_latched))))
  BY DEF Move, Clock, RegsClock, PerformWrite, DoneFlag
<1>13. RF!RegisterFileStep(arrived, write_fire, bready, o_done)
  <2> DEFINE w == Head(Undone)
  <2>1. write_fire => w.addr = awaddr_latched /\ w.word = wdata_latched
    BY <1>10 DEF Write
  <2> HIDE DEF w, arrived
  <2>2. reg' = IF write_fire THEN Stored(reg, w.addr, w.word) ELSE reg
    BY <1>12, <2>1
  <2>3. o_start_pulse' = (write_fire /\ StartsRun(w.addr, w.word))
    BY <1>3, <1>12, <2>1
  <2>4. done_sticky' = (o_done \/ (done_sticky /\ ~(write_fire /\ ClearsDone(w.addr, w.word))))
    BY <1>3, <1>12, <2>1
  <2>5. bready => (IF bvalid THEN 1 ELSE 0) > 0
    BY <1>4
  <2>6. write_fire => Undone # <<>>
    BY <1>10
  <2> QED
    BY <1>9, <1>11, <2>2, <2>3, <2>4, <2>5, <2>6 DEF RF!RegisterFileStep, w
<1> QED
  BY <1>2, <1>3, <1>4, <1>13

\* Although address and data come over channels of their own, each with a latch, every write
\* takes effect exactly once, in order, with its own data, and is answered after it has: the
\* register file behind the bus is the one of RegisterFile, for every set of registers,
\* every master and any number of writes under way.
THEOREM RegisterFileImplemented ==
  Spec => ImplementsRegisterFile
<1>1. ControlInv /\ ControlInv' /\ Next => RF!RegisterFileNext
  <2> SUFFICES ASSUME ControlInv, ControlInv', Next PROVE RF!RegisterFileNext
    OBVIOUS
  <2>1. PICK write, read, awvalid, wvalid, bready, arvalid, rready, next :
          Move(write, read, awvalid, wvalid, bready, arvalid, rready, next)
    BY NextMove
  <2>2. ControlTypeOK /\ Accounting /\ ControlTypeOK' /\ Accounting'
    BY DEF ControlInv
  <2> QED
    BY <2>1, <2>2, RegisterFileMove DEF RF!RegisterFileNext
<1>2. UNCHANGED vars => UNCHANGED RF!registerFileVars
  BY DEF vars, regsVars, writeChannelVars, hostVars, RF!registerFileVars, Undone
<1> QED
  BY <1>1, <1>2, RegisterFileStart, ControlInvariant, PTL
     DEF Spec, ImplementsRegisterFile, RF!RegisterFileSpec
=============================================================================
