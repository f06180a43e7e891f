------------------------- MODULE ReadChannelProofs -------------------------
(***************************************************************************)
(* Reader and memory step in agreement, whatever commands are offered and  *)
(* whenever the handshakes come: lemmas about one edge of ReadChannel, for *)
(* the proofs about the systems it is part of.                             *)
(***************************************************************************)
EXTENDS ReadChannel, TLAPS

\* The types and the agreement on bursts, inductive together.
ChannelInv ==
  /\ ReaderTypeOK
  /\ rd_left \in Nat
  /\ rd_addr \in Nat
  /\ rd_run \in Nat
  /\ BurstAgree
  /\ MaximalBursts

\* The inputs of an edge.  A memory with nothing to return keeps rvalid low.
ChannelInputs(cmd, rvalid, tag) ==
  /\ cmd.addr \in Nat
  /\ cmd.len \in Nat
  /\ tag \in Nat
  /\ rvalid => rd_left > 0

-----------------------------------------------------------------------------
\* A clipped burst is not empty, fits in a burst, and does not exceed the command.
LEMMA ClipBurstBounds ==
  ASSUME NEW beats \in Nat \ {0}
  PROVE  /\ ClipBurst(beats) \in 1 .. MAX_BURST_BEATS
         /\ ClipBurst(beats) \in 1 .. beats
         /\ ClipBurst(beats) - 1 \in 0 .. MAX_BURST_BEATS - 1
BY BurstAssumption DEF ClipBurst

-----------------------------------------------------------------------------
\* Initially nothing is in flight.
LEMMA ChannelInit == ReaderInit /\ ReadSlaveInit => ChannelInv
<1> SUFFICES ASSUME ReaderInit, ReadSlaveInit PROVE ChannelInv
  OBVIOUS
<1>1. /\ ar_state \in {"AR_IDLE", "AR_SEND", "AR_STREAM"}
      /\ ar_addr_r \in Nat
      /\ ar_len_r \in 0 .. MAX_BURST_BEATS - 1
      /\ total_beats_left_r \in Nat
      /\ burst_beats_r \in 0 .. MAX_BURST_BEATS
  BY BurstAssumption DEF ReaderInit
<1>2. rd_error \in BOOLEAN
  BY Zenon DEF ReaderInit
<1>3. rd_left \in Nat /\ rd_addr \in Nat /\ rd_run \in Nat
  BY DEF ReadSlaveInit
<1>4. BurstAgree /\ MaximalBursts
  BY DEF ReaderInit, ReadSlaveInit, BurstAgree, MaximalBursts
<1> QED
  BY <1>1, <1>2, <1>3, <1>4 DEF ChannelInv, ReaderTypeOK

\* In a state of the invariant the memory has data only for a streaming reader.
LEMMA DataOnlyWhileStreaming ==
  ASSUME ChannelInv, rd_left > 0
  PROVE  ar_state = "AR_STREAM" /\ rd_left = burst_beats_r
BY DEF ChannelInv, BurstAgree

\* The error flag is a Boolean after every edge.
LEMMA ErrorStep ==
  ASSUME NEW rvalid, NEW outReady, NEW rerr, ReaderError(rvalid, outReady, rerr)
  PROVE  rd_error' \in BOOLEAN
BY Zenon DEF ReaderError

\* AcceptCmd puts a whole command in front of the reader and nothing in the memory.
LEMMA AcceptStep ==
  ASSUME ChannelInv, NEW cmd, NEW arready, NEW rvalid, NEW rerr, NEW outReady, NEW tag,
         ChannelInputs(cmd, rvalid, tag),
         ReadChannelClock(cmd, arready, rvalid, rerr, outReady, tag),
         AcceptCmd(cmd.valid, cmd.addr, cmd.len)
  PROVE  ChannelInv' /\ ~rvalid /\ UNCHANGED <<rd_left, rd_addr>>
<1>1. cmd.addr \in Nat /\ cmd.len + 1 \in Nat \ {0}
  BY DEF ChannelInputs
<1>2. ar_state = "AR_IDLE" /\ ~rvalid
  BY DataOnlyWhileStreaming DEF AcceptCmd, rd_cmd_ready, ChannelInputs
<1>3. UNCHANGED <<rd_left, rd_addr, rd_run>>
  BY <1>2 DEF ReadChannelClock, arvalid, ReadSlaveClock, readSlaveVars
<1>4. /\ ClipBurst(cmd.len + 1) \in 1 .. MAX_BURST_BEATS
      /\ ClipBurst(cmd.len + 1) \in 1 .. cmd.len + 1
      /\ ClipBurst(cmd.len + 1) - 1 \in 0 .. MAX_BURST_BEATS - 1
  BY <1>1, ClipBurstBounds
<1>5. rd_error' \in BOOLEAN
  BY ErrorStep DEF ReadChannelClock, ReaderClock
<1>6. /\ ar_state' = "AR_SEND"
      /\ ar_addr_r' = cmd.addr
      /\ ar_len_r' = ClipBurst(cmd.len + 1) - 1
      /\ total_beats_left_r' = cmd.len + 1
      /\ burst_beats_r' = ClipBurst(cmd.len + 1)
  BY DEF AcceptCmd
<1>7. ReaderTypeOK'
  BY <1>1, <1>4, <1>5, <1>6 DEF ReaderTypeOK
<1>8. BurstAgree'
  BY <1>1, <1>2, <1>3, <1>4, <1>6, BurstAssumption DEF ChannelInv, BurstAgree
<1>9. MaximalBursts'
  BY <1>1, <1>4, <1>6, BurstAssumption DEF MaximalBursts, ClipBurst
<1> QED
  BY <1>2, <1>3, <1>7, <1>8, <1>9 DEF ChannelInv

\* SendAr hands the burst to the memory.
LEMMA SendStep ==
  ASSUME ChannelInv, NEW cmd, NEW arready, NEW rvalid, NEW rerr, NEW outReady, NEW tag,
         ChannelInputs(cmd, rvalid, tag),
         ReadChannelClock(cmd, arready, rvalid, rerr, outReady, tag),
         SendAr(arready)
  PROVE  ChannelInv' /\ ~rvalid /\ rd_addr' = ar_addr_r
<1>1. ar_state = "AR_SEND" /\ ~rvalid
  BY DataOnlyWhileStreaming DEF SendAr, arvalid, ChannelInputs
<1>2. /\ ar_state' = "AR_STREAM"
      /\ UNCHANGED <<ar_addr_r, ar_len_r, total_beats_left_r, burst_beats_r>>
  BY DEF SendAr
<1>3. rd_left' = ar_len_r + 1 /\ rd_addr' = ar_addr_r /\ rd_run' = tag
  BY <1>1 DEF ReadChannelClock, SendAr, arvalid, ReadSlaveClock, ReadAddress
<1>4. rd_error' \in BOOLEAN
  BY ErrorStep DEF ReadChannelClock, ReaderClock
<1>5. ReaderTypeOK'
  BY <1>2, <1>4 DEF ChannelInv, ReaderTypeOK
<1>6. rd_left' \in Nat /\ rd_addr' \in Nat /\ rd_run' \in Nat
  BY <1>3, BurstAssumption DEF ChannelInv, ReaderTypeOK, ChannelInputs
<1>7. BurstAgree'
  BY <1>1, <1>2, <1>3, BurstAssumption DEF ChannelInv, ReaderTypeOK, BurstAgree
<1>8. MaximalBursts'
  BY <1>2 DEF MaximalBursts
<1> QED
  BY <1>1, <1>3, <1>5, <1>6, <1>7, <1>8 DEF ChannelInv

\* A beat taken is one beat less for the reader and for the memory; rd_addr runs on,
\* to where the next burst starts if this was the last beat of one.
LEMMA BeatStep ==
  ASSUME ChannelInv, NEW cmd, NEW arready, NEW rvalid, NEW rerr, NEW outReady, NEW tag,
         ChannelInputs(cmd, rvalid, tag),
         ReadChannelClock(cmd, arready, rvalid, rerr, outReady, tag),
         StreamBeat(rvalid, outReady)
  PROVE  /\ ChannelInv'
         /\ rd_addr' = rd_addr + 1
         /\ total_beats_left_r \in Nat \ {0}
         /\ total_beats_left_r = 1 <=> ar_state' = "AR_IDLE"
         /\ ar_state' = "AR_SEND" => ar_addr_r' = rd_addr + 1
<1>1. /\ ar_state = "AR_STREAM" /\ rvalid /\ outReady
      /\ total_beats_left_r' = total_beats_left_r - 1
  BY DEF StreamBeat
<1>2. /\ rd_left' = rd_left - 1
      /\ rd_addr' = rd_addr + 1
      /\ rd_run' = rd_run
  BY <1>1 DEF ReadChannelClock, arvalid, ReadSlaveClock, ReadData
<1>3. rd_error' \in BOOLEAN
  BY ErrorStep DEF ReadChannelClock, ReaderClock
<1>4. /\ total_beats_left_r \in Nat \ {0}
      /\ burst_beats_r \in 1 .. total_beats_left_r
      /\ burst_beats_r \in 1 .. MAX_BURST_BEATS
      /\ rd_left = burst_beats_r
      /\ rd_addr + burst_beats_r = ar_addr_r + ar_len_r + 1
      /\ rd_addr \in Nat /\ ar_addr_r \in Nat
      /\ ar_len_r \in 0 .. MAX_BURST_BEATS - 1
  BY <1>1, BurstAssumption DEF ChannelInv, ReaderTypeOK, BurstAgree
<1>5. rd_left' \in Nat /\ rd_addr' \in Nat /\ rd_run' \in Nat
  BY <1>2, <1>4, BurstAssumption DEF ChannelInv
<1>6. CASE LastBeat
  <2>1. /\ total_beats_left_r = 1
        /\ ar_state' = "AR_IDLE"
        /\ burst_beats_r' = 0
        /\ UNCHANGED <<ar_addr_r, ar_len_r>>
    BY <1>6 DEF LastBeat
  <2>2. ReaderTypeOK'
    BY <1>1, <1>3, <1>4, <2>1, BurstAssumption DEF ReaderTypeOK
  <2>3. BurstAgree' /\ MaximalBursts'
    BY <1>1, <1>2, <1>4, <2>1 DEF BurstAgree, MaximalBursts
  <2> QED
    BY <1>2, <1>4, <1>5, <2>1, <2>2, <2>3 DEF ChannelInv
<1>7. CASE NextBurst
  <2>1. /\ total_beats_left_r # 1
        /\ burst_beats_r = 1
        /\ ar_state' = "AR_SEND"
        /\ ar_addr_r' = ar_addr_r + ar_len_r + 1
        /\ burst_beats_r' = ClipBurst(total_beats_left_r - 1)
        /\ ar_len_r' = ClipBurst(total_beats_left_r - 1) - 1
    BY <1>7 DEF NextBurst
  <2>2. total_beats_left_r - 1 \in Nat \ {0}
    BY <1>4, <2>1
  <2>3. /\ ClipBurst(total_beats_left_r - 1) \in 1 .. MAX_BURST_BEATS
        /\ ClipBurst(total_beats_left_r - 1) \in 1 .. total_beats_left_r - 1
        /\ ClipBurst(total_beats_left_r - 1) - 1 \in 0 .. MAX_BURST_BEATS - 1
    BY <2>2, ClipBurstBounds
  <2>4. ReaderTypeOK'
    BY <1>1, <1>3, <1>4, <2>1, <2>2, <2>3, BurstAssumption DEF ReaderTypeOK
  <2>5. BurstAgree'
    BY <1>1, <1>2, <1>4, <2>1, <2>2, <2>3, BurstAssumption DEF BurstAgree
  <2>6. MaximalBursts'
    BY <1>1, <2>1, <2>3, BurstAssumption DEF MaximalBursts, ClipBurst
  <2>7. ar_addr_r' = rd_addr + 1
    BY <1>4, <2>1
  <2> QED
    BY <1>2, <1>4, <1>5, <2>1, <2>4, <2>5, <2>6, <2>7 DEF ChannelInv
<1>8. CASE InnerBeat
  <2>1. /\ total_beats_left_r # 1
        /\ burst_beats_r # 1
        /\ burst_beats_r' = burst_beats_r - 1
        /\ UNCHANGED <<ar_state, ar_addr_r, ar_len_r>>
    BY <1>8 DEF InnerBeat
  <2>2. ReaderTypeOK'
    BY <1>1, <1>3, <1>4, <2>1, BurstAssumption DEF ReaderTypeOK
  <2>3. BurstAgree' /\ MaximalBursts'
    BY <1>1, <1>2, <1>4, <2>1, BurstAssumption DEF BurstAgree, MaximalBursts
  <2> QED
    BY <1>1, <1>2, <1>4, <1>5, <2>1, <2>2, <2>3 DEF ChannelInv
<1> QED
  BY <1>6, <1>7, <1>8 DEF StreamBeat

\* Without a handshake nothing moves but, perhaps, the error flag.
LEMMA HoldStep ==
  ASSUME ChannelInv, NEW cmd, NEW arready, NEW rvalid, NEW rerr, NEW outReady, NEW tag,
         ChannelInputs(cmd, rvalid, tag),
         ReadChannelClock(cmd, arready, rvalid, rerr, outReady, tag),
         ReaderHold(cmd.valid, arready, rvalid, outReady)
  PROVE  ChannelInv' /\ ~(rvalid /\ outReady) /\ UNCHANGED rd_addr
<1>1. UNCHANGED <<ar_state, ar_addr_r, ar_len_r, total_beats_left_r, burst_beats_r>>
  BY DEF ReaderHold
<1>2. ~(arvalid /\ arready) /\ ~(rvalid /\ outReady)
  BY DataOnlyWhileStreaming DEF ReaderHold, arvalid, ChannelInputs
<1>3. UNCHANGED <<rd_left, rd_addr, rd_run>>
  BY <1>2 DEF ReadChannelClock, ReadSlaveClock, readSlaveVars
<1>4. rd_error' \in BOOLEAN
  BY ErrorStep DEF ReadChannelClock, ReaderClock
<1>5. ReaderTypeOK'
  BY <1>1, <1>4 DEF ChannelInv, ReaderTypeOK
<1>6. BurstAgree' /\ MaximalBursts'
  BY <1>1, <1>3 DEF ChannelInv, BurstAgree, MaximalBursts, ClipBurst
<1> QED
  BY <1>2, <1>3, <1>5, <1>6 DEF ChannelInv

\* Every edge keeps the invariant.
LEMMA ChannelStep ==
  ASSUME ChannelInv, NEW cmd, NEW arready, NEW rvalid, NEW rerr, NEW outReady, NEW tag,
         ChannelInputs(cmd, rvalid, tag),
         ReadChannelClock(cmd, arready, rvalid, rerr, outReady, tag)
  PROVE  ChannelInv'
<1>1. \/ AcceptCmd(cmd.valid, cmd.addr, cmd.len)
      \/ SendAr(arready)
      \/ StreamBeat(rvalid, outReady)
      \/ ReaderHold(cmd.valid, arready, rvalid, outReady)
  BY DEF ReadChannelClock, ReaderClock
<1> QED
  BY <1>1, AcceptStep, SendStep, BeatStep, HoldStep

\* Nor is it lost when nothing moves.
LEMMA ChannelStutter == ChannelInv /\ UNCHANGED channelVars => ChannelInv'
BY DEF channelVars, readerVars, readSlaveVars, ChannelInv, ReaderTypeOK, BurstAgree,
       MaximalBursts, ClipBurst
=============================================================================
