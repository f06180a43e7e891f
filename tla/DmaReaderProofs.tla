-------------------------- MODULE DmaReaderProofs --------------------------
(***************************************************************************)
(* For every burst limit, every set of command addresses and lengths and   *)
(* every timing of client and memory: the read DMA and the memory agree on *)
(* where a burst stands, bursts are maximal, and the client sees a         *)
(* BeatStream.                                                             *)
(***************************************************************************)
EXTENDS DmaReaderSystem, ReadChannelProofs

\* Offers carry addresses and lengths of the declared sets.
LEMMA OfferTypes ==
  ASSUME NEW offer \in Offers
  PROVE  offer.valid \in BOOLEAN /\ offer.addr \in Nat /\ offer.len \in Nat
<1>1. CASE offer = NoOffer
  BY <1>1 DEF NoOffer
<1>2. CASE offer \in [valid : {TRUE}, addr : ADDRS, len : LENS]
  BY <1>2, CommandAssumption
<1> QED
  BY <1>1, <1>2 DEF Offers

\* What the environment does at an edge is what the channel lemmas ask of it.
LEMMA EdgeInputs ==
  ASSUME NEW offer \in Offers, NEW rvalid, rvalid => rd_left > 0
  PROVE  ChannelInputs(offer, rvalid, 0)
BY OfferTypes DEF ChannelInputs

\* One edge, seen by the client: a request, a beat, or nothing.
LEMMA StreamStep ==
  ASSUME ChannelInv, NEW offer, NEW arready, NEW rvalid, NEW rerr, NEW outReady,
         ChannelInputs(offer, rvalid, 0),
         Edge(offer, arready, rvalid, rerr, outReady)
  PROVE  Stream!StreamNext \/ UNCHANGED Stream!streamVars
<1> USE DEF Edge
<1>1. CASE AcceptCmd(offer.valid, offer.addr, offer.len)
  <2>1. ~rvalid
    BY <1>1, AcceptStep
  <2>2. /\ ar_state = "AR_IDLE" /\ ar_state' = "AR_SEND"
        /\ ar_addr_r' = offer.addr /\ total_beats_left_r' = offer.len + 1
    BY <1>1 DEF AcceptCmd, rd_cmd_ready
  <2>3. total_beats_left_r = 0 /\ taken' = taken
    BY <2>1, <2>2 DEF ChannelInv, BurstAgree
  <2>4. Stream!Request
    BY <2>2, <2>3 DEF Stream!Request, ChannelInputs
  <2> QED
    BY <2>4 DEF Stream!StreamNext
<1>2. CASE SendAr(arready)
  <2>1. ~rvalid /\ rd_addr' = ar_addr_r
    BY <1>2, SendStep
  <2>2. /\ ar_state = "AR_SEND" /\ ar_state' = "AR_STREAM"
        /\ UNCHANGED <<total_beats_left_r, taken>>
    BY <1>2, <2>1 DEF SendAr, arvalid
  <2> QED
    BY <2>1, <2>2 DEF Stream!streamVars
<1>3. CASE StreamBeat(rvalid, outReady)
  <2>1. /\ ar_state = "AR_STREAM" /\ rvalid /\ outReady
        /\ total_beats_left_r' = total_beats_left_r - 1
        /\ taken' = [addr |-> rd_addr, last |-> total_beats_left_r = 1]
    BY <1>3 DEF StreamBeat, out_last
  <2>2. /\ rd_addr' = rd_addr + 1
        /\ total_beats_left_r \in Nat \ {0}
        /\ total_beats_left_r = 1 <=> ar_state' = "AR_IDLE"
        /\ ar_state' = "AR_SEND" => ar_addr_r' = rd_addr + 1
    BY <1>3, BeatStep
  <2>3. ar_state' \in {"AR_IDLE", "AR_SEND", "AR_STREAM"}
    BY <1>3, BeatStep DEF ChannelInv, ReaderTypeOK
  <2>4. Stream!Deliver
    BY <2>1, <2>2, <2>3 DEF Stream!Deliver
  <2> QED
    BY <2>4 DEF Stream!StreamNext
<1>4. CASE ReaderHold(offer.valid, arready, rvalid, outReady)
  <2>1. UNCHANGED <<ar_state, ar_addr_r, total_beats_left_r, rd_addr, taken>>
    BY <1>4, HoldStep DEF ReaderHold
  <2> QED
    BY <2>1 DEF Stream!streamVars
<1> QED
  BY <1>1, <1>2, <1>3, <1>4 DEF ReadChannelClock, ReaderClock

\* Initially the invariant holds.
LEMMA InitInv == Init => ChannelInv
BY ChannelInit DEF Init

\* Every step keeps it and is a step of the stream.
LEMMA NextStep ==
  ChannelInv /\ [Next]_vars => ChannelInv' /\ [Stream!StreamNext]_(Stream!streamVars)
<1> SUFFICES ASSUME ChannelInv, [Next]_vars
             PROVE  ChannelInv' /\ [Stream!StreamNext]_(Stream!streamVars)
  OBVIOUS
<1>1. CASE Next
  <2>1. PICK offer \in Offers, arready \in BOOLEAN, rvalid \in BOOLEAN,
             rerr \in BOOLEAN, outReady \in BOOLEAN :
          /\ rvalid => rd_left > 0
          /\ Edge(offer, arready, rvalid, rerr, outReady)
    BY <1>1 DEF Next
  <2>2. ChannelInputs(offer, rvalid, 0)
    BY <2>1, EdgeInputs
  <2>3. ReadChannelClock(offer, arready, rvalid, rerr, outReady, 0)
    BY <2>1 DEF Edge
  <2>4. ChannelInv'
    BY <2>2, <2>3, ChannelStep
  <2>5. Stream!StreamNext \/ UNCHANGED Stream!streamVars
    BY <2>1, <2>2, StreamStep
  <2> QED
    BY <2>4, <2>5
<1>2. CASE UNCHANGED vars
  <2>1. UNCHANGED channelVars /\ UNCHANGED taken
    BY <1>2 DEF vars
  <2>2. UNCHANGED Stream!streamVars
    BY <2>1 DEF channelVars, readerVars, readSlaveVars, Stream!streamVars
  <2> QED
    BY <2>1, <2>2, ChannelStutter
<1> QED
  BY <1>1, <1>2

-----------------------------------------------------------------------------
\* The registers of the read DMA keep their types, whatever client and memory do.
THEOREM ReaderTypeCorrect == Spec => []ReaderTypeOK
<1>1. ChannelInv => ReaderTypeOK
  BY DEF ChannelInv
<1> QED
  BY InitInv, NextStep, <1>1, PTL DEF Spec

\* Reader and memory never disagree on how much of a burst is left or where the next
\* one starts.
THEOREM BurstAgreement == Spec => []BurstAgree
<1>1. ChannelInv => BurstAgree
  BY DEF ChannelInv
<1> QED
  BY InitInv, NextStep, <1>1, PTL DEF Spec

\* No burst is shorter than the limit and the command allow.
THEOREM BurstsAreMaximal == Spec => []MaximalBursts
<1>1. ChannelInv => MaximalBursts
  BY DEF ChannelInv
<1> QED
  BY InitInv, NextStep, <1>1, PTL DEF Spec

\* The read DMA implements BeatStream: for every burst limit and all commands the
\* client gets exactly the beats it asked for, in order, with the last one marked.
THEOREM ReaderImplementsBeatStream == Spec => ImplementsBeatStream
<1>1. Init => Stream!StreamInit
  BY DEF Init, ReaderInit, Stream!StreamInit, Stream!Nothing
<1> QED
  BY InitInv, NextStep, <1>1, PTL DEF Spec, ImplementsBeatStream, Stream!StreamSpec
=============================================================================
