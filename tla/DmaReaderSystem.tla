-------------------------- MODULE DmaReaderSystem --------------------------
(***************************************************************************)
(* The read DMA between a client and a memory that do as they like: the    *)
(* client offers any command and takes data when it is ready, the memory   *)
(* delays every handshake arbitrarily.  BeatStream is what the client may  *)
(* count on.                                                               *)
(***************************************************************************)
EXTENDS ReadChannel

CONSTANTS
  ADDRS,    \* addresses the client asks for
  LENS      \* command lengths, in beats - 1

ASSUME CommandAssumption == ADDRS \subseteq Nat /\ LENS \subseteq Nat

VARIABLE taken      \* the last beat the client took: [addr, last]

vars == <<channelVars, taken>>

Init ==
  /\ ReaderInit
  /\ ReadSlaveInit
  /\ taken = [addr |-> 0, last |-> FALSE]

\* One clock edge: what the client offers, and the four handshake inputs.
Edge(offer, arready, rvalid, rerr, outReady) ==
  /\ ReadChannelClock(offer, arready, rvalid, rerr, outReady, 0)
  /\ taken' = IF rvalid /\ outReady THEN [addr |-> rd_addr, last |-> out_last] ELSE taken

NoOffer == [valid |-> FALSE, addr |-> 0, len |-> 0]
Offers == {NoOffer} \cup [valid : {TRUE}, addr : ADDRS, len : LENS]

\* A memory that has nothing to return keeps rvalid low.
Next ==
  \E offer \in Offers, arready, rvalid, rerr, outReady \in BOOLEAN :
    /\ rvalid => rd_left > 0
    /\ Edge(offer, arready, rvalid, rerr, outReady)

Spec == Init /\ [][Next]_vars

\* The memory accepts every address in the end, and does not for ever miss the client
\* with its data.
AddressAccepted == arvalid /\ Edge(NoOffer, TRUE, FALSE, FALSE, FALSE)
BeatTaken == rd_left > 0 /\ Edge(NoOffer, FALSE, TRUE, FALSE, TRUE)

FairSpec == Spec /\ WF_vars(AddressAccepted) /\ WF_vars(BeatTaken)

-----------------------------------------------------------------------------
(* Properties, with BurstAgree and MaximalBursts of ReadChannel.           *)

\* The client's view is BeatStream: splitting a command into bursts neither skips,
\* repeats nor misorders a beat, and out_last marks the end of the command.
Stream == INSTANCE BeatStream WITH
            left <- total_beats_left_r,
            next <- CASE ar_state = "AR_IDLE"   -> 0
                      [] ar_state = "AR_SEND"   -> ar_addr_r
                      [] ar_state = "AR_STREAM" -> rd_addr
ImplementsBeatStream == Stream!StreamSpec

\* A command that was accepted is answered completely.
CommandCompletes == ar_state # "AR_IDLE" ~> ar_state = "AR_IDLE"
=============================================================================
