---------------------------- MODULE TiledKernel ----------------------------
(* The HLS attention kernel (run_attention_tiled_hls). Tiles of Q rows are  *)
(* taken one after the other; for each, the tiles of K and V go through two *)
(* banks, ping and pong, the next one loaded into the bank the current one  *)
(* is not in. A tile is computed in batches of row pairs by two processes   *)
(* that a FIFO connects: one writes a score packet per row and key, the     *)
(* other takes the packets and feeds the online softmax of their rows.      *)
(*                                                                          *)
(* On the FPGA the two run at once and the FIFO holds StreamDepth packets;  *)
(* in a software build hls::stream has no limit and the consumer is called  *)
(* when the producer has returned.                                          *)
EXTENDS HlsAttention

CONSTANTS StreamDepth   \* depth of score_stream: 64

ASSUME StreamDepthAssumption == StreamDepth \in Nat \ {0}

VARIABLES
  kpc,                            \* where the kernel stands
  call, dataflow,                 \* its arguments; TRUE on the FPGA
  q_start, k_start, active_ping,  \* the loops over tiles
  q_tile, kv_tile, rows,          \* tiles and row contexts on chip
  batch_idx, gen, popped,         \* batch, producer position, packets taken
  score_stream,
  out, prof                       \* memory behind o, profile counters

tileVars   == <<q_start, k_start, active_ping, q_tile, kv_tile>>
batchVars  == <<batch_idx, gen, popped, score_stream>>
kernelVars == <<kpc, call, dataflow, tileVars, rows, batchVars, out, prof>>

TileRows == 0 .. TileQ - 1
Banks == {"ping", "pong"}
NoPacket == [kj |-> 0, slot |-> 0, lane |-> 0]

KernelInit ==
  /\ kpc = "idle"
  /\ call = [seq_len |-> 0]
  /\ dataflow = FALSE
  /\ q_start = 0 /\ k_start = 0
  /\ active_ping = TRUE
  /\ q_tile = [qi \in TileRows |-> [d \in Dims |-> 0]]
  /\ kv_tile = [b \in Banks |-> [k |-> q_tile, v |-> q_tile]]
  /\ rows = [qi \in TileRows |-> FreshRow(0)]
  /\ batch_idx = 0 /\ gen = NoPacket /\ popped = 0
  /\ score_stream = <<>>
  /\ out = <<>>
  /\ prof = ClearedProfile

-----------------------------------------------------------------------------
(* The loop variables of the source.                                        *)

Smaller(a, b) == IF a < b THEN a ELSE b
valid_q == Smaller(TileQ, call.seq_len - q_start)
ValidK(start) == Smaller(TileK, call.seq_len - start)
valid_k == ValidK(k_start)
stride == StrideElems(call)

\* A mutant of batch_base: the batches are counted in row pairs.
batch_base_in_pairs == batch_idx * SoftmaxCtxs
batch_base == batch_idx * QPairBatchRows
batch_rows == IF valid_q > batch_base THEN Smaller(QPairBatchRows, valid_q - batch_base) ELSE 0
pair_count == (batch_rows + RowPar - 1) \div RowPar

ActiveBank == IF active_ping THEN "ping" ELSE "pong"
\* A mutant of OtherBank: the next tile is loaded over the current one.
SameBank   == IF active_ping THEN "ping" ELSE "pong"
OtherBank  == IF active_ping THEN "pong" ELSE "ping"

LoadedKV(start) ==
  [k |-> [kj \in 0 .. TileK - 1 |-> Row(call.k, start + kj, stride, kj < ValidK(start))],
   v |-> [kj \in 0 .. TileK - 1 |-> Row(call.v, start + kj, stride, kj < ValidK(start))]]

\* The counters of one more iteration over a tile of valid keys.
Iteration(p, valid) ==
  [p EXCEPT !.kv_tile_iters = @ + 1, !.valid_score_evals = @ + valid_q * valid,
            !.load_kv_elems = @ + 2 * valid * HeadDim]

-----------------------------------------------------------------------------
(* The loops over tiles.                                                    *)

\* A call with the arguments c and the memory o; on_fpga as for dataflow.
StartKernel(c, o, on_fpga) ==
  /\ kpc = "idle"
  /\ kpc' = IF c.null THEN "done" ELSE "q_tile"
  /\ call' = [c EXCEPT !.seq_len = Clamped(@)]
  /\ dataflow' = on_fpga
  /\ q_start' = 0
  /\ out' = o
  /\ prof' = IF c.null THEN prof ELSE ClearedProfile
  /\ UNCHANGED <<k_start, active_ping, q_tile, kv_tile, rows, batchVars>>

LoadQTile ==
  /\ kpc = "q_tile" /\ q_start < call.seq_len
  /\ kpc' = "kv_tile"
  /\ q_tile' = [qi \in TileRows |-> Row(call.q, q_start + qi, stride, qi < valid_q)]
  /\ rows' = [qi \in TileRows |-> IF qi < valid_q THEN FreshRow(call.neg_large) ELSE rows[qi]]
  /\ active_ping' = TRUE
  /\ k_start' = 0
  /\ kv_tile' = [kv_tile EXCEPT !["ping"] = LoadedKV(0)]
  /\ batch_idx' = 0
  /\ prof' = Iteration([prof EXCEPT !.init_rows = @ + valid_q, !.load_q_elems = @ + valid_q * HeadDim],
                       ValidK(0))
  /\ UNCHANGED <<call, dataflow, q_start, gen, popped, score_stream, out>>

NextKVTile ==
  /\ kpc = "kv_tile" /\ batch_idx = QPairBatchCount
  /\ k_start' = k_start + TileK
  /\ batch_idx' = 0
  /\ IF k_start' < call.seq_len
     THEN /\ kv_tile' = [kv_tile EXCEPT ![OtherBank] = LoadedKV(k_start')]
          /\ active_ping' = ~active_ping
          /\ prof' = Iteration(prof, ValidK(k_start'))
          /\ kpc' = kpc
     ELSE /\ kpc' = "store"
          /\ UNCHANGED <<kv_tile, active_ping, prof>>
  /\ UNCHANGED <<call, dataflow, q_start, q_tile, rows, gen, popped, score_stream, out>>

StoreQTile ==
  /\ kpc = "store"
  /\ \E o_tile \in {Evaluated([qi \in 0 .. valid_q - 1 |-> o_normalize_block_row(rows[qi])])} :
       LET row(e) == e \div stride - q_start
       IN  out' = [e \in DOMAIN out |-> IF row(e) \in DOMAIN o_tile /\ e % stride \in Dims
                                        THEN o_tile[row(e)][e % stride] ELSE out[e]]
  /\ prof' = [prof EXCEPT !.normalize_rows = @ + valid_q, !.store_o_elems = @ + valid_q * HeadDim]
  /\ q_start' = q_start + TileQ
  /\ kpc' = "q_tile"
  /\ UNCHANGED <<call, dataflow, k_start, active_ping, q_tile, kv_tile, rows, batchVars>>

FinishKernel ==
  /\ kpc = "q_tile" /\ q_start >= call.seq_len
  /\ kpc' = "done"
  /\ prof' = [prof EXCEPT !.seq_len = call.seq_len, !.norm_rows = call.seq_len,
                          !.q_tiles = Tiles(call.seq_len, TileQ),
                          !.k_tiles = Tiles(call.seq_len, TileK),
                          !.score_evals = call.seq_len * call.seq_len]
  /\ UNCHANGED <<call, dataflow, tileVars, rows, batchVars, out>>

ReturnKernel == kpc = "done" /\ kpc' = "idle"

-----------------------------------------------------------------------------
(* One batch: producer, FIFO and consumer.                                  *)

StartBatch ==
  /\ kpc = "kv_tile" /\ batch_idx < QPairBatchCount
  /\ IF batch_base >= valid_q
     THEN batch_idx' = batch_idx + 1 /\ UNCHANGED <<kpc, gen, popped>>
     ELSE kpc' = "batch" /\ gen' = NoPacket /\ popped' = 0 /\ UNCHANGED batch_idx
  /\ UNCHANGED <<call, dataflow, tileVars, rows, score_stream, out, prof>>

\* The row of the packet at position p of the loops over keys and row pairs.
PacketRow(p) == batch_base + p.slot * RowPar + p.lane

\* The position after p: the other row of the pair if it is a valid one, the
\* next pair, the next key.
NextPacket(p) ==
  IF p.lane = 0 /\ PacketRow(p) + 1 < valid_q THEN [p EXCEPT !.lane = 1]
  ELSE IF p.slot + 1 < pair_count THEN [p EXCEPT !.slot = @ + 1, !.lane = 0]
  ELSE [kj |-> p.kj + 1, slot |-> 0, lane |-> 0]

GenerateScore ==
  /\ kpc = "batch" /\ gen.kj < valid_k
  /\ dataflow => Len(score_stream) < StreamDepth
  /\ LET qi == PacketRow(gen)
         dp == dotprod_q8_8(q_tile[qi], kv_tile[ActiveBank].k[gen.kj])
     IN  score_stream' = Append(score_stream,
           [qi |-> qi, kj |-> gen.kj, score |-> ScoreOf(call, dp, q_start + qi, k_start + gen.kj)])
  /\ gen' = NextPacket(gen)
  /\ UNCHANGED <<kpc, call, dataflow, tileVars, rows, batch_idx, popped, out, prof>>

ConsumeScore ==
  /\ kpc = "batch" /\ popped < batch_rows * valid_k /\ score_stream # <<>>
  /\ dataflow \/ gen.kj = valid_k
  /\ LET pkt == Head(score_stream)
     IN  rows' = [rows EXCEPT ![pkt.qi] =
                    online_softmax_ctx_acc_row_step(@, pkt.score, kv_tile[ActiveBank].v[pkt.kj])]
  /\ score_stream' = Tail(score_stream)
  /\ popped' = popped + 1
  /\ UNCHANGED <<kpc, call, dataflow, tileVars, batch_idx, gen, out, prof>>

EndBatch ==
  /\ kpc = "batch" /\ gen.kj = valid_k /\ popped = batch_rows * valid_k
  /\ kpc' = "kv_tile"
  /\ batch_idx' = batch_idx + 1
  /\ UNCHANGED <<call, dataflow, tileVars, rows, gen, popped, score_stream, out, prof>>

KernelStep ==
  \/ LoadQTile \/ NextKVTile \/ StoreQTile \/ FinishKernel
  \/ StartBatch \/ GenerateScore \/ ConsumeScore \/ EndBatch
=============================================================================
