SPECIFICATION Spec
CONSTANTS
  NUM_Q_TILES = 1
  NUM_K_TILES = 2
  BEATS_PER_TILE_Q = 2
  BEATS_PER_TILE_KV = 2
  NUM_BATCHES = 1
  MAX_BURST_BEATS = 2
  AW_LEN_MOD = 2
  MAX_RUNS = 2
  HOST_RESETS = "any"
  FAST_MEMORY = FALSE
  Q_BASE = 0
  K_BASE = 2
  V_BASE = 6
  O_BASE = 10
  O_ADDRS = {10, 11}
  NoData = NoData
INVARIANTS
  CoreReaderAgree
  CoreWriterAgree
  WriteBurstAgree
PROPERTIES
  ImplementsRunControl
