SPECIFICATION Spec
CONSTANTS
  NUM_Q_TILES = 1
  NUM_K_TILES = 1
  BEATS_PER_TILE_Q = 1
  BEATS_PER_TILE_KV = 2
  NUM_BATCHES = 1
  MAX_BURST_BEATS = 2
  AW_LEN_MOD = 2
  MAX_RUNS = 2
  HOST_RESETS = "any"
  FAST_MEMORY = TRUE
  Q_BASE = 0
  K_BASE = 1
  V_BASE = 3
  O_BASE = 5
  O_ADDRS = {5}
  NoData = NoData
INVARIANTS
  DoneMeansWritten
