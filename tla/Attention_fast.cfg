SPECIFICATION Spec
CONSTANTS
  NUM_Q_TILES = 2
  NUM_K_TILES = 3
  BEATS_PER_TILE_Q = 2
  BEATS_PER_TILE_KV = 3
  NUM_BATCHES = 2
  MAX_BURST_BEATS = 2
  AW_LEN_MOD = 2
  MAX_RUNS = 2
  HOST_RESETS = "never"
  FAST_MEMORY = TRUE
  Q_BASE = 0
  K_BASE = 4
  V_BASE = 13
  O_BASE = 22
  O_ADDRS = {22, 23, 24, 25}
  NoData = NoData
INVARIANTS
  AccumulatedOnce
