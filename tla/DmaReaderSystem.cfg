\* Bursts of at most three beats, and commands (LENS: beats - 1) of one beat, a partial
\* burst, exactly one burst, one beat more, exactly two bursts, and more.
SPECIFICATION FairSpec
CONSTANTS
  MAX_BURST_BEATS = 3
  ADDRS = {0, 5}
  LENS = {0, 1, 2, 3, 4, 5, 6, 7}
INVARIANTS
  ReaderTypeOK
  BurstAgree
  MaximalBursts
PROPERTIES
  ImplementsBeatStream
  CommandCompletes
