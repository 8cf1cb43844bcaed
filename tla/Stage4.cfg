SPECIFICATION Stage4Spec
CONSTANTS
  BYTE = 128
  RAM_BASE = 1073741824
  RAM_WORDS <- Words
  HYP_ENTRY = 1073741824
  REGS = {0, 1, 2, 19}
  ELFS <- Elfs
  UINT64 = 1610612736
  GICD_SIZE = 65536
  GICR_SIZE = 131072
  MAX_SPINS = 2
  STRAY = {40}
INVARIANTS
  Transcript
  NothingLeftActive
PROPERTIES
  ConsoleSpec
  Stage4Completes
  TimerServed
CHECK_DEADLOCK FALSE
