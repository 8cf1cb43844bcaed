SPECIFICATION FairSpec
CONSTANTS
  BYTE = 128
  RAM_BASE = 1073741824
  RAM_WORDS = 8
  HYP_ENTRY = 1073741828
  REGS = {0, 1, 2}
  ELFS <- Elfs
  UINT64 = 1610612736
  GICD_SIZE = 65536
  GICR_SIZE = 131072
INVARIANTS
  TypeOK
  LoadsInBounds
  ImageLoaded
  StopsOnlyWhenStuck
PROPERTY NativeSpec
CHECK_DEADLOCK FALSE
