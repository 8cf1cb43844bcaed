SPECIFICATION FairSpec
CONSTANTS
  INTIDS = {1, 26, 27, 33}
  ITargetsWritable = FALSE
  NVCPU = 1
  LINUX = {0}
  GICD_OPS <- AllGicdOps
  STORED_OPS <- GiccOps
  ARM_PC = {"masked", "run"}
  PROMPT_IRQ = TRUE
INVARIANTS
  TypeOK
PROPERTIES
  ConsoleKept
  TickReturns
