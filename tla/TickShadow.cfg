SPECIFICATION FairSpec
CONSTANTS
  INTIDS = {26, 27, 33}
  ITargetsWritable = TRUE
  NVCPU = 2
  LINUX = {0}
  GICD_OPS <- LowerTick
  STORED_OPS <- NoOps
  ARM_PC = {}
  PROMPT_IRQ = TRUE
PROPERTY TickKeepsComing
