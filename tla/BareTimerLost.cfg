SPECIFICATION Spec
CONSTANTS
  INTIDS = {26, 27, 33}
  ITargetsWritable = FALSE
  NVCPU = 2
  LINUX = {0}
  GICD_OPS <- NoOps
  STORED_OPS <- NoOps
  ARM_PC = {"masked", "run"}
  PROMPT_IRQ = FALSE
INVARIANT BareTimerKept
