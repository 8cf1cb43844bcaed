SPECIFICATION Spec
CONSTANTS
  INTIDS = {26, 27, 33}
  ITargetsWritable = FALSE
  NVCPU = 2
  LINUX = {0}
  GICD_OPS <- LinuxGicdOps
  STORED_OPS <- NoOps
  ARM_PC = {"run", "isr"}
  PROMPT_IRQ = FALSE
INVARIANTS
  VirqMatchesPending
  DeferredEoi
  DeferredEoiIsComing
  ActiveSlotIsExact
  TickStaysOn
  LinuxTimerKept
PROPERTY PrivateSpec
