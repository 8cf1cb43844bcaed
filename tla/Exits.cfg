SPECIFICATION Spec
CONSTANTS
  EXIT_RING_SIZE = 2
  RECORDS <- Records
  ZEROED = Zeroed
  NVCPU = 2
  PSCI_CALLS <- PsciCalls
  MAX_EXITS = 4
INVARIANTS
  TypeOK
  DumpIsHistory
  ResumesBehindTrap
  DumpStartsWithFault
  FeaturesMatchCalls
CHECK_DEADLOCK FALSE
