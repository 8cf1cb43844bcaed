---------------------------- MODULE MCExceptions ----------------------------
(***************************************************************************)
(* The PSCI functions the code names and one it does not: each called, and *)
(* asked about.                                                            *)
(***************************************************************************)
EXTENDS Exceptions

Records == {"irq", "hvc", "wfi", "sysreg", "abort", "fatal"} \X VCPUS

PsciNamed ==
  {PSCI_VERSION_FN, PSCI_CPU_OFF_FN, PSCI_MIGRATE_INFO_TYPE, PSCI_SYSTEM_OFF_FN,
   PSCI_SYSTEM_RESET_FN, PSCI_FEATURES_FN} \cup PSCI_CPU_ON_FNS \cup PSCI_AFFINITY_INFO

PsciCalls ==
  LET asked == PsciNamed \cup {<<32, 11>>} IN
  (asked \X {PSCI_VERSION_FN} \X {0})
    \cup ({PSCI_FEATURES_FN} \X asked \X {0})
    \cup (PSCI_AFFINITY_INFO \X {PSCI_VERSION_FN} \X {1})

=============================================================================
