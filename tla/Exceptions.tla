----------------------------- MODULE Exceptions -----------------------------
(***************************************************************************)
(* handle_exception of src/exceptions.c as the running guest sees it: what *)
(* an exit does to the trap frame (the return address and the registers),  *)
(* to the machine (PSCI and fatal exits stop it) and to the exit ring.     *)
(* What the handlers do to the interrupt controllers is in Hypervisor.     *)
(*                                                                         *)
(* tf is the trap frame on the EL2 stack.  An address is the number of     *)
(* instructions before it, retired what each guest has executed.  The      *)
(* frame has x[0] and x[1]; register 31 is the zero register of an access, *)
(* and x[31] of the C array would be elr_el2.  The register contents that  *)
(* matter are the ones EL2 writes, GUEST standing for any other.           *)
(* retired, psci_told and psci_got are history: what each guest executed,  *)
(* what FEATURES said of a function and what came of calling it.           *)
(***************************************************************************)
EXTENDS ExitRing

CONSTANTS
  NVCPU,
  PSCI_CALLS,   \* the <<function, x1 as a function, x1 as an affinity>> made
  MAX_EXITS     \* bound on the exits of a behaviour

VARIABLES tf, vcpus, current, retired, halted, psci_told, psci_got

VCPUS == 0 .. NVCPU - 1

psciVars == <<psci_told, psci_got>>
exitVars == <<tf, vcpus, current, retired, halted>>
vars     == <<ringVars, exitVars, psciVars>>

GUEST                 == 7
PSCI_RET_SUCCESS       == 0
PSCI_RET_NOT_SUPPORTED == -1
PSCI_1_0               == 65536

Frame(elr) == [elr |-> elr, x |-> [r \in {0, 1} |-> GUEST]]

-----------------------------------------------------------------------------
(* PSCI.  A function is its SMC calling convention and its number.         *)

PSCI_VERSION_FN        == <<32, 0>>
PSCI_CPU_OFF_FN        == <<32, 2>>
PSCI_CPU_ON_FNS        == {<<32, 3>>, <<64, 3>>}
PSCI_AFFINITY_INFO     == {<<32, 4>>, <<64, 4>>}
PSCI_MIGRATE_INFO_TYPE == <<32, 6>>
PSCI_SYSTEM_OFF_FN     == <<32, 8>>
PSCI_SYSTEM_RESET_FN   == <<32, 9>>
PSCI_FEATURES_FN       == <<32, 10>>

\* is_psci_fid, as far as the numbers go that have a meaning, and one beyond.
PSCI_FIDS == {32, 64} \X (0 .. 11)

ASSUME ExitAssumption ==
  /\ NVCPU \in Nat \ {0}
  /\ MAX_EXITS \in Nat
  /\ PSCI_CALLS \subseteq PSCI_FIDS \X PSCI_FIDS \X {0, 1}
  /\ RECORDS = {"irq", "hvc", "wfi", "sysreg", "abort", "fatal"} \X VCPUS

psci_halts == {PSCI_CPU_OFF_FN, PSCI_SYSTEM_OFF_FN, PSCI_SYSTEM_RESET_FN}

\* Mutant: CPU_ON is advertised.
psci_featuresAll ==
  psci_halts \cup PSCI_AFFINITY_INFO \cup PSCI_CPU_ON_FNS \cup
  {PSCI_VERSION_FN, PSCI_MIGRATE_INFO_TYPE, PSCI_FEATURES_FN}

\* The functions PSCI_FEATURES answers SUCCESS for.
psci_features ==
  psci_halts \cup PSCI_AFFINITY_INFO \cup
  {PSCI_VERSION_FN, PSCI_MIGRATE_INFO_TYPE, PSCI_FEATURES_FN}

\* handle_psci where it returns: the new x0.  x1 is a function for FEATURES and
\* an affinity for AFFINITY_INFO.
handle_psci(fid, fn, affinity) ==
  CASE fid = PSCI_VERSION_FN        -> PSCI_1_0
    [] fid = PSCI_MIGRATE_INFO_TYPE -> 2
    [] fid \in PSCI_AFFINITY_INFO   -> IF affinity = 0 THEN 0 ELSE 1
    [] fid = PSCI_FEATURES_FN       -> IF fn \in psci_features THEN PSCI_RET_SUCCESS
                                       ELSE PSCI_RET_NOT_SUPPORTED
    [] OTHER                        -> PSCI_RET_NOT_SUPPORTED

OUTCOMES == {"halts", "answers", "refuses"}

\* What comes of a call that leaves x0, as the caller sees it; FEATURES' own
\* answer is about another function.  psci_halt is all that CPU_OFF, SYSTEM_OFF
\* and SYSTEM_RESET do.
Outcome(fid, x0) ==
  IF fid \in psci_halts THEN "halts"
  ELSE IF fid = PSCI_FEATURES_FN \/ x0 # PSCI_RET_NOT_SUPPORTED THEN "answers"
  ELSE "refuses"

-----------------------------------------------------------------------------
Init ==
  /\ RingInit
  /\ tf = Frame(0)
  /\ vcpus = [i \in VCPUS |-> Frame(0)]
  /\ current = 0
  /\ retired = [i \in VCPUS |-> 0]
  /\ halted = "no"
  /\ psci_told = [f \in PSCI_FIDS |-> {}]
  /\ psci_got = [f \in PSCI_FIDS |-> {}]

-----------------------------------------------------------------------------
(* Exits.                                                                  *)

\* The vector has saved the frame with ELR_EL2 at elr; handle_exception logs.
Taken(kind) ==
  /\ halted = "no"
  /\ exit_ring_count < MAX_EXITS
  /\ exit_ring_push(<<kind, current>>)

Retires == retired' = [retired EXCEPT ![current] = @ + 1]

\* tf->elr_el2 += 4, one instruction.
Skipped(f) == [f EXCEPT !.elr = @ + 1]

\* Mutant: no test for the zero register.
SetRegNoTest(f, rt, val) ==
  IF rt = 31 THEN [f EXCEPT !.elr = val] ELSE [f EXCEPT !.x[rt] = val]

SetReg(f, rt, val) == IF rt = 31 THEN f ELSE [f EXCEPT !.x[rt] = val]

\* ELR_EL2 is already past an HVC.
HvcFrame == [tf EXCEPT !.elr = @ + 1]

HvcPsci(fid, fn, affinity) ==
  /\ Taken("hvc")
  /\ Retires
  /\ IF fid \in psci_halts
     THEN tf' = HvcFrame /\ halted' = "psci"
     ELSE tf' = SetReg(HvcFrame, 0, handle_psci(fid, fn, affinity)) /\ halted' = "no"
  /\ psci_got' = [psci_got EXCEPT ![fid] = @ \cup {Outcome(fid, handle_psci(fid, fn, affinity))}]
  /\ psci_told' = IF fid = PSCI_FEATURES_FN
                  THEN [psci_told EXCEPT ![fn] = @ \cup
                         {IF handle_psci(fid, fn, affinity) = PSCI_RET_SUCCESS
                          THEN "yes" ELSE "no"}]
                  ELSE psci_told
  /\ UNCHANGED <<vcpus, current>>

\* HVC_PING, HVC_PUTS and HVC_IRQ_DONE answer 0, anything else ~0.
HvcCall(num) ==
  /\ Taken("hvc")
  /\ Retires
  /\ tf' = SetReg(HvcFrame, 0, IF num \in 0 .. 2 THEN 0 ELSE -1)
  /\ UNCHANGED <<vcpus, current, halted, psciVars>>

\* handle_wfi; its console poll is in Hypervisor.
Wfi ==
  /\ Taken("wfi")
  /\ Retires
  /\ tf' = Skipped(tf)
  /\ UNCHANGED <<vcpus, current, halted, psciVars>>

\* handle_sysreg: a read gives zero, a write is dropped.
Sysreg(dir, rt) ==
  /\ Taken("sysreg")
  /\ Retires
  /\ tf' = Skipped(IF dir = 1 THEN SetReg(tf, rt, 0) ELSE tf)
  /\ UNCHANGED <<vcpus, current, halted, psciVars>>

\* handle_stage2_abort and vgic_mmio: inside the GIC window an access with a
\* valid syndrome is emulated, and a read has its result; any other access is
\* skipped.
Stage2Abort(gic, isv, wnr, srt, val) ==
  /\ Taken("abort")
  /\ Retires
  /\ tf' = Skipped(IF gic /\ isv /\ ~wnr THEN SetReg(tf, srt, val) ELSE tf)
  /\ UNCHANGED <<vcpus, current, halted, psciVars>>

\* Mutant: the index of the running vCPU does not wrap.
sched_tickNoWrap ==
  /\ vcpus' = [vcpus EXCEPT ![current] = tf]
  /\ current' = current + 1
  /\ tf' = vcpus[(current + 1) % NVCPU]

\* sched_tick: the frame below the handler becomes another vCPU's.
sched_tick ==
  IF NVCPU > 1
  THEN LET next == (current + 1) % NVCPU IN
       /\ vcpus' = [vcpus EXCEPT ![current] = tf]
       /\ current' = next
       /\ tf' = vcpus[next]
  ELSE UNCHANGED <<tf, vcpus, current>>

\* An interrupt leaves ELR_EL2 at the instruction that was not executed.
Irq(tick) ==
  /\ Taken("irq")
  /\ IF tick THEN sched_tick ELSE UNCHANGED <<tf, vcpus, current>>
  /\ UNCHANGED <<retired, halted, psciVars>>

\* dump_and_halt.
Fatal ==
  /\ Taken("fatal")
  /\ halted' = "fault"
  /\ UNCHANGED <<tf, vcpus, current, retired, psciVars>>

-----------------------------------------------------------------------------
Next ==
  \/ \E c \in PSCI_CALLS : HvcPsci(c[1], c[2], c[3])
  \/ \E num \in 0 .. 3 : HvcCall(num)
  \/ Wfi
  \/ \E dir \in {0, 1}, rt \in {0, 1, 31} : Sysreg(dir, rt)
  \/ \E gic, isv, wnr \in BOOLEAN, srt \in {0, 1, 31} :
       Stage2Abort(gic, isv, wnr, srt, GUEST)
  \/ \E tick \in BOOLEAN : Irq(tick)
  \/ Fatal

Spec == Init /\ [][Next]_vars

-----------------------------------------------------------------------------
VALUES == {GUEST, PSCI_1_0} \cup (-1 .. 2)
FrameT == [elr : Nat, x : [{0, 1} -> VALUES]]

\* Every variable has its type.
TypeOK ==
  /\ tf \in FrameT /\ vcpus \in [VCPUS -> FrameT]
  /\ current \in VCPUS /\ retired \in [VCPUS -> Nat]
  /\ halted \in {"no", "psci", "fault"}
  /\ psci_told \in [PSCI_FIDS -> SUBSET {"yes", "no"}]
  /\ psci_got \in [PSCI_FIDS -> SUBSET OUTCOMES]

Resume(i) == IF i = current THEN tf.elr ELSE vcpus[i].elr

\* Whatever mixture of traps, interrupts and switches a guest goes through, it
\* resumes behind the last instruction it executed: no handler skips one or
\* repeats one, no register write lands on elr_el2, and a tick never gives a
\* vCPU the frame of another.
ResumesBehindTrap == \A i \in VCPUS : Resume(i) = retired[i]

\* dump_and_halt is a post-mortem of the right exit: the first line it prints is
\* the exit that killed the machine, under the vCPU that was running.
DumpStartsWithFault ==
  halted = "fault" => depth > 0 /\ dump_exit_ring[1] = <<"fatal", current>>

\* The two switches of handle_psci agree, whichever of the question and the call
\* comes first and whatever the arguments: PSCI_FEATURES denies exactly the
\* functions that answer NOT_SUPPORTED, and never contradicts itself.  A function
\* it reports answers or halts the machine; SYSTEM_RESET is reported and halts,
\* it does not reset.
FeaturesMatchCalls ==
  \A fid \in PSCI_FIDS : \A told \in psci_told[fid] :
    /\ psci_told[fid] = {told}
    /\ \A got \in psci_got[fid] : told = "no" <=> got = "refuses"

=============================================================================
