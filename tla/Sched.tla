-------------------------------- MODULE Sched --------------------------------
(***************************************************************************)
(* src/sched.c: which vCPU runs, the context of the ones that do not, and  *)
(* the two timers.  Here a context is the part the interrupt path depends  *)
(* on: HCR_EL2.VI and the virtual timer (CNTV_CTL and CNTV_CVAL).          *)
(*                                                                         *)
(* A timer is "off" (CTL.ENABLE = 0), "armed" (enabled, its deadline       *)
(* ahead) or "due" (enabled, deadline passed): its line is high only when  *)
(* it is due.  The virtual counter runs on while a vCPU is switched out    *)
(* (CNTVOFF_EL2 is 0), so a saved timer comes due as well.                 *)
(***************************************************************************)
EXTENDS Vgic

VARIABLES current, vcpus, cntv, cnthp

TIMER == {"off", "armed", "due"}

VcpuT == [vi : BOOLEAN, cntv : TIMER]

init_vcpu == [vi |-> FALSE, cntv |-> "off"]

\* sched_init and sched_start: vCPU 0 is entered with the tick armed.
sched_start ==
  /\ current = 0
  /\ vcpus = [i \in VCPUS |-> init_vcpu]
  /\ vgics = [i \in VCPUS |-> vgic_init]
  /\ vi = init_vcpu.vi
  /\ cntv = init_vcpu.cntv
  /\ cnthp = "armed"

save_vcpu == [vi |-> vi, cntv |-> cntv]

\* Mutants: the incoming vCPU inherits the timer, or the line, of the outgoing.
load_vcpuNoCntv(v) == vi' = v.vi /\ cntv' = cntv
load_vcpuNoVi(v)   == vi' = vi /\ cntv' = v.cntv

load_vcpu(v) == vi' = v.vi /\ cntv' = v.cntv

\* Mutant: the handler leaves CNTHP disabled.
arm_hyp_timerOff == cnthp' = "off"

\* arm_hyp_timer_ms: the deadline is SLICE_MS ahead.
arm_hyp_timer == cnthp' = "armed"

sched_tick ==
  IF NVCPU > 1
  THEN LET next == (current + 1) % NVCPU IN
       /\ vcpus' = [vcpus EXCEPT ![current] = save_vcpu]
       /\ current' = next
       /\ load_vcpu(vcpus[next])
  ELSE UNCHANGED <<vcpus, current, vi, cntv>>

\* What vCPU i's own VIRQ line and virtual timer are, running or not.
Virq(i)   == IF i = current THEN vi ELSE vcpus[i].vi
Vtimer(i) == IF i = current THEN cntv ELSE vcpus[i].cntv

=============================================================================
