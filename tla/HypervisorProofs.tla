-------------------------- MODULE HypervisorProofs --------------------------
(***************************************************************************)
(* Proofs about module Hypervisor, for every number of vCPUs, every set of *)
(* interrupts and every choice of guest writes.                            *)
(***************************************************************************)
EXTENDS Hypervisor, TLAPS

-----------------------------------------------------------------------------
(* Lemmas on the operators.                                                *)

\* Every write to the distributor leaves a well-formed distributor.
LEMMA GicdTyped ==
  ASSUME NEW g \in Gicd
  PROVE  /\ reassert_htimer_ppi(g) \in Gicd
         /\ reassert_pl011(g) \in Gicd
         /\ wfi_gicd(g) \in Gicd
         /\ \A w \in GicdWrites : GicdWritten(g, w) \in Gicd
         /\ \A i \in INTIDS : [g EXCEPT !.sgi = @ \ {i}] \in Gicd
<1> USE IntidAssumption DEF Gicd, PRIOS, PRIO_MID, IRQ_HTIMER, IRQ_PL011, IRQ_VTIMER
<1>1. reassert_htimer_ppi(g) \in Gicd
  BY DEF reassert_htimer_ppi
<1>2. reassert_pl011(g) \in Gicd
  <2>1. SetTarget(g, IRQ_PL011) \in SUBSET INTIDS
    BY DEF SetTarget
  <2>2. [g.prio EXCEPT ![IRQ_PL011] = PRIO_MID] \in [INTIDS -> PRIOS]
    OBVIOUS
  <2> QED BY <2>1, <2>2 DEF reassert_pl011
<1>3. wfi_gicd(g) \in Gicd
  <2>1. WfiPrio(g.prio) \in [INTIDS -> PRIOS]
    BY DEF WfiPrio
  <2>2. WfiTarget(g.target) \in SUBSET INTIDS
    BY DEF WfiTarget
  <2> QED BY <2>1, <2>2 DEF wfi_gicd
<1>4. ASSUME NEW w \in GicdWrites PROVE GicdWritten(g, w) \in Gicd
  BY <1>4, ZenonT(60) DEF GicdWrites, GicdWritten, SGIS, SPIS
<1>5. ASSUME NEW i \in INTIDS PROVE [g EXCEPT !.sgi = @ \ {i}] \in Gicd
  OBVIOUS
<1> QED BY <1>1, <1>2, <1>3, <1>4, <1>5

\* The tail of vgic_mmio leaves a well-formed distributor with PPI 26 enabled.
LEMMA ReassertedTyped ==
  ASSUME NEW g \in Gicd
  PROVE  Reasserted(g) \in Gicd /\ IRQ_HTIMER \in Reasserted(g).enabled
<1>1. Reasserted(g) \in Gicd
  BY GicdTyped DEF Reasserted
<1>2. IRQ_HTIMER \in Reasserted(g).enabled
  BY DEF Reasserted, reassert_pl011, reassert_htimer_ppi, Gicd
<1> QED BY <1>1, <1>2

\* Acknowledging and completing keep the CPU interface well formed.
LEMMA ActiveTyped ==
  ASSUME NEW g \in Gicd, NEW act \in [INTIDS -> 0 .. IDLE]
  PROVE  /\ \A i \in INTIDS : Acked(act, g, i) \in [INTIDS -> 0 .. IDLE]
         /\ \A i \in Nat : Eoied(act, i) \in [INTIDS -> 0 .. IDLE]
<1>1. ASSUME NEW i \in INTIDS PROVE g.prio[i] \in 0 .. IDLE
  BY DEF Gicd, PRIOS, IDLE
<1>2. ASSUME NEW i \in INTIDS PROVE Acked(act, g, i) \in [INTIDS -> 0 .. IDLE]
  BY <1>1 DEF Acked
<1>3. ASSUME NEW i \in Nat PROVE Eoied(act, i) \in [INTIDS -> 0 .. IDLE]
  <2>1. IDLE \in 0 .. IDLE
    BY DEF IDLE
  <2> QED BY <2>1 DEF Eoied
<1> QED BY <1>2, <1>3

\* The round robin stays within the vCPUs.
LEMMA NextVcpu ==
  ASSUME NEW c \in VCPUS
  PROVE  (c + 1) % NVCPU \in VCPUS
  BY NvcpuAssumption DEF VCPUS

-----------------------------------------------------------------------------
(* Type correctness, one step per action.                                  *)

\* Init satisfies TypeOK.
LEMMA TypeInit == Init => TypeOK
<1> SUFFICES ASSUME Init PROVE TypeOK
  OBVIOUS
<1> USE IntidAssumption, NvcpuAssumption
<1>1. GicTypes
  <2>1. phys_active \in [INTIDS -> 0 .. IDLE]
    BY DEF Init, gic_init_el2, IDLE
  <2>2. gicd.prio \in [INTIDS -> PRIOS]
    BY DEF Init, gic_init_el2, PRIOS, PRIO_MID
  <2>3. gicd \in Gicd
    BY <2>2 DEF Init, gic_init_el2, Gicd, SGIS, SPIS
  <2> QED BY <2>1, <2>3 DEF GicTypes
<1>2. VgicTypes
  BY DEF VgicTypes, Init, sched_start, init_vcpu, vgic_init, VgicT, PENDABLE
<1>3. SchedTypes /\ TimerTypes
  BY DEF SchedTypes, TimerTypes, Init, sched_start, init_vcpu, VcpuT, TIMER, VCPUS
<1>4. UartTypes /\ GuestTypes
  BY DEF UartTypes, GuestTypes, Init, LINUX_PC, BARE_PC
<1> QED BY <1>1, <1>2, <1>3, <1>4 DEF TypeOK

\* Pending an interrupt, or forwarding SPI 33, keeps a vgic_t well formed.
LEMMA PendedTyped ==
  ASSUME NEW v \in VgicT, NEW n \in Nat
  PROVE  /\ Pended(v, n) \in VgicT
         /\ Forwarding(v, n, IRQ_PL011) \in VgicT
<1>1. ASSUME NEW u \in VgicT PROVE Pended(u, n) \in VgicT
  BY <1>1 DEF Pended, VgicT, PENDABLE
<1>2. [v EXCEPT !.phys_iar = IRQ_PL011, !.has_phys_iar = TRUE] \in VgicT
  BY IntidAssumption, ZenonT(60) DEF VgicT
<1> QED BY <1>1, <1>2 DEF Forwarding

\* Every modelled INTID, and the 0 of a vgic_t without one, is a number.
LEMMA IntidNat == ASSUME NEW x \in INTIDS \cup {0} PROVE x \in Nat
  BY IntidAssumption

\* The guest's operations on its GICC keep a vgic_t well formed.
LEMMA VgicTyped ==
  ASSUME NEW v \in VgicT
  PROVE  /\ v.phys_iar \in Nat
         /\ v.pending_mask \in SUBSET PENDABLE
         /\ AllAcked(v) \in VgicT
         /\ \A n \in PENDABLE : IarRead(v, n) \in VgicT
         /\ \A n \in PENDABLE \cup {NO_INTID} : EoirWritten(v, n) \in VgicT
<1>1. v.phys_iar \in Nat
  <2>1. v.phys_iar \in INTIDS \cup {0}
    BY DEF VgicT
  <2> QED BY <2>1, IntidNat
<1>2. AllAcked(v) \in VgicT
  BY ZenonT(60) DEF AllAcked, VgicT
<1>3. ASSUME NEW n \in PENDABLE PROVE IarRead(v, n) \in VgicT
  BY ZenonT(60) DEF IarRead, VgicT
<1>4. ASSUME NEW n \in PENDABLE \cup {NO_INTID} PROVE EoirWritten(v, n) \in VgicT
  <2> DEFINE a == IF v.active = n THEN NO_INTID ELSE v.active
             b == v.has_phys_iar /\ ~Defers(v, n)
  <2>1. a \in PENDABLE \cup {NO_INTID} /\ b \in BOOLEAN
    BY DEF VgicT
  <2>2. EoirWritten(v, n) = [v EXCEPT !.active = a, !.has_phys_iar = b]
    BY DEF EoirWritten
  <2> HIDE DEF a, b
  <2> QED BY <2>1, <2>2, ZenonT(60) DEF VgicT
<1>5. v.pending_mask \in SUBSET PENDABLE
  BY DEF VgicT
<1> QED BY <1>1, <1>2, <1>3, <1>4, <1>5

\* GICC_CTLR, GICC_PMR and GICC_BPR are masked to their width, and writing them
\* touches nothing the interrupt path reads.
LEMMA StoredTyped ==
  ASSUME NEW v \in VgicT, NEW r \in {"CTLR", "PMR", "BPR"}, NEW n \in Nat
  PROVE  LET u == StoredWritten(v, r, n) IN
         /\ u \in VgicT
         /\ u.pending_mask = v.pending_mask /\ u.active = v.active
         /\ u.phys_iar = v.phys_iar /\ u.has_phys_iar = v.has_phys_iar
<1>1. n % 32 \in 0 .. 31 /\ n % 256 \in 0 .. 255 /\ n % 8 \in 0 .. 7
  OBVIOUS
<1> QED BY <1>1 DEF StoredWritten, VgicT

\* What the operations on a vgic_t do to the fields the interrupt path reads.
LEMMA VgicFields ==
  ASSUME NEW v \in VgicT, NEW n \in PENDABLE
  PROVE  /\ Pended(v, n).pending_mask = v.pending_mask \cup {n}
         /\ Pended(v, n).has_phys_iar = v.has_phys_iar
         /\ Pended(v, n).phys_iar = v.phys_iar
         /\ Forwarding(v, n, IRQ_PL011).pending_mask = v.pending_mask \cup {n}
         /\ Forwarding(v, n, IRQ_PL011).has_phys_iar = TRUE
         /\ Forwarding(v, n, IRQ_PL011).phys_iar = IRQ_PL011
         /\ IarRead(v, n).pending_mask = v.pending_mask \ {n}
         /\ IarRead(v, n).has_phys_iar = v.has_phys_iar
         /\ IarRead(v, n).phys_iar = v.phys_iar
  BY DEF Pended, Forwarding, IarRead, VgicT, PENDABLE

\* What GICC_EOIR and HVC_IRQ_DONE do to the fields of a vgic_t.
LEMMA CompletionFields ==
  ASSUME NEW v \in VgicT, NEW n
  PROVE  /\ EoirWritten(v, n).pending_mask = v.pending_mask
         /\ EoirWritten(v, n).has_phys_iar = (v.has_phys_iar /\ ~Defers(v, n))
         /\ EoirWritten(v, n).phys_iar = v.phys_iar
         /\ AllAcked(v).pending_mask = {}
         /\ AllAcked(v).has_phys_iar = FALSE
         /\ AllAcked(v).phys_iar = v.phys_iar
  BY DEF EoirWritten, AllAcked, VgicT

\* Every step keeps TypeOK.
LEMMA TypeNext == TypeOK /\ [Next]_vars => TypeOK'
<1> SUFFICES ASSUME TypeOK, [Next]_vars PROVE TypeOK'
  OBVIOUS
<1> USE IntidAssumption, NvcpuAssumption, GuestAssumption
<1> USE DEF TypeOK, gicVars, vgicVars, schedVars, timerVars, uartVars, guestVars
<1>types. GicTypes /\ VgicTypes /\ SchedTypes /\ TimerTypes /\ UartTypes /\ GuestTypes
  BY DEF TypeOK
<1>inject. ASSUME vgic_inject(current, IRQ_VTIMER) PROVE VgicTypes'
  BY <1>inject, PendedTyped DEF VgicTypes, SchedTypes, vgic_inject, IRQ_VTIMER
<1>forward. ASSUME vgic_forward_spi(current, IRQ_PL011, IRQ_PL011) PROVE VgicTypes'
  BY <1>forward, PendedTyped DEF VgicTypes, SchedTypes, vgic_forward_spi, IRQ_PL011
<1>rearm. ASSUME NEW i \in VCPUS, Rearm(i)
          PROVE  cntv' \in TIMER /\ deadline' \in [VCPUS -> BOOLEAN]
  BY <1>rearm DEF Rearm, TIMER, GuestTypes
<1>moves. ASSUME NEW i \in VCPUS, NEW a, NEW b \in LINUX_PC \cup BARE_PC, Moves(i, a, b)
          PROVE  pc' \in [VCPUS -> LINUX_PC \cup BARE_PC]
  BY <1>moves DEF Moves, GuestTypes
<1>tail. ASSUME NEW g \in Gicd, MmioTail(g) PROVE gicd' \in Gicd /\ imsc' \in BOOLEAN
  BY <1>tail, ReassertedTyped DEF MmioTail
<1>1. CASE TickDue
  BY <1>1 DEF TickDue, TIMER, GicTypes, VgicTypes, SchedTypes, TimerTypes, UartTypes, GuestTypes
<1>2. ASSUME NEW i \in VCPUS, VtimerDue(i) PROVE TypeOK'
  BY <1>2 DEF VtimerDue, TIMER, VcpuT, GicTypes, VgicTypes, SchedTypes, TimerTypes, UartTypes, GuestTypes
<1>3. CASE RxByte
  BY <1>3 DEF RxByte, GicTypes, VgicTypes, SchedTypes, TimerTypes, UartTypes, GuestTypes
<1>4. CASE HtimerIrq
  <2>1. GicTypes'
    BY <1>4, GicdTyped, ActiveTyped DEF HtimerIrq, GicTypes, IRQ_HTIMER
  <2>2. VgicTypes' /\ SchedTypes' /\ TimerTypes'
    <3>1. CASE NVCPU > 1
      BY <1>4, <3>1, NextVcpu
      DEF HtimerIrq, sched_tick, save_vcpu, load_vcpu, arm_hyp_timer, VcpuT, TIMER,
          VgicTypes, SchedTypes, TimerTypes
    <3>2. CASE ~(NVCPU > 1)
      BY <1>4, <3>2
      DEF HtimerIrq, sched_tick, arm_hyp_timer, TIMER, VgicTypes, SchedTypes, TimerTypes
    <3> QED BY <3>1, <3>2
  <2>3. UartTypes' /\ GuestTypes'
    BY <1>4 DEF HtimerIrq, UartTypes, GuestTypes
  <2> QED BY <2>1, <2>2, <2>3
<1>5. CASE VtimerIrq
  <2>1. GicTypes'
    BY <1>5, ActiveTyped DEF VtimerIrq, GicTypes, IRQ_VTIMER
  <2>2. VgicTypes'
    BY <1>5, <1>inject DEF VtimerIrq
  <2> QED
    BY <1>5, <2>1, <2>2
    DEF VtimerIrq, TIMER, SchedTypes, TimerTypes, UartTypes, GuestTypes
<1>6. CASE Pl011Irq
  <2>1. GicTypes'
    BY <1>6, ActiveTyped DEF Pl011Irq, GicTypes
  <2>2. VgicTypes'
    BY <1>6, <1>forward DEF Pl011Irq
  <2> QED
    BY <1>6, <2>1, <2>2 DEF Pl011Irq, SchedTypes, TimerTypes, UartTypes, GuestTypes
<1>7. ASSUME NEW i \in INTIDS, OtherIrq(i) PROVE TypeOK'
  <2>1. GicTypes'
    BY <1>7, GicdTyped, ActiveTyped DEF OtherIrq, GicTypes
  <2> QED
    BY <1>7, <2>1 DEF OtherIrq, VgicTypes, SchedTypes, TimerTypes, UartTypes, GuestTypes
<1>8. ASSUME NEW i \in VCPUS, HandleWfi(i) PROVE TypeOK'
  <2>1. GicTypes'
    BY <1>8, GicdTyped DEF HandleWfi, GicTypes
  <2> QED
    BY <1>8, <2>1 DEF HandleWfi, VgicTypes, SchedTypes, TimerTypes, UartTypes, GuestTypes
<1>9. CASE HandleWfiIar
  <2>1. GicTypes' /\ VgicTypes'
    <3>1. CASE /\ phys_active' = Acked(phys_active, gicd, IRQ_PL011)
               /\ vgic_forward_spi(current, IRQ_PL011, IRQ_PL011)
               /\ UNCHANGED gicd
      <4>1. VgicTypes'
        BY <3>1, <1>forward
      <4> QED BY <3>1, <4>1, ActiveTyped DEF GicTypes
    <3>2. CASE \E i \in INTIDS \ {IRQ_PL011} :
                 /\ phys_active' = Acked(phys_active, gicd, i)
                 /\ gicd' = [gicd EXCEPT !.sgi = @ \ {i}]
                 /\ UNCHANGED vgicVars
      <4>1. PICK i \in INTIDS : /\ phys_active' = Acked(phys_active, gicd, i)
                               /\ gicd' = [gicd EXCEPT !.sgi = @ \ {i}]
                               /\ UNCHANGED vgicVars
        BY <3>2
      <4>2. phys_active' \in [INTIDS -> 0 .. IDLE]
        BY <4>1, ActiveTyped DEF GicTypes
      <4>3. gicd' \in Gicd
        BY <4>1, GicdTyped DEF GicTypes
      <4> QED BY <4>1, <4>2, <4>3 DEF GicTypes, VgicTypes
    <3>3. CASE UNCHANGED <<gicVars, vgicVars>>
      BY <3>3 DEF GicTypes, VgicTypes
    <3> QED BY <1>9, <3>1, <3>2, <3>3 DEF HandleWfiIar
  <2> QED
    BY <1>9, <2>1 DEF HandleWfiIar, SchedTypes, TimerTypes, UartTypes, GuestTypes
<1>10. ASSUME NEW i \in VCPUS, NEW w \in GICD_OPS, MmioGicd(i, w) PROVE TypeOK'
  <2>1. gicd' \in Gicd /\ imsc' \in BOOLEAN
    BY <1>10, <1>tail, GicdTyped DEF MmioGicd, GicTypes
  <2> QED
    BY <1>10, <2>1 DEF MmioGicd, GicTypes, VgicTypes, SchedTypes, TimerTypes, UartTypes, GuestTypes
<1>10q. ASSUME NEW i \in VCPUS, MmioQuiet(i) PROVE TypeOK'
  <2>1. gicd' \in Gicd /\ imsc' \in BOOLEAN
    BY <1>10q, <1>tail DEF MmioQuiet, GicTypes
  <2> QED
    BY <1>10q, <2>1 DEF MmioQuiet, GicTypes, VgicTypes, SchedTypes, TimerTypes, UartTypes, GuestTypes
<1>11. ASSUME NEW i \in VCPUS, NEW n \in PENDABLE \cup {NO_INTID}, MmioIar(i, n)
       PROVE  TypeOK'
  <2>1. gicd' \in Gicd /\ imsc' \in BOOLEAN
    BY <1>11, <1>tail DEF MmioIar, GicTypes
  <2>2. VgicTypes' /\ phys_active' = phys_active
    <3>1. CASE n = NO_INTID
      BY <1>11, <3>1 DEF MmioIar, read_iar, VgicTypes
    <3>2. CASE n # NO_INTID
      <4>1. IarRead(vgics[i], n) \in VgicT
        BY <3>2, VgicTyped DEF VgicTypes
      <4> QED BY <1>11, <3>2, <4>1 DEF MmioIar, read_iar, VgicTypes
    <3> QED BY <3>1, <3>2
  <2>3. GuestTypes'
    BY <1>11 DEF MmioIar, GuestTypes, LINUX_PC
  <2> QED
    BY <1>11, <2>1, <2>2, <2>3 DEF MmioIar, GicTypes, SchedTypes, TimerTypes, UartTypes
<1>12. ASSUME NEW i \in VCPUS, MmioEoir(i) PROVE TypeOK'
  <2>1. gicd' \in Gicd /\ imsc' \in BOOLEAN
    BY <1>12, <1>tail DEF MmioEoir, GicTypes
  <2>2. irqstat[i] \in Nat
    BY DEF GuestTypes, PENDABLE, NO_INTID
  <2>3. phys_active' \in [INTIDS -> 0 .. IDLE]
    BY <1>12, <2>2, ActiveTyped DEF MmioEoir, write_eoir, GicTypes
  <2>4. VgicTypes'
    <3>1. EoirWritten(vgics[i], irqstat[i]) \in VgicT
      BY VgicTyped DEF VgicTypes, GuestTypes
    <3> QED BY <1>12, <3>1 DEF MmioEoir, write_eoir, VgicTypes
  <2>5. GuestTypes'
    BY <1>12 DEF MmioEoir, GuestTypes, LINUX_PC
  <2> QED
    BY <1>12, <2>1, <2>3, <2>4, <2>5 DEF MmioEoir, GicTypes, SchedTypes, TimerTypes, UartTypes
<1>13. ASSUME NEW i \in VCPUS, NEW op \in STORED_OPS, MmioStored(i, op) PROVE TypeOK'
  <2>1. gicd' \in Gicd /\ imsc' \in BOOLEAN
    BY <1>13, <1>tail DEF MmioStored, GicTypes
  <2>2. VgicTypes'
    <3>1. StoredWritten(vgics[i], op[1], op[2]) \in VgicT
      BY StoredTyped DEF VgicTypes
    <3> QED BY <1>13, <3>1 DEF MmioStored, write_stored, VgicTypes
  <2> QED
    BY <1>13, <2>1, <2>2
    DEF MmioStored, write_stored, GicTypes, SchedTypes, TimerTypes, UartTypes, GuestTypes
<1>14. ASSUME NEW i \in VCPUS, HvcIrqDone(i) PROVE TypeOK'
  <2>1. vgics[current].phys_iar \in Nat
    BY VgicTyped DEF VgicTypes, SchedTypes
  <2>2. GicTypes'
    BY <1>14, <2>1, ActiveTyped DEF HvcIrqDone, vgic_ack_all, GicTypes
  <2>3. VgicTypes'
    BY <1>14, VgicTyped DEF HvcIrqDone, vgic_ack_all, VgicTypes, SchedTypes
  <2>4. GuestTypes'
    BY <1>14 DEF HvcIrqDone, GuestTypes, LINUX_PC
  <2> QED
    BY <1>14, <2>2, <2>3, <2>4 DEF HvcIrqDone, SchedTypes, TimerTypes, UartTypes
<1>15. ASSUME NEW i \in VCPUS, TakeVirq(i) PROVE TypeOK'
  BY <1>15 DEF TakeVirq, Moves, LINUX_PC, BARE_PC,
    GicTypes, VgicTypes, SchedTypes, TimerTypes, UartTypes, GuestTypes
<1>16. ASSUME NEW i \in VCPUS, Unmask(i) PROVE TypeOK'
  BY <1>16 DEF Unmask, Moves, LINUX_PC, BARE_PC,
    GicTypes, VgicTypes, SchedTypes, TimerTypes, UartTypes, GuestTypes
<1>17. ASSUME NEW i \in VCPUS, Mask(i) PROVE TypeOK'
  BY <1>17 DEF Mask, Moves, LINUX_PC, BARE_PC,
    GicTypes, VgicTypes, SchedTypes, TimerTypes, UartTypes, GuestTypes
<1>18. ASSUME NEW i \in VCPUS, LinuxArmTimer(i) PROVE TypeOK'
  BY <1>18 DEF LinuxArmTimer, Rearm, TIMER,
    GicTypes, VgicTypes, SchedTypes, TimerTypes, UartTypes, GuestTypes
<1>19. ASSUME NEW i \in VCPUS, LinuxService(i) PROVE TypeOK'
  BY <1>19 DEF LinuxService, Moves, LINUX_PC, BARE_PC,
    GicTypes, VgicTypes, SchedTypes, TimerTypes, UartTypes, GuestTypes
<1>20. ASSUME NEW i \in VCPUS, LinuxClearImsc(i) PROVE TypeOK'
  BY <1>20 DEF LinuxClearImsc,
    GicTypes, VgicTypes, SchedTypes, TimerTypes, UartTypes, GuestTypes
<1>21. ASSUME NEW i \in VCPUS, BareEntry(i) PROVE TypeOK'
  BY <1>21 DEF BareEntry, Rearm, TIMER, Moves, LINUX_PC, BARE_PC,
    GicTypes, VgicTypes, SchedTypes, TimerTypes, UartTypes, GuestTypes
<1>22. ASSUME NEW i \in VCPUS, BareIrqHandler(i) PROVE TypeOK'
  BY <1>22 DEF BareIrqHandler, Rearm, TIMER, Moves, LINUX_PC, BARE_PC,
    GicTypes, VgicTypes, SchedTypes, TimerTypes, UartTypes, GuestTypes
<1>23. CASE UNCHANGED vars
  BY <1>23 DEF vars, GicTypes, VgicTypes, SchedTypes, TimerTypes, UartTypes, GuestTypes
<1> QED
  BY <1>1, <1>2, <1>3, <1>4, <1>5, <1>6, <1>7, <1>8, <1>9, <1>10, <1>10q, <1>11, <1>12, <1>13, <1>14, <1>15, <1>16, <1>17, <1>18, <1>19, <1>20, <1>21, <1>22, <1>23
  DEF Next, Environment, PhysIrq, Trap, Guest

\* Every variable always has its type.
THEOREM TypeCorrect == Spec => []TypeOK
  BY TypeInit, TypeNext, PTL DEF Spec

-----------------------------------------------------------------------------
(* VirqMatchesPending is inductive over typed states.  Only three kinds of *)
(* step touch the line or a bitmap: the operations of vgic.c on the        *)
(* running vCPU, the context switch, and nothing else.                     *)

\* A step that changes at most the running vCPU's vgic_t, and leaves the live
\* line equal to its new pending state, keeps every line right.
LEMMA VirqLocal ==
  ASSUME VgicTypes, SchedTypes, VirqMatchesPending, NEW u \in VgicT,
         vgics' = [vgics EXCEPT ![current] = u], vi' <=> u.pending_mask # {},
         UNCHANGED <<current, vcpus>>
  PROVE  VirqMatchesPending'
  BY DEF VgicTypes, SchedTypes, VirqMatchesPending, Virq

\* A step that leaves lines and bitmaps alone keeps them consistent.
LEMMA VirqQuiet ==
  ASSUME VirqMatchesPending, VgicTypes, SchedTypes, UNCHANGED <<vgics, vi, current>>,
         \A i \in VCPUS : vcpus'[i].vi = vcpus[i].vi
  PROVE  VirqMatchesPending'
  BY DEF VirqMatchesPending, Virq, VgicTypes, SchedTypes

\* Every step keeps VirqMatchesPending: each handler writes HCR_EL2.VI after the
\* bitmap, and a switch moves the bit with its vCPU.
LEMMA VirqNext == TypeOK /\ VirqMatchesPending /\ [Next]_vars => VirqMatchesPending'
<1> SUFFICES ASSUME TypeOK, VirqMatchesPending, [Next]_vars PROVE VirqMatchesPending'
  OBVIOUS
<1> USE DEF gicVars, vgicVars, schedVars, timerVars, uartVars, guestVars
<1>types. VgicTypes /\ SchedTypes /\ GuestTypes
  BY DEF TypeOK
<1>v. ASSUME NEW i \in VCPUS PROVE vgics[i] \in VgicT
  BY <1>types DEF VgicTypes
<1>c. current \in VCPUS /\ vgics[current] \in VgicT
  BY <1>types, <1>v DEF SchedTypes
<1>vi. vi <=> vgics[current].pending_mask # {}
  BY <1>c DEF VirqMatchesPending, Virq
<1>k. /\ IRQ_PL011 \in PENDABLE /\ IRQ_PL011 \in Nat /\ IRQ_PL011 < 64
      /\ IRQ_VTIMER \in PENDABLE /\ IRQ_VTIMER \in Nat /\ IRQ_VTIMER < 64
  BY DEF IRQ_PL011, IRQ_VTIMER, PENDABLE
<1>forward. ASSUME vgic_forward_spi(current, IRQ_PL011, IRQ_PL011), UNCHANGED schedVars
            PROVE  VirqMatchesPending'
  <2> DEFINE u == Forwarding(vgics[current], IRQ_PL011, IRQ_PL011)
  <2>1. u \in VgicT /\ u.pending_mask # {}
    <3>1. u \in VgicT
      BY <1>c, <1>k, PendedTyped
    <3>2. u.pending_mask = vgics[current].pending_mask \cup {IRQ_PL011}
      BY <1>c, <1>k, VgicFields, Zenon
    <3> QED BY <3>1, <3>2
  <2>2. vgics' = [vgics EXCEPT ![current] = u]
    BY <1>forward DEF vgic_forward_spi
  <2>3. vi'
    BY <1>forward, <1>k DEF vgic_forward_spi
  <2> HIDE DEF u
  <2> QED BY <1>types, <1>forward, <2>1, <2>2, <2>3, VirqLocal
<1>1. CASE TickDue
  BY <1>1, <1>types, VirqQuiet DEF TickDue
<1>2. ASSUME NEW i \in VCPUS, VtimerDue(i) PROVE VirqMatchesPending'
  <2>1. \A j \in VCPUS : vcpus'[j].vi = vcpus[j].vi
    BY <1>2, <1>types DEF VtimerDue, SchedTypes, VcpuT
  <2> QED BY <1>2, <2>1, <1>types, VirqQuiet DEF VtimerDue
<1>3. CASE RxByte
  BY <1>3, <1>types, VirqQuiet DEF RxByte
<1>4. CASE HtimerIrq
  <2>1. CASE NVCPU > 1
    <3> DEFINE n == (current + 1) % NVCPU
    <3>1. n \in VCPUS
      BY <1>c, NextVcpu
    <3>2. /\ vgics' = vgics /\ current' = n /\ vi' = vcpus[n].vi
          /\ vcpus' = [vcpus EXCEPT ![current] = save_vcpu]
      BY <1>4, <2>1 DEF HtimerIrq, sched_tick, load_vcpu
    <3>3. n # current
      BY <1>c, <2>1, NvcpuAssumption DEF VCPUS
    <3> HIDE DEF n
    <3>4. vi' <=> vgics[n].pending_mask # {}
      BY <3>1, <3>2, <3>3 DEF VirqMatchesPending, Virq
    <3>5. ASSUME NEW i \in VCPUS, i # n PROVE vcpus'[i].vi <=> vgics[i].pending_mask # {}
      <4>1. CASE i = current
        BY <4>1, <3>2, <1>vi, <1>types DEF save_vcpu, SchedTypes
      <4>2. CASE i # current
        BY <4>2, <3>2, <3>5, <1>types DEF SchedTypes, VirqMatchesPending, Virq
      <4> QED BY <4>1, <4>2
    <3> QED BY <3>2, <3>4, <3>5 DEF VirqMatchesPending, Virq
  <2>2. CASE ~(NVCPU > 1)
    BY <1>4, <2>2, <1>types, VirqQuiet DEF HtimerIrq, sched_tick
  <2> QED BY <2>1, <2>2
<1>5. CASE VtimerIrq
  <2> DEFINE u == Pended(vgics[current], IRQ_VTIMER)
  <2>1. u \in VgicT /\ u.pending_mask # {}
    <3>1. u \in VgicT
      BY <1>c, <1>k, PendedTyped
    <3>2. u.pending_mask = vgics[current].pending_mask \cup {IRQ_VTIMER}
      BY <1>c, <1>k, VgicFields, Zenon
    <3> QED BY <3>1, <3>2
  <2>2. vgics' = [vgics EXCEPT ![current] = u] /\ UNCHANGED schedVars
    BY <1>5 DEF VtimerIrq, vgic_inject
  <2>3. vi'
    BY <1>5, <1>k DEF VtimerIrq, vgic_inject
  <2> HIDE DEF u
  <2> QED BY <1>types, <2>1, <2>2, <2>3, VirqLocal
<1>6. CASE Pl011Irq
  BY <1>6, <1>forward DEF Pl011Irq
<1>7. ASSUME NEW i \in INTIDS, OtherIrq(i) PROVE VirqMatchesPending'
  BY <1>7, <1>types, VirqQuiet DEF OtherIrq
<1>8. ASSUME NEW i \in VCPUS, HandleWfi(i) PROVE VirqMatchesPending'
  BY <1>8, <1>types, VirqQuiet DEF HandleWfi
<1>9. CASE HandleWfiIar
  <2>1. CASE vgic_forward_spi(current, IRQ_PL011, IRQ_PL011)
    BY <1>9, <2>1, <1>forward DEF HandleWfiIar
  <2>2. CASE UNCHANGED vgicVars
    BY <1>9, <2>2, <1>types, VirqQuiet DEF HandleWfiIar
  <2> QED BY <1>9, <2>1, <2>2 DEF HandleWfiIar
<1>10. ASSUME NEW i \in VCPUS, NEW w \in GICD_OPS, MmioGicd(i, w) PROVE VirqMatchesPending'
  BY <1>10, <1>types, VirqQuiet DEF MmioGicd
<1>10q. ASSUME NEW i \in VCPUS, MmioQuiet(i) PROVE VirqMatchesPending'
  BY <1>10q, <1>types, VirqQuiet DEF MmioQuiet
<1>11. ASSUME NEW i \in VCPUS, NEW n \in PENDABLE \cup {NO_INTID}, MmioIar(i, n)
       PROVE  VirqMatchesPending'
  <2>1. i = current
    BY <1>11 DEF MmioIar, At, Runs
  <2>2. CASE n = NO_INTID
    BY <1>11, <2>2, <1>types, VirqQuiet DEF MmioIar, read_iar
  <2>3. CASE n # NO_INTID
    <3>1. IarRead(vgics[current], n) \in VgicT
      BY <2>3, <1>c, VgicTyped
    <3> QED
      BY <1>11, <2>1, <2>3, <3>1, <1>types, VirqLocal DEF MmioIar, read_iar
  <2> QED BY <2>2, <2>3
<1>12. ASSUME NEW i \in VCPUS, MmioEoir(i) PROVE VirqMatchesPending'
  <2> DEFINE u == EoirWritten(vgics[current], irqstat[current])
  <2>1. u \in VgicT /\ u.pending_mask = vgics[current].pending_mask
    BY <1>c, <1>types, VgicTyped, CompletionFields DEF GuestTypes
  <2>2. vgics' = [vgics EXCEPT ![current] = u] /\ UNCHANGED <<vi, schedVars>>
    BY <1>12 DEF MmioEoir, write_eoir, At, Runs
  <2> HIDE DEF u
  <2> QED BY <1>types, <1>c, <1>vi, <2>1, <2>2 DEF VgicTypes, VirqMatchesPending, Virq
<1>13. ASSUME NEW i \in VCPUS, NEW op \in STORED_OPS, MmioStored(i, op)
       PROVE  VirqMatchesPending'
  <2> DEFINE u == StoredWritten(vgics[i], op[1], op[2])
  <2>1. u.pending_mask = vgics[i].pending_mask
    BY <1>v, StoredTyped, GuestAssumption
  <2>2. vgics' = [vgics EXCEPT ![i] = u] /\ UNCHANGED <<vi, schedVars>>
    BY <1>13 DEF MmioStored, write_stored
  <2> HIDE DEF u
  <2> QED BY <1>types, <2>1, <2>2 DEF VgicTypes, VirqMatchesPending, Virq
<1>14. ASSUME NEW i \in VCPUS, HvcIrqDone(i) PROVE VirqMatchesPending'
  <2> DEFINE u == AllAcked(vgics[current])
  <2>1. u \in VgicT /\ u.pending_mask = {}
    BY <1>c, VgicTyped, CompletionFields
  <2>2. vgics' = [vgics EXCEPT ![current] = u] /\ vi' = FALSE /\ UNCHANGED schedVars
    BY <1>14 DEF HvcIrqDone, vgic_ack_all
  <2> HIDE DEF u
  <2> QED BY <1>types, <2>1, <2>2, VirqLocal
<1>15. ASSUME NEW i \in VCPUS, TakeVirq(i) PROVE VirqMatchesPending'
  BY <1>15, <1>types, VirqQuiet DEF TakeVirq
<1>16. ASSUME NEW i \in VCPUS, Unmask(i) PROVE VirqMatchesPending'
  BY <1>16, <1>types, VirqQuiet DEF Unmask
<1>17. ASSUME NEW i \in VCPUS, Mask(i) PROVE VirqMatchesPending'
  BY <1>17, <1>types, VirqQuiet DEF Mask
<1>18. ASSUME NEW i \in VCPUS, LinuxArmTimer(i) PROVE VirqMatchesPending'
  BY <1>18, <1>types, VirqQuiet DEF LinuxArmTimer
<1>19. ASSUME NEW i \in VCPUS, LinuxService(i) PROVE VirqMatchesPending'
  BY <1>19, <1>types, VirqQuiet DEF LinuxService
<1>20. ASSUME NEW i \in VCPUS, LinuxClearImsc(i) PROVE VirqMatchesPending'
  BY <1>20, <1>types, VirqQuiet DEF LinuxClearImsc
<1>21. ASSUME NEW i \in VCPUS, BareEntry(i) PROVE VirqMatchesPending'
  BY <1>21, <1>types, VirqQuiet DEF BareEntry
<1>22. ASSUME NEW i \in VCPUS, BareIrqHandler(i) PROVE VirqMatchesPending'
  BY <1>22, <1>types, VirqQuiet DEF BareIrqHandler
<1>23. CASE UNCHANGED vars
  BY <1>23, <1>types, VirqQuiet DEF vars
<1> QED
  BY <1>1, <1>2, <1>3, <1>4, <1>5, <1>6, <1>7, <1>8, <1>9, <1>10, <1>10q, <1>11, <1>12, <1>13, <1>14, <1>15, <1>16, <1>17, <1>18, <1>19, <1>20, <1>21, <1>22, <1>23
  DEF Next, Environment, PhysIrq, Trap, Guest

\* HCR_EL2.VI, live or saved, tells every vCPU whether its own bitmap has
\* something pending, however vgic.c and the context switch interleave.
THEOREM VirqCorrect == Spec => []VirqMatchesPending
<1>1. Init => VirqMatchesPending
  BY NvcpuAssumption
  DEF Init, sched_start, vgic_init, init_vcpu, VirqMatchesPending, Virq, VCPUS
<1> QED BY <1>1, TypeCorrect, VirqNext, PTL DEF Spec

-----------------------------------------------------------------------------
(* DeferredEoi is inductive over typed states as well.                     *)

\* A step that neither records, nor completes, nor acknowledges SPI 33.
LEMMA EoiQuiet ==
  ASSUME DeferredEoi,
         phys_active'[IRQ_PL011] = phys_active[IRQ_PL011],
         \A i \in VCPUS : /\ vgics'[i].has_phys_iar = vgics[i].has_phys_iar
                          /\ vgics'[i].phys_iar = vgics[i].phys_iar
  PROVE  DeferredEoi'
  BY DEF DeferredEoi

\* Acknowledging or completing another interrupt leaves SPI 33 as it was.
LEMMA OthersActive ==
  ASSUME NEW act \in [INTIDS -> 0 .. IDLE], NEW i \in INTIDS, i # IRQ_PL011
  PROVE  /\ Acked(act, gicd, i)[IRQ_PL011] = act[IRQ_PL011]
         /\ Eoied(Acked(act, gicd, i), i)[IRQ_PL011] = act[IRQ_PL011]
  BY IntidAssumption DEF Acked, Eoied

\* Every step keeps DeferredEoi: only vgic_forward_spi acknowledges SPI 33, and
\* it finds it inactive, so no vCPU owes its EOI yet.
LEMMA EoiNext == TypeOK /\ DeferredEoi /\ [Next]_vars => DeferredEoi'
<1> SUFFICES ASSUME TypeOK, DeferredEoi, [Next]_vars PROVE DeferredEoi'
  OBVIOUS
<1> USE DEF gicVars, vgicVars, schedVars, timerVars, uartVars, guestVars
<1>types. GicTypes /\ VgicTypes /\ SchedTypes /\ GuestTypes
  BY DEF TypeOK
<1>v. ASSUME NEW i \in VCPUS PROVE vgics[i] \in VgicT
  BY <1>types DEF VgicTypes
<1>c. current \in VCPUS /\ vgics[current] \in VgicT
  BY <1>types, <1>v DEF SchedTypes
<1>k. /\ IRQ_PL011 \in PENDABLE /\ IRQ_PL011 \in INTIDS
      /\ IRQ_VTIMER \in PENDABLE /\ IRQ_VTIMER \in INTIDS /\ IRQ_VTIMER # IRQ_PL011
      /\ IRQ_HTIMER \in INTIDS /\ IRQ_HTIMER # IRQ_PL011
  BY IntidAssumption DEF IRQ_PL011, IRQ_VTIMER, IRQ_HTIMER, PENDABLE
<1>forward. ASSUME vgic_forward_spi(current, IRQ_PL011, IRQ_PL011),
                   phys_active' = Acked(phys_active, gicd, IRQ_PL011),
                   Acknowledgeable(gicd, phys_active, Lines, IRQ_PL011)
            PROVE  DeferredEoi'
  <2> DEFINE u == Forwarding(vgics[current], IRQ_PL011, IRQ_PL011)
  <2>1. phys_active[IRQ_PL011] = IDLE
    BY <1>forward DEF Acknowledgeable, HighestPending, Forwarded
  <2>2. \A i \in VCPUS : ~vgics[i].has_phys_iar
    BY <2>1 DEF DeferredEoi
  <2>3. u.has_phys_iar = TRUE /\ u.phys_iar = IRQ_PL011
    BY <1>c, <1>k, VgicFields, Zenon
  <2>4. vgics' = [vgics EXCEPT ![current] = u]
    BY <1>forward DEF vgic_forward_spi
  <2>5. phys_active'[IRQ_PL011] # IDLE
    <3>1. gicd.prio[IRQ_PL011] < IDLE
      BY <1>forward DEF Acknowledgeable, HighestPending, Forwarded
    <3>2. gicd.prio[IRQ_PL011] \in PRIOS
      BY <1>k, <1>types DEF GicTypes, Gicd
    <3> QED BY <1>forward, <1>types, <1>k, <3>1, <3>2 DEF Acked, GicTypes, PRIOS, IDLE
  <2> HIDE DEF u
  <2> QED BY <1>c, <1>types, <2>2, <2>3, <2>4, <2>5 DEF VgicTypes, DeferredEoi
<1>1. CASE TickDue
  BY <1>1, EoiQuiet DEF TickDue
<1>2. ASSUME NEW i \in VCPUS, VtimerDue(i) PROVE DeferredEoi'
  BY <1>2, EoiQuiet DEF VtimerDue
<1>3. CASE RxByte
  BY <1>3, EoiQuiet DEF RxByte
<1>4. CASE HtimerIrq
  <2>1. phys_active'[IRQ_PL011] = phys_active[IRQ_PL011]
    BY <1>4, <1>k, <1>types, OthersActive DEF HtimerIrq, GicTypes
  <2> QED BY <1>4, <2>1, EoiQuiet DEF HtimerIrq
<1>5. CASE VtimerIrq
  <2>1. phys_active'[IRQ_PL011] = phys_active[IRQ_PL011]
    BY <1>5, <1>k, <1>types, OthersActive DEF VtimerIrq, GicTypes
  <2> DEFINE u == Pended(vgics[current], IRQ_VTIMER)
  <2>2. /\ u.has_phys_iar = vgics[current].has_phys_iar
        /\ u.phys_iar = vgics[current].phys_iar
    BY <1>c, <1>k, VgicFields, Zenon
  <2>3. vgics' = [vgics EXCEPT ![current] = u]
    BY <1>5 DEF VtimerIrq, vgic_inject
  <2> HIDE DEF u
  <2>4. \A i \in VCPUS : /\ vgics'[i].has_phys_iar = vgics[i].has_phys_iar
                         /\ vgics'[i].phys_iar = vgics[i].phys_iar
    BY <1>types, <2>2, <2>3 DEF VgicTypes
  <2> QED BY <2>1, <2>4, EoiQuiet
<1>6. CASE Pl011Irq
  BY <1>6, <1>forward DEF Pl011Irq, IarReturns
<1>7. ASSUME NEW i \in INTIDS, OtherIrq(i) PROVE DeferredEoi'
  <2>1. phys_active'[IRQ_PL011] = phys_active[IRQ_PL011]
    BY <1>7, <1>k, <1>types, OthersActive DEF OtherIrq, GicTypes
  <2> QED BY <1>7, <2>1, EoiQuiet DEF OtherIrq
<1>8. ASSUME NEW i \in VCPUS, HandleWfi(i) PROVE DeferredEoi'
  BY <1>8, EoiQuiet DEF HandleWfi
<1>9. CASE HandleWfiIar
  <2>1. CASE /\ Acknowledgeable(gicd, phys_active, Lines, IRQ_PL011)
             /\ phys_active' = Acked(phys_active, gicd, IRQ_PL011)
             /\ vgic_forward_spi(current, IRQ_PL011, IRQ_PL011)
    BY <2>1, <1>forward
  <2>2. ASSUME NEW i \in INTIDS \ {IRQ_PL011},
               phys_active' = Acked(phys_active, gicd, i), UNCHANGED vgicVars
        PROVE  DeferredEoi'
    <3>1. phys_active'[IRQ_PL011] = phys_active[IRQ_PL011]
      BY <2>2, <1>types, OthersActive DEF GicTypes
    <3> QED BY <2>2, <3>1, EoiQuiet
  <2>3. CASE UNCHANGED <<gicVars, vgicVars>>
    BY <2>3, EoiQuiet
  <2> QED BY <1>9, <2>1, <2>2, <2>3 DEF HandleWfiIar
<1>10. ASSUME NEW i \in VCPUS, NEW w \in GICD_OPS, MmioGicd(i, w) PROVE DeferredEoi'
  BY <1>10, EoiQuiet DEF MmioGicd
<1>10q. ASSUME NEW i \in VCPUS, MmioQuiet(i) PROVE DeferredEoi'
  BY <1>10q, EoiQuiet DEF MmioQuiet
<1>11. ASSUME NEW i \in VCPUS, NEW n \in PENDABLE \cup {NO_INTID}, MmioIar(i, n)
       PROVE  DeferredEoi'
  <2>1. CASE n = NO_INTID
    BY <1>11, <2>1, EoiQuiet DEF MmioIar, read_iar
  <2>2. CASE n # NO_INTID
    <3> DEFINE u == IarRead(vgics[i], n)
    <3>1. u.has_phys_iar = vgics[i].has_phys_iar /\ u.phys_iar = vgics[i].phys_iar
      BY <1>v, <2>2, VgicFields
    <3>2. vgics' = [vgics EXCEPT ![i] = u] /\ phys_active' = phys_active
      BY <1>11, <2>2 DEF MmioIar, read_iar
    <3> HIDE DEF u
    <3>3. \A j \in VCPUS : /\ vgics'[j].has_phys_iar = vgics[j].has_phys_iar
                           /\ vgics'[j].phys_iar = vgics[j].phys_iar
      BY <1>types, <3>1, <3>2 DEF VgicTypes
    <3> QED BY <3>2, <3>3, EoiQuiet
  <2> QED BY <2>1, <2>2
<1>12. ASSUME NEW i \in VCPUS, MmioEoir(i) PROVE DeferredEoi'
  <2> DEFINE u == EoirWritten(vgics[i], irqstat[i])
  <2>1. /\ u.has_phys_iar = (vgics[i].has_phys_iar /\ ~Defers(vgics[i], irqstat[i]))
        /\ u.phys_iar = vgics[i].phys_iar
    BY <1>v, CompletionFields
  <2>2. /\ vgics' = [vgics EXCEPT ![i] = u]
        /\ phys_active' = IF Defers(vgics[i], irqstat[i])
                          THEN Eoied(phys_active, irqstat[i]) ELSE phys_active
    BY <1>12 DEF MmioEoir, write_eoir
  <2> HIDE DEF u
  <2>3. CASE Defers(vgics[i], irqstat[i])
    <3>1. vgics[i].has_phys_iar /\ irqstat[i] = IRQ_PL011
      BY <2>3 DEF Defers, DeferredEoi
    <3>2. phys_active'[IRQ_PL011] = IDLE
      BY <2>2, <2>3, <3>1, <1>types, <1>k DEF Eoied, GicTypes
    <3>3. \A j \in VCPUS : ~vgics'[j].has_phys_iar
      BY <2>1, <2>2, <2>3, <3>1, <1>types DEF VgicTypes, DeferredEoi
    <3> QED BY <3>2, <3>3 DEF DeferredEoi
  <2>4. CASE ~Defers(vgics[i], irqstat[i])
    <3>1. vgics[i].has_phys_iar \in BOOLEAN
      BY <1>v DEF VgicT
    <3>2. \A j \in VCPUS : /\ vgics'[j].has_phys_iar = vgics[j].has_phys_iar
                           /\ vgics'[j].phys_iar = vgics[j].phys_iar
      BY <1>types, <2>1, <2>2, <2>4, <3>1 DEF VgicTypes
    <3> QED BY <2>2, <2>4, <3>2, EoiQuiet
  <2> QED BY <2>3, <2>4
<1>13. ASSUME NEW i \in VCPUS, NEW op \in STORED_OPS, MmioStored(i, op) PROVE DeferredEoi'
  <2> DEFINE u == StoredWritten(vgics[i], op[1], op[2])
  <2>1. u.has_phys_iar = vgics[i].has_phys_iar /\ u.phys_iar = vgics[i].phys_iar
    BY <1>v, StoredTyped, GuestAssumption
  <2>2. vgics' = [vgics EXCEPT ![i] = u] /\ phys_active' = phys_active
    BY <1>13 DEF MmioStored, write_stored
  <2> HIDE DEF u
  <2>3. \A j \in VCPUS : /\ vgics'[j].has_phys_iar = vgics[j].has_phys_iar
                         /\ vgics'[j].phys_iar = vgics[j].phys_iar
    BY <1>types, <2>1, <2>2 DEF VgicTypes
  <2> QED BY <2>2, <2>3, EoiQuiet
<1>14. ASSUME NEW i \in VCPUS, HvcIrqDone(i) PROVE DeferredEoi'
  <2> DEFINE u == AllAcked(vgics[current])
  <2>1. u.has_phys_iar = FALSE
    BY <1>c, CompletionFields
  <2>2. /\ vgics' = [vgics EXCEPT ![current] = u]
        /\ phys_active' = IF vgics[current].has_phys_iar
                          THEN Eoied(phys_active, vgics[current].phys_iar)
                          ELSE phys_active
    BY <1>14 DEF HvcIrqDone, vgic_ack_all
  <2> HIDE DEF u
  <2>3. CASE vgics[current].has_phys_iar
    <3>1. phys_active'[IRQ_PL011] = IDLE
      BY <2>2, <2>3, <1>c, <1>types, <1>k DEF Eoied, GicTypes, DeferredEoi
    <3>2. \A j \in VCPUS : ~vgics'[j].has_phys_iar
      BY <2>1, <2>2, <2>3, <1>c, <1>types DEF VgicTypes, DeferredEoi
    <3> QED BY <3>1, <3>2 DEF DeferredEoi
  <2>4. CASE ~vgics[current].has_phys_iar
    <3>1. phys_active' = phys_active
      BY <2>2, <2>4
    <3>2. \A j \in VCPUS : vgics'[j].has_phys_iar =>
            vgics[j].has_phys_iar /\ vgics'[j].phys_iar = vgics[j].phys_iar
      BY <2>1, <2>2, <1>types DEF VgicTypes
    <3>3. \A j \in VCPUS : vgics[j].has_phys_iar => vgics'[j].has_phys_iar
      BY <2>2, <2>4, <1>types DEF VgicTypes
    <3> QED BY <3>1, <3>2, <3>3 DEF DeferredEoi
  <2> QED BY <2>3, <2>4
<1>15. ASSUME NEW i \in VCPUS, TakeVirq(i) PROVE DeferredEoi'
  BY <1>15, EoiQuiet DEF TakeVirq
<1>16. ASSUME NEW i \in VCPUS, Unmask(i) PROVE DeferredEoi'
  BY <1>16, EoiQuiet DEF Unmask
<1>17. ASSUME NEW i \in VCPUS, Mask(i) PROVE DeferredEoi'
  BY <1>17, EoiQuiet DEF Mask
<1>18. ASSUME NEW i \in VCPUS, LinuxArmTimer(i) PROVE DeferredEoi'
  BY <1>18, EoiQuiet DEF LinuxArmTimer
<1>19. ASSUME NEW i \in VCPUS, LinuxService(i) PROVE DeferredEoi'
  BY <1>19, EoiQuiet DEF LinuxService
<1>20. ASSUME NEW i \in VCPUS, LinuxClearImsc(i) PROVE DeferredEoi'
  BY <1>20, EoiQuiet DEF LinuxClearImsc
<1>21. ASSUME NEW i \in VCPUS, BareEntry(i) PROVE DeferredEoi'
  BY <1>21, EoiQuiet DEF BareEntry
<1>22. ASSUME NEW i \in VCPUS, BareIrqHandler(i) PROVE DeferredEoi'
  BY <1>22, EoiQuiet DEF BareIrqHandler
<1>23. CASE UNCHANGED vars
  BY <1>23, EoiQuiet DEF vars
<1> QED
  BY <1>1, <1>2, <1>3, <1>4, <1>5, <1>6, <1>7, <1>8, <1>9, <1>10, <1>10q, <1>11, <1>12, <1>13, <1>14, <1>15, <1>16, <1>17, <1>18, <1>19, <1>20, <1>21, <1>22, <1>23
  DEF Next, Environment, PhysIrq, Trap, Guest

\* The EOI deferred by vgic_forward_spi is owed by exactly one vCPU for as long
\* as SPI 33 is active, and by none otherwise.
THEOREM DeferredEoiCorrect == Spec => []DeferredEoi
<1>1. Init => DeferredEoi
  BY IntidAssumption, SMTT(60) DEF Init, gic_init_el2, sched_start, vgic_init, DeferredEoi
<1> QED BY <1>1, TypeCorrect, EoiNext, PTL DEF Spec

-----------------------------------------------------------------------------
(* The tick.                                                               *)

\* No distributor write made at EL2 turns PPI 26 off.
LEMMA TickKept ==
  ASSUME NEW g \in Gicd, IRQ_HTIMER \in g.enabled
  PROVE  /\ IRQ_HTIMER \in reassert_pl011(g).enabled
         /\ IRQ_HTIMER \in wfi_gicd(g).enabled
         /\ \A i : IRQ_HTIMER \in [g EXCEPT !.sgi = @ \ {i}].enabled
  BY DEF reassert_pl011, wfi_gicd, Gicd

\* Every step keeps TickStaysOn: a guest write to the distributor is followed
\* by reassert_htimer_ppi in the same handler.
LEMMA TickNext == TypeOK /\ TickStaysOn /\ [Next]_vars => TickStaysOn'
<1> SUFFICES ASSUME TypeOK, TickStaysOn, [Next]_vars PROVE TickStaysOn'
  OBVIOUS
<1> USE DEF gicVars, vgicVars, schedVars, timerVars, uartVars, guestVars, TickStaysOn
<1>g. gicd \in Gicd
  BY DEF TypeOK, GicTypes
<1>tail. ASSUME NEW g \in Gicd, MmioTail(g) PROVE IRQ_HTIMER \in gicd'.enabled
  BY <1>tail, ReassertedTyped DEF MmioTail
<1>1. CASE TickDue
  BY <1>1 DEF TickDue
<1>2. ASSUME NEW i \in VCPUS, VtimerDue(i) PROVE TickStaysOn'
  BY <1>2 DEF VtimerDue
<1>3. CASE RxByte
  BY <1>3 DEF RxByte
<1>4. CASE HtimerIrq
  BY <1>4, <1>g, TickKept DEF HtimerIrq, arm_hyp_timer
<1>5. CASE VtimerIrq
  BY <1>5 DEF VtimerIrq
<1>6. CASE Pl011Irq
  BY <1>6 DEF Pl011Irq
<1>7. ASSUME NEW i \in INTIDS, OtherIrq(i) PROVE TickStaysOn'
  BY <1>7, <1>g, TickKept DEF OtherIrq
<1>8. ASSUME NEW i \in VCPUS, HandleWfi(i) PROVE TickStaysOn'
  BY <1>8, <1>g, TickKept DEF HandleWfi
<1>9. CASE HandleWfiIar
  <2>1. gicd' = gicd \/ \E i \in INTIDS : gicd' = [gicd EXCEPT !.sgi = @ \ {i}]
    BY <1>9 DEF HandleWfiIar
  <2> QED BY <1>9, <2>1, <1>g, TickKept DEF HandleWfiIar
<1>10. ASSUME NEW i \in VCPUS, NEW w \in GICD_OPS, MmioGicd(i, w) PROVE TickStaysOn'
  <2>1. GicdWritten(gicd, w) \in Gicd
    BY <1>g, GicdTyped, GuestAssumption
  <2> QED BY <1>10, <2>1, <1>tail DEF MmioGicd
<1>10q. ASSUME NEW i \in VCPUS, MmioQuiet(i) PROVE TickStaysOn'
  BY <1>10q, <1>g, <1>tail DEF MmioQuiet
<1>11. ASSUME NEW i \in VCPUS, NEW n \in PENDABLE \cup {NO_INTID}, MmioIar(i, n)
       PROVE  TickStaysOn'
  BY <1>11, <1>g, <1>tail DEF MmioIar
<1>12. ASSUME NEW i \in VCPUS, MmioEoir(i) PROVE TickStaysOn'
  BY <1>12, <1>g, <1>tail DEF MmioEoir
<1>13. ASSUME NEW i \in VCPUS, NEW op \in STORED_OPS, MmioStored(i, op) PROVE TickStaysOn'
  BY <1>13, <1>g, <1>tail DEF MmioStored
<1>14. ASSUME NEW i \in VCPUS, HvcIrqDone(i) PROVE TickStaysOn'
  BY <1>14 DEF HvcIrqDone
<1>15. ASSUME NEW i \in VCPUS, TakeVirq(i) PROVE TickStaysOn'
  BY <1>15 DEF TakeVirq
<1>16. ASSUME NEW i \in VCPUS, Unmask(i) PROVE TickStaysOn'
  BY <1>16 DEF Unmask
<1>17. ASSUME NEW i \in VCPUS, Mask(i) PROVE TickStaysOn'
  BY <1>17 DEF Mask
<1>18. ASSUME NEW i \in VCPUS, LinuxArmTimer(i) PROVE TickStaysOn'
  BY <1>18 DEF LinuxArmTimer
<1>19. ASSUME NEW i \in VCPUS, LinuxService(i) PROVE TickStaysOn'
  BY <1>19 DEF LinuxService
<1>20. ASSUME NEW i \in VCPUS, LinuxClearImsc(i) PROVE TickStaysOn'
  BY <1>20 DEF LinuxClearImsc
<1>21. ASSUME NEW i \in VCPUS, BareEntry(i) PROVE TickStaysOn'
  BY <1>21 DEF BareEntry
<1>22. ASSUME NEW i \in VCPUS, BareIrqHandler(i) PROVE TickStaysOn'
  BY <1>22 DEF BareIrqHandler
<1>23. CASE UNCHANGED vars
  BY <1>23 DEF vars
<1> QED
  BY <1>1, <1>2, <1>3, <1>4, <1>5, <1>6, <1>7, <1>8, <1>9, <1>10, <1>10q, <1>11, <1>12, <1>13, <1>14, <1>15, <1>16, <1>17, <1>18, <1>19, <1>20, <1>21, <1>22, <1>23
  DEF Next, Environment, PhysIrq, Trap, Guest

\* Whatever a guest writes to the distributor through vgic_mmio, PPI 26 is
\* enabled and CNTHP is running whenever a guest executes.
THEOREM TickCorrect == Spec => []TickStaysOn
<1>1. Init => TickStaysOn
  BY DEF Init, gic_init_el2, sched_start, TickStaysOn
<1> QED BY <1>1, TypeCorrect, TickNext, PTL DEF Spec

-----------------------------------------------------------------------------
(* The three invariants that tie a guest's own progress to its vgic_t: the *)
(* single active slot is exact, a deferred EOI is always still to come,    *)
(* and no timer interrupt of a Linux guest is lost.  Each is inductive     *)
(* over states that satisfy TypeOK and DeferredEoi.                        *)

Busy(i) == pc[i] \in {"isr", "eoi"}

SlotInv == ActiveSlotIsExact /\ DeferredEoiIsComing

\* What the operations on a vgic_t do to its active slot.
LEMMA ActiveFields ==
  ASSUME NEW v \in VgicT, NEW n \in PENDABLE
  PROVE  /\ Pended(v, n).active = v.active
         /\ Forwarding(v, n, IRQ_PL011).active = v.active
         /\ IarRead(v, n).active = n
         /\ EoirWritten(v, v.active).active = NO_INTID
  BY DEF Pended, Forwarding, IarRead, EoirWritten, VgicT, PENDABLE

\* A step that leaves every vgic_t alone and moves no guest into or out of its
\* interrupt handler.
LEMMA SlotQuiet ==
  ASSUME TypeOK, SlotInv, vgics' = vgics, irqstat' = irqstat,
         \A i \in VCPUS : pc'[i] \in {"isr", "eoi"} <=> Busy(i)
  PROVE  SlotInv'
  BY GuestAssumption DEF SlotInv, ActiveSlotIsExact, DeferredEoiIsComing, Busy

\* A step that pends an interrupt to one vCPU, with or without its deferred
\* EOI (vgic_inject, vgic_forward_spi).
LEMMA SlotPends ==
  ASSUME TypeOK, SlotInv, UNCHANGED <<pc, irqstat>>, NEW c \in VCPUS, NEW u,
         vgics' = [vgics EXCEPT ![c] = u],
         u.active = vgics[c].active,
         vgics[c].pending_mask \subseteq u.pending_mask,
         u.has_phys_iar => vgics[c].has_phys_iar \/ IRQ_PL011 \in u.pending_mask
  PROVE  SlotInv'
  <1>1. /\ vgics \in [VCPUS -> VgicT]
    BY DEF TypeOK, VgicTypes
  <1>2. ActiveSlotIsExact'
    BY <1>1, GuestAssumption DEF SlotInv, ActiveSlotIsExact
  <1>3. DeferredEoiIsComing'
    <2> SUFFICES ASSUME NEW i \in VCPUS, vgics'[i].has_phys_iar
                 PROVE  \/ IRQ_PL011 \in vgics'[i].pending_mask
                        \/ i \in LINUX /\ Busy(i) /\ irqstat[i] = IRQ_PL011
      BY DEF DeferredEoiIsComing, Busy
    <2>1. CASE i = c
      BY <1>1, <2>1 DEF SlotInv, DeferredEoiIsComing, Busy
    <2>2. CASE i # c
      BY <1>1, <2>2 DEF SlotInv, DeferredEoiIsComing, Busy
    <2> QED BY <2>1, <2>2
  <1> QED BY <1>2, <1>3 DEF SlotInv

\* Every step keeps SlotInv.  Only a guest's own GICC_IAR and GICC_EOIR move it
\* in and out of its handler, and they move the active slot with it; the
\* virtual SPI 33 leaves the bitmap only into that slot, and the slot only with
\* the physical EOI.
LEMMA SlotNext == TypeOK /\ DeferredEoi /\ SlotInv /\ [Next]_vars => SlotInv'
<1> SUFFICES ASSUME TypeOK, DeferredEoi, SlotInv, [Next]_vars PROVE SlotInv'
  OBVIOUS
<1> USE DEF gicVars, vgicVars, schedVars, timerVars, uartVars, guestVars
<1>types. VgicTypes /\ SchedTypes /\ GuestTypes
  BY DEF TypeOK
<1>v. ASSUME NEW i \in VCPUS PROVE vgics[i] \in VgicT
  BY <1>types DEF VgicTypes
<1>c. current \in VCPUS /\ vgics[current] \in VgicT
  BY <1>types, <1>v DEF SchedTypes
<1>k. IRQ_PL011 \in PENDABLE /\ IRQ_VTIMER \in PENDABLE
  BY DEF IRQ_PL011, IRQ_VTIMER, PENDABLE
<1>quiet. ASSUME UNCHANGED <<vgics, irqstat, pc>> PROVE SlotInv'
  BY <1>quiet, SlotQuiet DEF Busy
<1>moves. ASSUME NEW i \in VCPUS, NEW from, NEW to, Moves(i, from, to), UNCHANGED <<vgics, irqstat>>,
                 from \in {"isr", "eoi"} <=> to \in {"isr", "eoi"}
          PROVE  SlotInv'
  <2>1. pc \in [VCPUS -> LINUX_PC \cup BARE_PC] /\ pc[i] = from /\ pc' = [pc EXCEPT ![i] = to]
    BY <1>moves, <1>types DEF Moves, At, GuestTypes
  <2> QED BY <1>moves, <2>1, SlotQuiet DEF Busy
<1>forward. ASSUME vgic_forward_spi(current, IRQ_PL011, IRQ_PL011), UNCHANGED <<pc, irqstat>>
            PROVE  SlotInv'
  <2> DEFINE u == Forwarding(vgics[current], IRQ_PL011, IRQ_PL011)
  <2>1. u.active = vgics[current].active
    BY <1>c, <1>k, ActiveFields, Zenon
  <2>2. u.pending_mask = vgics[current].pending_mask \cup {IRQ_PL011}
    BY <1>c, <1>k, VgicFields, Zenon
  <2>3. vgics' = [vgics EXCEPT ![current] = u]
    BY <1>forward DEF vgic_forward_spi
  <2> HIDE DEF u
  <2> QED BY <1>c, <1>forward, <2>1, <2>2, <2>3, SlotPends
<1>1. CASE Environment
  BY <1>1, <1>quiet DEF Environment, TickDue, VtimerDue, RxByte
<1>2. CASE HtimerIrq
  BY <1>2, <1>quiet DEF HtimerIrq
<1>3. CASE VtimerIrq
  <2> DEFINE u == Pended(vgics[current], IRQ_VTIMER)
  <2>1. u.active = vgics[current].active
    BY <1>c, <1>k, ActiveFields, Zenon
  <2>2. /\ u.pending_mask = vgics[current].pending_mask \cup {IRQ_VTIMER}
        /\ u.has_phys_iar = vgics[current].has_phys_iar
    BY <1>c, <1>k, VgicFields, Zenon
  <2>3. vgics' = [vgics EXCEPT ![current] = u] /\ UNCHANGED <<pc, irqstat>>
    BY <1>3 DEF VtimerIrq, vgic_inject
  <2> HIDE DEF u
  <2> QED BY <1>c, <2>1, <2>2, <2>3, SlotPends
<1>4. CASE Pl011Irq
  BY <1>4, <1>forward DEF Pl011Irq
<1>5. ASSUME NEW i \in INTIDS, OtherIrq(i) PROVE SlotInv'
  BY <1>5, <1>quiet DEF OtherIrq
<1>6. ASSUME NEW i \in VCPUS, HandleWfi(i) PROVE SlotInv'
  BY <1>6, <1>quiet DEF HandleWfi
<1>7. CASE HandleWfiIar
  BY <1>7, <1>forward, <1>quiet DEF HandleWfiIar
<1>8. ASSUME NEW i \in VCPUS, NEW w \in GICD_OPS, MmioGicd(i, w) PROVE SlotInv'
  BY <1>8, <1>quiet DEF MmioGicd
<1>9. ASSUME NEW i \in VCPUS, MmioQuiet(i) PROVE SlotInv'
  BY <1>9, <1>quiet DEF MmioQuiet
<1>10. ASSUME NEW i \in VCPUS, NEW n \in PENDABLE \cup {NO_INTID}, MmioIar(i, n)
       PROVE  SlotInv'
  <2>1. /\ i \in LINUX /\ pc[i] = "irq"
        /\ irqstat' = [irqstat EXCEPT ![i] = n]
        /\ pc' = [pc EXCEPT ![i] = IF n = NO_INTID THEN "run" ELSE "isr"]
    BY <1>10 DEF MmioIar, At
  <2>2. vgics[i].active = NO_INTID
    BY <2>1 DEF SlotInv, ActiveSlotIsExact
  <2>3. vgics[i].has_phys_iar => IRQ_PL011 \in vgics[i].pending_mask
    BY <2>1 DEF SlotInv, DeferredEoiIsComing
  <2>4. PICK u : /\ vgics' = [vgics EXCEPT ![i] = u]
                 /\ u.active = n
                 /\ u.has_phys_iar =>
                      IRQ_PL011 \in u.pending_mask \/ (n # NO_INTID /\ n = IRQ_PL011)
    <3>1. CASE n = NO_INTID
      <4>1. vgics' = [vgics EXCEPT ![i] = vgics[i]]
        BY <1>10, <1>types, <3>1 DEF MmioIar, read_iar, VgicTypes
      <4> QED BY <2>2, <2>3, <3>1, <4>1
    <3>2. CASE n # NO_INTID
      <4> DEFINE w == IarRead(vgics[i], n)
      <4>1. n \in PENDABLE
        BY <3>2
      <4>2. w.active = n
        BY <1>v, <4>1, ActiveFields, Zenon
      <4>3. w.pending_mask = vgics[i].pending_mask \ {n} /\ w.has_phys_iar = vgics[i].has_phys_iar
        BY <1>v, <4>1, VgicFields, Zenon
      <4>4. vgics' = [vgics EXCEPT ![i] = w]
        BY <1>10, <3>2 DEF MmioIar, read_iar
      <4> HIDE DEF w
      <4> QED BY <2>3, <3>2, <4>2, <4>3, <4>4
    <3> QED BY <3>1, <3>2
  <2>5. ActiveSlotIsExact'
    <3> SUFFICES ASSUME NEW j \in LINUX
                 PROVE  vgics'[j].active = IF pc'[j] \in {"isr", "eoi"} THEN irqstat'[j] ELSE NO_INTID
      BY DEF ActiveSlotIsExact
    <3>1. j \in VCPUS
      BY GuestAssumption
    <3>2. CASE j = i
      BY <1>types, <2>1, <2>4, <3>1, <3>2 DEF VgicTypes, GuestTypes
    <3>3. CASE j # i
      BY <1>types, <2>1, <2>4, <3>1, <3>3 DEF VgicTypes, GuestTypes, SlotInv, ActiveSlotIsExact
    <3> QED BY <3>2, <3>3
  <2>6. DeferredEoiIsComing'
    <3> SUFFICES ASSUME NEW j \in VCPUS, vgics'[j].has_phys_iar
                 PROVE  \/ IRQ_PL011 \in vgics'[j].pending_mask
                        \/ j \in LINUX /\ pc'[j] \in {"isr", "eoi"} /\ irqstat'[j] = IRQ_PL011
      BY DEF DeferredEoiIsComing
    <3>1. CASE j = i
      BY <1>types, <2>1, <2>4, <3>1 DEF VgicTypes, GuestTypes
    <3>2. CASE j # i
      BY <1>types, <2>1, <2>4, <3>2 DEF VgicTypes, GuestTypes, SlotInv, DeferredEoiIsComing
    <3> QED BY <3>1, <3>2
  <2> QED BY <2>5, <2>6 DEF SlotInv
<1>11. ASSUME NEW i \in VCPUS, MmioEoir(i) PROVE SlotInv'
  <2> DEFINE u == EoirWritten(vgics[i], irqstat[i])
  <2>1. /\ i \in LINUX /\ pc[i] = "eoi" /\ irqstat' = irqstat
        /\ pc' = [pc EXCEPT ![i] = "irq"]
        /\ vgics' = [vgics EXCEPT ![i] = u]
    BY <1>11 DEF MmioEoir, At, write_eoir
  <2>2. vgics[i].active = irqstat[i]
    BY <2>1 DEF SlotInv, ActiveSlotIsExact
  <2>3. u.active = NO_INTID
    <3>1. vgics[i] \in VgicT
      BY <1>v
    <3> QED BY <1>k, <2>2, <3>1, ActiveFields
  <2>4. /\ u.pending_mask = vgics[i].pending_mask
        /\ u.has_phys_iar = (vgics[i].has_phys_iar /\ ~Defers(vgics[i], irqstat[i]))
    BY <1>v, CompletionFields, Zenon
  <2>5. u.has_phys_iar => IRQ_PL011 \in u.pending_mask
    BY <2>4 DEF Defers, DeferredEoi, SlotInv, DeferredEoiIsComing
  <2> HIDE DEF u
  <2>6. ActiveSlotIsExact'
    <3> SUFFICES ASSUME NEW j \in LINUX
                 PROVE  vgics'[j].active = IF pc'[j] \in {"isr", "eoi"} THEN irqstat'[j] ELSE NO_INTID
      BY DEF ActiveSlotIsExact
    <3>1. j \in VCPUS
      BY GuestAssumption
    <3>2. CASE j = i
      BY <1>types, <2>1, <2>3, <3>1, <3>2 DEF VgicTypes, GuestTypes
    <3>3. CASE j # i
      BY <1>types, <2>1, <3>1, <3>3 DEF VgicTypes, GuestTypes, SlotInv, ActiveSlotIsExact
    <3> QED BY <3>2, <3>3
  <2>7. DeferredEoiIsComing'
    <3> SUFFICES ASSUME NEW j \in VCPUS, vgics'[j].has_phys_iar
                 PROVE  \/ IRQ_PL011 \in vgics'[j].pending_mask
                        \/ j \in LINUX /\ pc'[j] \in {"isr", "eoi"} /\ irqstat'[j] = IRQ_PL011
      BY DEF DeferredEoiIsComing
    <3>1. CASE j = i
      BY <1>types, <2>1, <2>5, <3>1 DEF VgicTypes
    <3>2. CASE j # i
      BY <1>types, <2>1, <3>2 DEF VgicTypes, GuestTypes, SlotInv, DeferredEoiIsComing
    <3> QED BY <3>1, <3>2
  <2> QED BY <2>6, <2>7 DEF SlotInv
<1>12. ASSUME NEW i \in VCPUS, NEW op \in STORED_OPS, MmioStored(i, op) PROVE SlotInv'
  <2> DEFINE u == StoredWritten(vgics[i], op[1], op[2])
  <2>1. /\ u.active = vgics[i].active /\ u.pending_mask = vgics[i].pending_mask
        /\ u.has_phys_iar = vgics[i].has_phys_iar
    BY <1>v, StoredTyped, GuestAssumption
  <2>2. vgics' = [vgics EXCEPT ![i] = u] /\ UNCHANGED <<pc, irqstat>>
    BY <1>12 DEF MmioStored, write_stored
  <2> HIDE DEF u
  <2> QED BY <2>1, <2>2, SlotPends
<1>13. ASSUME NEW i \in VCPUS, HvcIrqDone(i) PROVE SlotInv'
  <2> DEFINE u == AllAcked(vgics[i])
  <2>1. /\ i \notin LINUX /\ irqstat' = irqstat /\ pc' = [pc EXCEPT ![i] = "run"]
        /\ vgics' = [vgics EXCEPT ![i] = u]
    BY <1>13 DEF HvcIrqDone, vgic_ack_all, At, Runs, BARE
  <2>2. u.has_phys_iar = FALSE
    BY <1>v, CompletionFields
  <2> HIDE DEF u
  <2>3. ActiveSlotIsExact'
    BY <1>types, <2>1, GuestAssumption DEF VgicTypes, GuestTypes, SlotInv, ActiveSlotIsExact
  <2>4. DeferredEoiIsComing'
    BY <1>types, <2>1, <2>2 DEF VgicTypes, GuestTypes, SlotInv, DeferredEoiIsComing
  <2> QED BY <2>3, <2>4 DEF SlotInv
<1>14. ASSUME NEW i \in VCPUS,
              TakeVirq(i) \/ Unmask(i) \/ Mask(i) \/ LinuxService(i) \/ BareEntry(i) \/ BareIrqHandler(i)
       PROVE  SlotInv'
  <2>1. CASE TakeVirq(i)
    BY <2>1, <1>moves DEF TakeVirq
  <2>2. CASE Unmask(i)
    BY <2>2, <1>moves DEF Unmask
  <2>3. CASE Mask(i)
    BY <2>3, <1>moves DEF Mask
  <2>4. CASE LinuxService(i)
    BY <2>4, <1>moves DEF LinuxService
  <2>5. CASE BareEntry(i)
    BY <2>5, <1>moves DEF BareEntry
  <2>6. CASE BareIrqHandler(i)
    BY <2>6, <1>moves DEF BareIrqHandler
  <2> QED BY <1>14, <2>1, <2>2, <2>3, <2>4, <2>5, <2>6
<1>15. ASSUME NEW i \in VCPUS, LinuxArmTimer(i) \/ LinuxClearImsc(i) PROVE SlotInv'
  BY <1>15, <1>quiet DEF LinuxArmTimer, LinuxClearImsc
<1>16. CASE UNCHANGED vars
  BY <1>16, <1>quiet DEF vars
<1> QED
  BY <1>1, <1>2, <1>3, <1>4, <1>5, <1>6, <1>7, <1>8, <1>9, <1>10, <1>11, <1>12, <1>13, <1>14, <1>15, <1>16
  DEF Next, PhysIrq, Trap, Guest

\* GICC_IAR returns one pending interrupt for one vCPU in its handler, so the
\* slot is never overwritten and always tells what the guest is handling.
THEOREM ActiveSlotCorrect == Spec => []ActiveSlotIsExact
<1>1. Init => SlotInv
  BY GuestAssumption DEF Init, sched_start, vgic_init, SlotInv, ActiveSlotIsExact, DeferredEoiIsComing
<1>2. SlotInv => ActiveSlotIsExact
  BY DEF SlotInv
<1> QED BY <1>1, <1>2, TypeCorrect, DeferredEoiCorrect, SlotNext, PTL DEF Spec

\* A vCPU that owes the physical EOI of SPI 33 has the virtual interrupt still
\* pending or is in its handler, so write_eoir (vgic.c) is yet to be reached.
THEOREM EoiIsComingCorrect == Spec => []DeferredEoiIsComing
<1>1. Init => SlotInv
  BY GuestAssumption DEF Init, sched_start, vgic_init, SlotInv, ActiveSlotIsExact, DeferredEoiIsComing
<1>2. SlotInv => DeferredEoiIsComing
  BY DEF SlotInv
<1> QED BY <1>1, <1>2, TypeCorrect, DeferredEoiCorrect, SlotNext, PTL DEF Spec

-----------------------------------------------------------------------------
(* The timer.                                                              *)

\* A step that stops no running timer, takes no 27 from a bitmap and leaves a
\* deadline only behind a running timer.
LEMMA TimerQuiet ==
  ASSUME LinuxTimerKept,
         \A i \in LINUX :
           /\ Vtimer(i) # "off" => Vtimer(i)' # "off"
           /\ IRQ_VTIMER \in vgics[i].pending_mask => IRQ_VTIMER \in vgics'[i].pending_mask
           /\ deadline'[i] => deadline[i] \/ Vtimer(i)' # "off"
  PROVE  LinuxTimerKept'
  BY DEF LinuxTimerKept, TimerKept

\* The tick moves a vCPU's virtual timer between the register and its context,
\* and changes none.
LEMMA TickMovesTimers ==
  ASSUME TypeOK, sched_tick, NEW i \in VCPUS
  PROVE  Vtimer(i)' = Vtimer(i)
  <1>1. current \in VCPUS /\ vcpus \in [VCPUS -> VcpuT]
    BY DEF TypeOK, SchedTypes
  <1>2. CASE NVCPU > 1
    <2> DEFINE next == (current + 1) % NVCPU
    <2>1. /\ vcpus' = [vcpus EXCEPT ![current] = [vi |-> vi, cntv |-> cntv]]
          /\ current' = next /\ cntv' = vcpus[next].cntv
      BY <1>2 DEF sched_tick, load_vcpu, save_vcpu
    <2>2. next # current
      BY <1>1, <1>2, NvcpuAssumption DEF VCPUS
    <2> HIDE DEF next
    <2> QED BY <1>1, <2>1, <2>2 DEF Vtimer
  <1>3. CASE ~(NVCPU > 1)
    BY <1>3 DEF sched_tick, Vtimer
  <1> QED BY <1>2, <1>3

\* Every step keeps LinuxTimerKept: the handler that stops CNTV pends 27 to the
\* vCPU whose timer it was, and only the guest's GICC_IAR takes it back out.
LEMMA TimerNext == TypeOK /\ LinuxTimerKept /\ [Next]_vars => LinuxTimerKept'
<1> SUFFICES ASSUME TypeOK, LinuxTimerKept, [Next]_vars PROVE LinuxTimerKept'
  OBVIOUS
<1> USE DEF gicVars, vgicVars, schedVars, timerVars, uartVars, guestVars
<1>types. VgicTypes /\ SchedTypes /\ GuestTypes
  BY DEF TypeOK
<1>v. ASSUME NEW i \in VCPUS PROVE vgics[i] \in VgicT
  BY <1>types DEF VgicTypes
<1>c. current \in VCPUS /\ vgics[current] \in VgicT
  BY <1>types, <1>v DEF SchedTypes
<1>k. IRQ_PL011 \in PENDABLE /\ IRQ_VTIMER \in PENDABLE
  BY DEF IRQ_PL011, IRQ_VTIMER, PENDABLE
<1>l. \A i \in LINUX : i \in VCPUS
  BY GuestAssumption
<1>quiet. ASSUME UNCHANGED <<vgics, cntv, current, vcpus, deadline>> PROVE LinuxTimerKept'
  BY <1>quiet, TimerQuiet DEF Vtimer
<1>mask. ASSUME NEW c \in VCPUS, NEW u, vgics' = [vgics EXCEPT ![c] = u],
                vgics[c].pending_mask \subseteq u.pending_mask,
                UNCHANGED <<cntv, current, vcpus, deadline>>
         PROVE  LinuxTimerKept'
  <2>1. \A i \in LINUX : IRQ_VTIMER \in vgics[i].pending_mask => IRQ_VTIMER \in vgics'[i].pending_mask
    BY <1>mask, <1>types, <1>l DEF VgicTypes
  <2> QED BY <1>mask, <2>1, TimerQuiet DEF Vtimer
<1>forward. ASSUME vgic_forward_spi(current, IRQ_PL011, IRQ_PL011),
                   UNCHANGED <<cntv, current, vcpus, deadline>>
            PROVE  LinuxTimerKept'
  <2> DEFINE u == Forwarding(vgics[current], IRQ_PL011, IRQ_PL011)
  <2>1. u.pending_mask = vgics[current].pending_mask \cup {IRQ_PL011}
    BY <1>c, <1>k, VgicFields, Zenon
  <2>2. vgics' = [vgics EXCEPT ![current] = u]
    BY <1>forward DEF vgic_forward_spi
  <2> HIDE DEF u
  <2> QED BY <1>c, <1>forward, <1>mask, <2>1, <2>2
<1>rearm. ASSUME NEW i \in VCPUS, i = current, Rearm(i), UNCHANGED <<vgics, current, vcpus>>
          PROVE  LinuxTimerKept'
  <2>1. /\ \A j \in LINUX : Vtimer(j) # "off" => Vtimer(j)' # "off"
        /\ Vtimer(i)' # "off"
    BY <1>rearm DEF Vtimer, Rearm
  <2>2. \A j \in LINUX : deadline'[j] => deadline[j] \/ j = i
    BY <1>rearm, <1>types, <1>l DEF Rearm, GuestTypes
  <2> QED BY <1>rearm, <2>1, <2>2, TimerQuiet
<1>1. CASE TickDue \/ RxByte
  BY <1>1, <1>quiet DEF TickDue, RxByte
<1>2. ASSUME NEW i \in VCPUS, VtimerDue(i) PROVE LinuxTimerKept'
  <2>1. \A j \in VCPUS : Vtimer(j) # "off" => Vtimer(j)' # "off"
    BY <1>2, <1>types DEF VtimerDue, Vtimer, SchedTypes, VcpuT
  <2> QED BY <1>2, <1>l, <2>1, TimerQuiet DEF VtimerDue
<1>3. CASE HtimerIrq
  <2>1. \A j \in VCPUS : Vtimer(j)' = Vtimer(j)
    BY <1>3, TickMovesTimers DEF HtimerIrq
  <2>2. UNCHANGED <<vgics, deadline>>
    BY <1>3 DEF HtimerIrq
  <2> QED BY <1>l, <2>1, <2>2, TimerQuiet
<1>4. CASE VtimerIrq
  <2> DEFINE u == Pended(vgics[current], IRQ_VTIMER)
  <2>1. u.pending_mask = vgics[current].pending_mask \cup {IRQ_VTIMER}
    BY <1>c, <1>k, VgicFields, Zenon
  <2>2. vgics' = [vgics EXCEPT ![current] = u] /\ UNCHANGED <<current, vcpus, deadline>>
    BY <1>4 DEF VtimerIrq, vgic_inject
  <2> HIDE DEF u
  <2>3. \A j \in LINUX : j = current => IRQ_VTIMER \in vgics'[j].pending_mask
    BY <1>l, <1>types, <2>1, <2>2 DEF VgicTypes
  <2>4. \A j \in LINUX : j # current => Vtimer(j)' = Vtimer(j) /\ vgics'[j] = vgics[j]
    BY <1>l, <1>types, <2>2 DEF VgicTypes, Vtimer
  <2> QED BY <2>2, <2>3, <2>4 DEF LinuxTimerKept, TimerKept
<1>5. CASE Pl011Irq
  BY <1>5, <1>forward DEF Pl011Irq
<1>6. ASSUME NEW i \in INTIDS, OtherIrq(i) PROVE LinuxTimerKept'
  BY <1>6, <1>quiet DEF OtherIrq
<1>7. ASSUME NEW i \in VCPUS, HandleWfi(i) PROVE LinuxTimerKept'
  BY <1>7, <1>quiet DEF HandleWfi
<1>8. CASE HandleWfiIar
  BY <1>8, <1>forward, <1>quiet DEF HandleWfiIar
<1>9. ASSUME NEW i \in VCPUS, NEW w \in GICD_OPS, MmioGicd(i, w) PROVE LinuxTimerKept'
  BY <1>9, <1>quiet DEF MmioGicd
<1>10. ASSUME NEW i \in VCPUS, MmioQuiet(i) PROVE LinuxTimerKept'
  BY <1>10, <1>quiet DEF MmioQuiet
<1>11. ASSUME NEW i \in VCPUS, NEW n \in PENDABLE \cup {NO_INTID}, MmioIar(i, n)
       PROVE  LinuxTimerKept'
  <2>1. /\ deadline' = [deadline EXCEPT ![i] = @ /\ n # IRQ_VTIMER]
        /\ UNCHANGED <<cntv, current, vcpus>>
    BY <1>11 DEF MmioIar
  <2>2. \A j \in LINUX : deadline'[j] => deadline[j] /\ (j = i => n # IRQ_VTIMER)
    BY <1>types, <1>l, <2>1 DEF GuestTypes
  <2>3. \A j \in LINUX : \/ j = i /\ n = IRQ_VTIMER
                         \/ IRQ_VTIMER \in vgics[j].pending_mask => IRQ_VTIMER \in vgics'[j].pending_mask
    <3>1. CASE n = NO_INTID
      BY <1>11, <3>1 DEF MmioIar, read_iar
    <3>2. CASE n # NO_INTID
      <4> DEFINE u == IarRead(vgics[i], n)
      <4>1. u.pending_mask = vgics[i].pending_mask \ {n}
        BY <1>v, <3>2, VgicFields, Zenon
      <4>2. vgics' = [vgics EXCEPT ![i] = u]
        BY <1>11, <3>2 DEF MmioIar, read_iar
      <4> HIDE DEF u
      <4> QED BY <1>l, <1>types, <4>1, <4>2 DEF VgicTypes
    <3> QED BY <3>1, <3>2
  <2> QED BY <2>1, <2>2, <2>3 DEF LinuxTimerKept, TimerKept, Vtimer
<1>12. ASSUME NEW i \in VCPUS, MmioEoir(i) PROVE LinuxTimerKept'
  <2> DEFINE u == EoirWritten(vgics[i], irqstat[i])
  <2>1. u.pending_mask = vgics[i].pending_mask
    BY <1>v, CompletionFields, Zenon
  <2>2. vgics' = [vgics EXCEPT ![i] = u] /\ UNCHANGED <<cntv, current, vcpus, deadline>>
    BY <1>12 DEF MmioEoir, write_eoir
  <2> HIDE DEF u
  <2> QED BY <1>mask, <2>1, <2>2
<1>13. ASSUME NEW i \in VCPUS, NEW op \in STORED_OPS, MmioStored(i, op) PROVE LinuxTimerKept'
  <2> DEFINE u == StoredWritten(vgics[i], op[1], op[2])
  <2>1. u.pending_mask = vgics[i].pending_mask
    BY <1>v, StoredTyped, GuestAssumption
  <2>2. vgics' = [vgics EXCEPT ![i] = u] /\ UNCHANGED <<cntv, current, vcpus, deadline>>
    BY <1>13 DEF MmioStored, write_stored
  <2> HIDE DEF u
  <2> QED BY <1>mask, <2>1, <2>2
<1>14. ASSUME NEW i \in VCPUS, HvcIrqDone(i) PROVE LinuxTimerKept'
  <2>1. /\ i \notin LINUX /\ UNCHANGED <<cntv, current, vcpus, deadline>>
        /\ vgics' = [vgics EXCEPT ![i] = AllAcked(vgics[i])]
    BY <1>14 DEF HvcIrqDone, vgic_ack_all, At, Runs, BARE
  <2>2. \A j \in LINUX : vgics'[j] = vgics[j]
    BY <1>l, <1>types, <2>1 DEF VgicTypes
  <2> QED BY <2>1, <2>2, TimerQuiet DEF Vtimer
<1>15. ASSUME NEW i \in VCPUS, TakeVirq(i) PROVE LinuxTimerKept'
  <2>1. \A j \in LINUX : deadline'[j] => deadline[j]
    BY <1>15, <1>l, <1>types DEF TakeVirq, GuestTypes
  <2> QED BY <1>15, <2>1, TimerQuiet DEF TakeVirq, Vtimer
<1>16. ASSUME NEW i \in VCPUS, Unmask(i) \/ Mask(i) \/ LinuxService(i) \/ LinuxClearImsc(i)
       PROVE  LinuxTimerKept'
  BY <1>16, <1>quiet DEF Unmask, Mask, LinuxService, LinuxClearImsc
<1>17. ASSUME NEW i \in VCPUS, LinuxArmTimer(i) \/ BareEntry(i) \/ BareIrqHandler(i)
       PROVE  LinuxTimerKept'
  BY <1>17, <1>rearm DEF LinuxArmTimer, BareEntry, BareIrqHandler, Moves, At, Runs
<1>18. CASE UNCHANGED vars
  BY <1>18, <1>quiet DEF vars
<1> QED
  BY <1>1, <1>2, <1>3, <1>4, <1>5, <1>6, <1>7, <1>8, <1>9, <1>10, <1>11, <1>12, <1>13, <1>14, <1>15, <1>16, <1>17, <1>18
  DEF Next, Environment, PhysIrq, Trap, Guest

\* A Linux guest never loses a timer interrupt, whoever runs when the deadline
\* passes (gic_handle_physical_irq, vgic_inject and sched_tick).
THEOREM TimerCorrect == Spec => []LinuxTimerKept
<1>1. Init => LinuxTimerKept
  BY GuestAssumption DEF Init, LinuxTimerKept, TimerKept
<1> QED BY <1>1, TypeCorrect, TimerNext, PTL DEF Spec

-----------------------------------------------------------------------------
(* Hypervisor implements VirtualCpus, for every number of vCPUs and every  *)
(* mixture of guests: one HCR_EL2.VI and one CNTV, handed round by         *)
(* sched_tick, are as good as a line and a timer per vCPU.  The proof maps *)
(* every step to a step of the abstract machine or to none, in states that *)
(* satisfy the invariants proved above.                                    *)

PInv == TypeOK /\ VirqMatchesPending /\ DeferredEoi

\* The vCPUs' bitmaps, deferred EOIs or timers are as they were.
SameMasks  == \A i \in VCPUS : vgics'[i].pending_mask = vgics[i].pending_mask
SameOwner  == \A i \in VCPUS : vgics'[i].has_phys_iar = vgics[i].has_phys_iar
SameTimers == \A i \in VCPUS : Vtimer(i)' = Vtimer(i)

\* A vCPU's line, live or saved, is a function of its bitmap.
LEMMA LineIsMask ==
  ASSUME TypeOK, VirqMatchesPending
  PROVE  [i \in VCPUS |-> Virq(i)] = [i \in VCPUS |-> vgics[i].pending_mask # {}]
  <1>1. ASSUME NEW i \in VCPUS PROVE Virq(i) \in BOOLEAN
    BY DEF TypeOK, VgicTypes, SchedTypes, VcpuT, Virq
  <1>2. ASSUME NEW i \in VCPUS PROVE Virq(i) = (vgics[i].pending_mask # {})
    BY <1>1, <1>2 DEF VirqMatchesPending
  <1> QED BY <1>2

\* The same after a step.
LEMMA LineIsMaskNext ==
  ASSUME TypeOK', VirqMatchesPending'
  PROVE  [i \in VCPUS |-> Virq(i)'] = [i \in VCPUS |-> vgics'[i].pending_mask # {}]
  <1>1. ASSUME NEW i \in VCPUS PROVE Virq(i)' \in BOOLEAN
    BY DEF TypeOK, VgicTypes, SchedTypes, VcpuT, Virq
  <1>2. ASSUME NEW i \in VCPUS PROVE Virq(i)' = (vgics'[i].pending_mask # {})
    BY <1>1, <1>2 DEF VirqMatchesPending
  <1> QED BY <1>2

\* A step that changes one vCPU's bitmap changes that vCPU's line with it, and
\* no other vCPU's.
LEMMA PendsOne ==
  ASSUME PInv, PInv', NEW c \in VCPUS, NEW s, vgics'[c].pending_mask = s,
         \A j \in VCPUS : j # c => vgics'[j].pending_mask = vgics[j].pending_mask
  PROVE  /\ [i \in VCPUS |-> vgics[i].pending_mask]'
              = [[i \in VCPUS |-> vgics[i].pending_mask] EXCEPT ![c] = s]
         /\ [i \in VCPUS |-> Virq(i)]' = [[i \in VCPUS |-> Virq(i)] EXCEPT ![c] = (s # {})]
  <1>1. [i \in VCPUS |-> vgics'[i].pending_mask]
          = [[i \in VCPUS |-> vgics[i].pending_mask] EXCEPT ![c] = s]
    OBVIOUS
  <1>2. [i \in VCPUS |-> vgics'[i].pending_mask # {}]
          = [[i \in VCPUS |-> vgics[i].pending_mask # {}] EXCEPT ![c] = (s # {})]
    OBVIOUS
  <1>3. [i \in VCPUS |-> Virq(i)'] = [[i \in VCPUS |-> Virq(i)] EXCEPT ![c] = (s # {})]
    BY <1>2, LineIsMask, LineIsMaskNext DEF PInv
  <1> QED BY <1>1, <1>3

\* What a step leaves alone is left alone in the abstract machine.
LEMMA Unseen ==
  ASSUME PInv, PInv'
  PROVE  /\ SameMasks => /\ UNCHANGED [i \in VCPUS |-> vgics[i].pending_mask]
                         /\ UNCHANGED [i \in VCPUS |-> Virq(i)]
         /\ SameOwner => UNCHANGED {i \in VCPUS : vgics[i].has_phys_iar}
         /\ SameTimers => UNCHANGED [i \in VCPUS |-> Vtimer(i)]
  <1>1. ASSUME SameMasks PROVE UNCHANGED [i \in VCPUS |-> vgics[i].pending_mask]
    BY <1>1 DEF SameMasks
  <1>2. ASSUME SameMasks PROVE UNCHANGED [i \in VCPUS |-> Virq(i)]
    <2>1. [i \in VCPUS |-> vgics'[i].pending_mask # {}] = [i \in VCPUS |-> vgics[i].pending_mask # {}]
      BY <1>2 DEF SameMasks
    <2>2. [i \in VCPUS |-> Virq(i)'] = [i \in VCPUS |-> Virq(i)]
      BY <2>1, LineIsMask, LineIsMaskNext DEF PInv
    <2> QED BY <2>2
  <1>3. ASSUME SameOwner PROVE UNCHANGED {i \in VCPUS : vgics[i].has_phys_iar}
    BY <1>3 DEF SameOwner
  <1>4. ASSUME SameTimers PROVE UNCHANGED [i \in VCPUS |-> Vtimer(i)]
    BY <1>4 DEF SameTimers
  <1> QED BY <1>1, <1>2, <1>3, <1>4

\* A step on one vCPU's timer.
LEMMA SetsOneTimer ==
  ASSUME NEW c \in VCPUS, NEW from, NEW to, Vtimer(c) \in from, Vtimer(c)' = to,
         \A j \in VCPUS : j # c => Vtimer(j)' = Vtimer(j)
  PROVE  Private!SetTimer(c, from, to)
  <1>1. [i \in VCPUS |-> Vtimer(i)'] = [[i \in VCPUS |-> Vtimer(i)] EXCEPT ![c] = to]
    OBVIOUS
  <1> QED BY <1>1 DEF Private!SetTimer

-----------------------------------------------------------------------------
\* Every step of the hypervisor, its guests and its devices is a step of the
\* abstract machine or changes nothing there.
LEMMA StepIsPrivate ==
  PInv /\ PInv' /\ [Next]_vars => [Private!Next]_(Private!vars)
<1> SUFFICES ASSUME PInv, PInv', [Next]_vars PROVE [Private!Next]_(Private!vars)
  OBVIOUS
<1> USE DEF gicVars, vgicVars, schedVars, timerVars, uartVars, guestVars
<1>types. TypeOK /\ GicTypes /\ VgicTypes /\ SchedTypes /\ GuestTypes
  BY DEF PInv, TypeOK
<1>v. ASSUME NEW i \in VCPUS PROVE vgics[i] \in VgicT
  BY <1>types DEF VgicTypes
<1>pick. PICK c \in VCPUS : c = current
  BY <1>types DEF SchedTypes
<1>c. vgics[c] \in VgicT
  BY <1>v
<1>k. IRQ_PL011 \in PENDABLE /\ IRQ_VTIMER \in PENDABLE
  BY DEF IRQ_PL011, IRQ_VTIMER, PENDABLE
<1>none. ASSUME SameMasks, SameOwner, SameTimers PROVE UNCHANGED Private!vars
  BY <1>none, Unseen DEF Private!vars
<1>quiet. ASSUME UNCHANGED <<vgics, cntv, current, vcpus>> PROVE UNCHANGED Private!vars
  BY <1>quiet, <1>none DEF SameMasks, SameOwner, SameTimers, Vtimer
<1>keeps. ASSUME NEW k \in VCPUS, NEW u, vgics' = [vgics EXCEPT ![k] = u],
                 u.pending_mask = vgics[k].pending_mask
          PROVE  SameMasks
  BY <1>keeps, <1>types DEF VgicTypes, SameMasks
<1>holds. ASSUME NEW k \in VCPUS, NEW u, vgics' = [vgics EXCEPT ![k] = u],
                 u.has_phys_iar = vgics[k].has_phys_iar
          PROVE  SameOwner
  BY <1>holds, <1>types DEF VgicTypes, SameOwner
<1>pends. ASSUME NEW k \in VCPUS, NEW u, vgics' = [vgics EXCEPT ![k] = u]
          PROVE  /\ [i \in VCPUS |-> vgics[i].pending_mask]'
                      = [[i \in VCPUS |-> vgics[i].pending_mask] EXCEPT ![k] = u.pending_mask]
                 /\ [i \in VCPUS |-> Virq(i)]'
                      = [[i \in VCPUS |-> Virq(i)] EXCEPT ![k] = (u.pending_mask # {})]
  <2>1. /\ vgics'[k].pending_mask = u.pending_mask
        /\ \A j \in VCPUS : j # k => vgics'[j].pending_mask = vgics[j].pending_mask
    BY <1>pends, <1>types DEF VgicTypes
  <2> QED BY <2>1, PendsOne
<1>timers. ASSUME UNCHANGED <<cntv, current, vcpus>> PROVE SameTimers
  BY <1>timers DEF SameTimers, Vtimer
<1>forward. ASSUME vgic_forward_spi(current, IRQ_PL011, IRQ_PL011),
                   UNCHANGED <<cntv, current, vcpus>>,
                   Acknowledgeable(gicd, phys_active, Lines, IRQ_PL011)
            PROVE  Private!Console(c)
  <2> DEFINE u == Forwarding(vgics[c], IRQ_PL011, IRQ_PL011)
  <2>1. /\ u.pending_mask = vgics[c].pending_mask \cup {IRQ_PL011}
        /\ u.has_phys_iar = TRUE
    BY <1>c, <1>k, VgicFields, Zenon
  <2>2. vgics' = [vgics EXCEPT ![c] = u]
    BY <1>forward, <1>pick DEF vgic_forward_spi
  <2>3. \A i \in VCPUS : ~vgics[i].has_phys_iar
    BY <1>forward DEF Acknowledgeable, HighestPending, Forwarded, PInv, DeferredEoi
  <2> HIDE DEF u
  <2>4. {i \in VCPUS : vgics[i].has_phys_iar} = {}
    BY <2>3
  <2>5. {i \in VCPUS : vgics'[i].has_phys_iar} = {c}
    BY <1>c, <1>types, <2>1, <2>2, <2>3 DEF VgicTypes
  <2>6. Private!Pend(c, [i \in VCPUS |-> vgics[i].pending_mask][c] \cup {IRQ_PL011})
    BY <1>pends, <2>1, <2>2 DEF Private!Pend
  <2>7. UNCHANGED [i \in VCPUS |-> Vtimer(i)]
    BY <1>forward, <1>timers, Unseen
  <2> QED BY <2>4, <2>5, <2>6, <2>7 DEF Private!Console, Private!Pend
<1>rearm. ASSUME NEW i \in VCPUS, i = current, cntv' = "armed", UNCHANGED <<vgics, current, vcpus>>
          PROVE  Private!Program(i)
  <2>1. Vtimer(i) \in {"off", "armed", "due"} /\ Vtimer(i)' = "armed"
    BY <1>rearm, <1>types DEF Vtimer, TypeOK, TimerTypes, TIMER
  <2>2. \A j \in VCPUS : j # i => Vtimer(j)' = Vtimer(j)
    BY <1>rearm DEF Vtimer
  <2>3. Private!SetTimer(i, {"off", "armed", "due"}, "armed")
    BY <2>1, <2>2, SetsOneTimer
  <2>4. SameMasks /\ SameOwner
    BY <1>rearm DEF SameMasks, SameOwner
  <2> QED BY <2>3, <2>4, Unseen DEF Private!Program
<1>1. CASE TickDue \/ RxByte
  BY <1>1, <1>quiet DEF TickDue, RxByte
<1>2. ASSUME NEW i \in VCPUS, VtimerDue(i) PROVE Private!Next
  <2>1. Vtimer(i) \in {"armed"} /\ Vtimer(i)' = "due"
    BY <1>2, <1>types DEF VtimerDue, Vtimer, SchedTypes, VcpuT
  <2>2. \A j \in VCPUS : j # i => Vtimer(j)' = Vtimer(j)
    BY <1>2, <1>types DEF VtimerDue, Vtimer, SchedTypes, VcpuT
  <2>3. Private!SetTimer(i, {"armed"}, "due")
    BY <2>1, <2>2, SetsOneTimer
  <2>4. SameMasks /\ SameOwner
    BY <1>2 DEF VtimerDue, SameMasks, SameOwner
  <2>5. Private!Expire(i)
    BY <2>3, <2>4, Unseen DEF Private!Expire
  <2> QED BY <2>5 DEF Private!Next
<1>3. CASE HtimerIrq
  <2>1. SameTimers
    BY <1>3, <1>types, TickMovesTimers DEF HtimerIrq, SameTimers
  <2>2. SameMasks /\ SameOwner
    BY <1>3 DEF HtimerIrq, SameMasks, SameOwner
  <2> QED BY <1>none, <2>1, <2>2
<1>4. CASE VtimerIrq
  <2> DEFINE u == Pended(vgics[c], IRQ_VTIMER)
  <2>1. /\ u.pending_mask = vgics[c].pending_mask \cup {IRQ_VTIMER}
        /\ u.has_phys_iar = vgics[c].has_phys_iar
    BY <1>c, <1>k, VgicFields, Zenon
  <2>2. vgics' = [vgics EXCEPT ![c] = u] /\ cntv' = "off" /\ UNCHANGED <<current, vcpus>>
    BY <1>4, <1>pick DEF VtimerIrq, vgic_inject
  <2> HIDE DEF u
  <2>3. IRQ_VTIMER \in Lines
    BY <1>4 DEF VtimerIrq, IarReturns, Acknowledgeable, HighestPending, Forwarded
  <2>4. IRQ_VTIMER \notin gicd.sgi
    <3>1. gicd.sgi \subseteq SGIS
      BY <1>types DEF GicTypes, Gicd
    <3>2. IRQ_VTIMER \notin SGIS
      BY DEF SGIS, IRQ_VTIMER
    <3> QED BY <3>1, <3>2
  <2>5. cntv = "due"
    BY <2>3, <2>4 DEF Lines, LinesAt, IRQ_VTIMER, IRQ_HTIMER, IRQ_PL011
  <2>6. Vtimer(c) \in {"due"} /\ Vtimer(c)' = "off"
    BY <1>pick, <2>2, <2>5 DEF Vtimer
  <2>7. \A j \in VCPUS : j # c => Vtimer(j)' = Vtimer(j)
    BY <1>pick, <2>2 DEF Vtimer
  <2>8. Private!SetTimer(c, {"due"}, "off")
    BY <1>c, <2>6, <2>7, SetsOneTimer
  <2>9. Private!Pend(c, [i \in VCPUS |-> vgics[i].pending_mask][c] \cup {IRQ_VTIMER})
    BY <1>pends, <2>1, <2>2 DEF Private!Pend
  <2>10. UNCHANGED {i \in VCPUS : vgics[i].has_phys_iar}
    BY <1>c, <1>holds, <2>1, <2>2, Unseen
  <2>11. Private!Fire(c)
    BY <2>8, <2>9, <2>10 DEF Private!Fire, Private!Pend
  <2> QED BY <1>c, <2>11 DEF Private!Next
<1>5. CASE Pl011Irq
  <2>1. Private!Console(c)
    BY <1>5, <1>forward DEF Pl011Irq, IarReturns
  <2> QED BY <1>c, <2>1 DEF Private!Next
<1>6. ASSUME NEW i \in INTIDS, OtherIrq(i) PROVE UNCHANGED Private!vars
  BY <1>6, <1>quiet DEF OtherIrq
<1>7. ASSUME NEW i \in VCPUS, HandleWfi(i) PROVE UNCHANGED Private!vars
  BY <1>7, <1>quiet DEF HandleWfi
<1>8. CASE HandleWfiIar
  <2>1. CASE /\ Acknowledgeable(gicd, phys_active, Lines, IRQ_PL011)
             /\ vgic_forward_spi(current, IRQ_PL011, IRQ_PL011)
    <3>1. Private!Console(c)
      BY <1>8, <2>1, <1>forward DEF HandleWfiIar
    <3> QED BY <1>c, <3>1 DEF Private!Next
  <2>2. CASE UNCHANGED vgicVars
    BY <1>8, <2>2, <1>quiet DEF HandleWfiIar
  <2> QED BY <1>8, <2>1, <2>2 DEF HandleWfiIar
<1>9. ASSUME NEW i \in VCPUS, NEW w \in GICD_OPS, MmioGicd(i, w) PROVE UNCHANGED Private!vars
  BY <1>9, <1>quiet DEF MmioGicd
<1>10. ASSUME NEW i \in VCPUS, MmioQuiet(i) PROVE UNCHANGED Private!vars
  BY <1>10, <1>quiet DEF MmioQuiet
<1>11. ASSUME NEW i \in VCPUS, NEW n \in PENDABLE \cup {NO_INTID}, MmioIar(i, n)
       PROVE  [Private!Next]_(Private!vars)
  <2>1. UNCHANGED <<cntv, current, vcpus>> /\ IsLowestPending(vgics[i].pending_mask, n)
    BY <1>11 DEF MmioIar, read_iar
  <2>2. CASE n = NO_INTID
    BY <1>11, <2>2, <1>quiet DEF MmioIar, read_iar
  <2>3. CASE n # NO_INTID
    <3> DEFINE u == IarRead(vgics[i], n)
    <3>1. /\ u.pending_mask = vgics[i].pending_mask \ {n}
          /\ u.has_phys_iar = vgics[i].has_phys_iar
      BY <1>v, <2>3, VgicFields, Zenon
    <3>2. vgics' = [vgics EXCEPT ![i] = u]
      BY <1>11, <2>3 DEF MmioIar, read_iar
    <3> HIDE DEF u
    <3>3. n \in vgics[i].pending_mask /\ \A m \in vgics[i].pending_mask : n <= m
      BY <2>1, <2>3 DEF IsLowestPending
    <3>4. Private!Pend(i, [j \in VCPUS |-> vgics[j].pending_mask][i] \ {n})
      BY <1>pends, <3>1, <3>2 DEF Private!Pend
    <3>5. UNCHANGED {j \in VCPUS : vgics[j].has_phys_iar} /\ UNCHANGED [j \in VCPUS |-> Vtimer(j)]
      BY <1>holds, <1>timers, <2>1, <3>1, <3>2, Unseen
    <3>6. Private!Acknowledge(i)
      BY <3>3, <3>4, <3>5 DEF Private!Acknowledge, Private!Pend
    <3> QED BY <3>6 DEF Private!Next
  <2> QED BY <2>2, <2>3
<1>12. ASSUME NEW i \in VCPUS, MmioEoir(i) PROVE [Private!Next]_(Private!vars)
  <2> DEFINE u == EoirWritten(vgics[i], irqstat[i])
  <2>1. /\ u.pending_mask = vgics[i].pending_mask
        /\ u.has_phys_iar = (vgics[i].has_phys_iar /\ ~Defers(vgics[i], irqstat[i]))
    BY <1>v, CompletionFields, Zenon
  <2>2. vgics' = [vgics EXCEPT ![i] = u] /\ UNCHANGED <<cntv, current, vcpus>>
    BY <1>12 DEF MmioEoir, write_eoir
  <2> HIDE DEF u
  <2>3. SameMasks /\ SameTimers
    BY <1>keeps, <1>timers, <2>1, <2>2
  <2>4. CASE Defers(vgics[i], irqstat[i])
    <3>1. vgics[i].has_phys_iar /\ ~u.has_phys_iar
      BY <2>1, <2>4 DEF Defers
    <3>2. \A j \in VCPUS : vgics[j].has_phys_iar => j = i
      BY <3>1 DEF PInv, DeferredEoi
    <3>3. {j \in VCPUS : vgics[j].has_phys_iar} = {i}
      BY <3>1, <3>2
    <3>4. {j \in VCPUS : vgics'[j].has_phys_iar} = {}
      BY <1>types, <2>2, <3>1, <3>2 DEF VgicTypes
    <3>5. Private!Complete(i)
      BY <2>3, <3>3, <3>4, Unseen DEF Private!Complete
    <3> QED BY <3>5 DEF Private!Next
  <2>5. CASE ~Defers(vgics[i], irqstat[i])
    <3>1. vgics[i].has_phys_iar \in BOOLEAN
      BY <1>v DEF VgicT
    <3>2. u.has_phys_iar = vgics[i].has_phys_iar
      BY <2>1, <2>5, <3>1
    <3> QED BY <1>holds, <1>none, <2>2, <2>3, <3>2
  <2> QED BY <2>4, <2>5
<1>13. ASSUME NEW i \in VCPUS, NEW op \in STORED_OPS, MmioStored(i, op)
       PROVE  UNCHANGED Private!vars
  <2> DEFINE u == StoredWritten(vgics[i], op[1], op[2])
  <2>1. u.pending_mask = vgics[i].pending_mask /\ u.has_phys_iar = vgics[i].has_phys_iar
    BY <1>v, StoredTyped, GuestAssumption
  <2>2. vgics' = [vgics EXCEPT ![i] = u] /\ UNCHANGED <<cntv, current, vcpus>>
    BY <1>13 DEF MmioStored, write_stored
  <2> HIDE DEF u
  <2> QED BY <1>holds, <1>keeps, <1>none, <1>timers, <2>1, <2>2
<1>14. ASSUME NEW i \in VCPUS, HvcIrqDone(i) PROVE Private!Next
  <2> DEFINE u == AllAcked(vgics[c])
  <2>1. u.pending_mask = {} /\ u.has_phys_iar = FALSE
    BY <1>c, CompletionFields, Zenon
  <2>2. vgics' = [vgics EXCEPT ![c] = u] /\ UNCHANGED <<cntv, current, vcpus>>
    BY <1>14, <1>pick DEF HvcIrqDone, vgic_ack_all
  <2> HIDE DEF u
  <2>3. Private!Pend(c, {})
    BY <1>pends, <2>1, <2>2 DEF Private!Pend
  <2>4. {j \in VCPUS : vgics'[j].has_phys_iar} = {j \in VCPUS : vgics[j].has_phys_iar} \ {c}
    BY <1>c, <1>types, <2>1, <2>2 DEF VgicTypes
  <2>5. UNCHANGED [j \in VCPUS |-> Vtimer(j)]
    BY <1>timers, <2>2, Unseen
  <2>6. Private!Discard(c)
    BY <2>3, <2>4, <2>5 DEF Private!Discard, Private!Pend
  <2> QED BY <1>c, <2>6 DEF Private!Next
<1>15. ASSUME NEW i \in VCPUS,
              TakeVirq(i) \/ Unmask(i) \/ Mask(i) \/ LinuxService(i) \/ LinuxClearImsc(i)
       PROVE  UNCHANGED Private!vars
  BY <1>15, <1>quiet DEF TakeVirq, Unmask, Mask, LinuxService, LinuxClearImsc
<1>16. ASSUME NEW i \in VCPUS, LinuxArmTimer(i) \/ BareEntry(i) \/ BareIrqHandler(i)
       PROVE  Private!Next
  <2>1. Private!Program(i)
    BY <1>16, <1>rearm DEF LinuxArmTimer, BareEntry, BareIrqHandler, Moves, At, Runs, Rearm
  <2> QED BY <2>1 DEF Private!Next
<1>17. CASE UNCHANGED vars
  BY <1>17, <1>quiet DEF vars
<1> QED
  BY <1>1, <1>2, <1>3, <1>4, <1>5, <1>6, <1>7, <1>8, <1>9, <1>10, <1>11, <1>12, <1>13, <1>14, <1>15, <1>16, <1>17
  DEF Next, Environment, PhysIrq, Trap, Guest

\* What gic.c, vgic.c and sched.c promise: every vCPU has an interrupt line and
\* a timer of its own, a context switch changes neither, and SPI 33 is held by
\* one vCPU at a time.
THEOREM ImplementsPrivate == Spec => PrivateSpec
<1>1. Init => Private!Init
  <2> SUFFICES ASSUME Init PROVE Private!Init
    OBVIOUS
  <2>1. \A i \in VCPUS : /\ vgics[i].pending_mask = {} /\ ~vgics[i].has_phys_iar
                         /\ Virq(i) = FALSE /\ Vtimer(i) = "off"
    BY DEF Init, sched_start, vgic_init, init_vcpu, Virq, Vtimer
  <2> QED BY <2>1 DEF Private!Init
<1>2. Spec => []PInv
  BY TypeCorrect, VirqCorrect, DeferredEoiCorrect, PTL DEF PInv
<1> QED BY <1>1, <1>2, StepIsPrivate, PTL DEF Spec, PrivateSpec, Private!Spec

=============================================================================
