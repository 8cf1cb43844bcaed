----------------------------- MODULE Hypervisor -----------------------------
(***************************************************************************)
(* The GICv2 build at run time: EL2 exit handlers (src/gic.c,              *)
(* src/exceptions.c, src/vgic.c, src/sched.c), the guests above them and   *)
(* the devices beside them.                                                *)
(*                                                                         *)
(* EL2 runs with interrupts masked, so a handler is one action as long as  *)
(* it reads the interrupt controller at most once.  handle_wfi reads it    *)
(* twice, GICC_HPPIR and then GICC_IAR, and the timers and the UART do not *)
(* stop in between: it is two actions, and el2 says which comes next.      *)
(*                                                                         *)
(* Two kinds of guest run.  A vCPU in LINUX acknowledges through GICC_IAR  *)
(* and completes through GICC_EOIR (external: modelled from what vgic.c    *)
(* says of it).  The others run src/guest.c, which knows no GIC and ends   *)
(* every interrupt with HVC_IRQ_DONE.                                      *)
(***************************************************************************)
EXTENDS Sched

CONSTANTS
  LINUX,       \* the vCPUs whose guest drives the emulated GICC
  GICD_OPS,    \* the distributor writes those guests make
  ARM_PC,      \* where those guests are when they program their timer
  PROMPT_IRQ,  \* TRUE: a physical IRQ that is signalled for certain is taken
               \* before the guest's next step; FALSE: it may run on for a while
  STORED_OPS   \* <<register, value>>: writes to GICC_CTLR, GICC_PMR, GICC_BPR

VARIABLES
  el2,       \* "guest", or "wfi" between the two GICC reads of handle_wfi
  imsc,      \* PL011 receive interrupt unmasked
  rx,        \* PL011 receive FIFO not empty
  pc,        \* where each guest is
  irqstat,   \* the INTID a guest's last GICC_IAR read returned
  deadline   \* the guest programmed its timer and has not seen it fire yet

ASSUME GuestAssumption ==
  /\ LINUX \subseteq VCPUS
  /\ GICD_OPS \subseteq GicdWrites
  /\ PROMPT_IRQ \in BOOLEAN
  /\ ARM_PC \subseteq {"masked", "run", "isr"}
  /\ STORED_OPS \subseteq {"CTLR", "PMR", "BPR"} \X Nat

gicVars   == <<gicd, phys_active>>
vgicVars  == <<vgics, vi>>
schedVars == <<current, vcpus>>
timerVars == <<cntv, cnthp>>
uartVars  == <<imsc, rx>>
guestVars == <<pc, irqstat, deadline>>
vars == <<gicVars, vgicVars, schedVars, timerVars, uartVars, guestVars, el2>>

BARE == VCPUS \ LINUX

LINUX_PC == {"masked", "run", "irq", "isr", "eoi"}
BARE_PC  == {"entry", "masked", "run", "irq", "hvc"}

\* The interrupts pending at a distributor g, with the PL011 mask at m.
LinesAt(g, m) ==
       {i \in {IRQ_HTIMER} : cnthp = "due"}
  \cup {i \in {IRQ_VTIMER} : cntv = "due"}
  \cup {i \in {IRQ_PL011} : rx /\ m}
  \cup g.sgi

Lines == LinesAt(gicd, imsc)

Init ==
  /\ gic_init_el2
  /\ sched_start
  /\ el2 = "guest"
  /\ imsc = TRUE
  /\ rx = FALSE
  /\ pc = [i \in VCPUS |-> IF i \in LINUX THEN "masked" ELSE "entry"]
  /\ irqstat = [i \in VCPUS |-> NO_INTID]
  /\ deadline = [i \in VCPUS |-> FALSE]

-----------------------------------------------------------------------------
(* Time and the outside world: these go on whatever the CPU is doing.      *)

TickDue ==
  /\ cnthp = "armed"
  /\ cnthp' = "due"
  /\ UNCHANGED <<gicVars, vgicVars, schedVars, cntv, uartVars, guestVars, el2>>

VtimerDue(i) ==
  /\ Vtimer(i) = "armed"
  /\ IF i = current THEN cntv' = "due" /\ UNCHANGED vcpus
     ELSE vcpus' = [vcpus EXCEPT ![i].cntv = "due"] /\ UNCHANGED cntv
  /\ UNCHANGED <<gicVars, vgicVars, current, cnthp, uartVars, guestVars, el2>>

RxByte ==
  /\ ~rx
  /\ rx' = TRUE
  /\ UNCHANGED <<gicVars, vgicVars, schedVars, timerVars, imsc, guestVars, el2>>

-----------------------------------------------------------------------------
(* gic_handle_physical_irq, one action per arm.  Its GICC_IAR read returns *)
(* the interrupt that is acknowledgeable when it happens; 1023 changes     *)
(* nothing.                                                                *)

IarReturns(i) == el2 = "guest" /\ Acknowledgeable(gicd, phys_active, Lines, i)

\* The tick: stop CNTHP, rearm the console, switch vCPU, arm CNTHP, EOI.
HtimerIrq ==
  /\ IarReturns(IRQ_HTIMER)
  /\ imsc' = TRUE
  /\ gicd' = reassert_pl011(gicd)
  /\ sched_tick
  /\ arm_hyp_timer
  /\ phys_active' = Eoied(Acked(phys_active, gicd, IRQ_HTIMER), IRQ_HTIMER)
  /\ UNCHANGED <<vgics, rx, guestVars, el2>>

\* The guest's timer: stop it, pend INTID 27 to the running vCPU, EOI.
VtimerIrq ==
  /\ IarReturns(IRQ_VTIMER)
  /\ cntv' = "off"
  /\ vgic_inject(current, IRQ_VTIMER)
  /\ phys_active' = Eoied(Acked(phys_active, gicd, IRQ_VTIMER), IRQ_VTIMER)
  /\ UNCHANGED <<gicd, schedVars, cnthp, uartVars, guestVars, el2>>

\* Console input: forward it and leave it active.
Pl011Irq ==
  /\ IarReturns(IRQ_PL011)
  /\ vgic_forward_spi(current, IRQ_PL011, IRQ_PL011)
  /\ phys_active' = Acked(phys_active, gicd, IRQ_PL011)
  /\ UNCHANGED <<gicd, schedVars, timerVars, uartVars, guestVars, el2>>

\* Anything else is completed and dropped.
OtherIrq(i) ==
  /\ i \notin {IRQ_HTIMER, IRQ_VTIMER, IRQ_PL011}
  /\ IarReturns(i)
  /\ gicd' = [gicd EXCEPT !.sgi = @ \ {i}]
  /\ phys_active' = Eoied(Acked(phys_active, gicd, i), i)
  /\ UNCHANGED <<vgicVars, schedVars, timerVars, uartVars, guestVars, el2>>

PhysIrq == HtimerIrq \/ VtimerIrq \/ Pl011Irq \/ \E i \in INTIDS : OtherIrq(i)

\* The IRQ line of the CPU, as far as EL2 may rely on it: SPI 33 may raise it,
\* but under TCG often does not, so only another interrupt does so for certain.
\* GICC_IAR returns the most urgent one then, which may well be 33.
Signalled ==
  /\ el2 = "guest"
  /\ \E i \in INTIDS \ {IRQ_PL011} : Acknowledgeable(gicd, phys_active, Lines \ {IRQ_PL011}, i)

-----------------------------------------------------------------------------
(* Traps from the guest that is running.                                   *)

\* vCPU i executes.
Runs(i) ==
  /\ el2 = "guest" /\ i = current
  /\ PROMPT_IRQ => ~Signalled

At(i, l) == Runs(i) /\ pc[i] = l
Idle(i)  == At(i, "masked") \/ At(i, "run")

\* Mutant: the poll does not unmask the receive interrupt.
HandleWfiNoImsc(i) ==
  LET g == wfi_gicd(gicd) IN
  /\ i \in LINUX /\ Idle(i)
  /\ gicd' = g
  /\ el2' = IF /\ HighestPending(g, phys_active, LinesAt(g, imsc), IRQ_PL011)
               /\ ~vgic_has_pending_phys_iar(current)
            THEN "wfi" ELSE "guest"
  /\ UNCHANGED <<phys_active, vgicVars, schedVars, timerVars, uartVars, guestVars>>

\* handle_wfi up to its GICC_HPPIR read.
HandleWfi(i) ==
  LET g == wfi_gicd(gicd) IN
  /\ i \in LINUX /\ Idle(i)
  /\ imsc' = TRUE
  /\ gicd' = g
  /\ el2' = IF /\ HighestPending(g, phys_active, LinesAt(g, TRUE), IRQ_PL011)
               /\ ~vgic_has_pending_phys_iar(current)
            THEN "wfi" ELSE "guest"
  /\ UNCHANGED <<phys_active, vgicVars, schedVars, timerVars, rx, guestVars>>

\* handle_wfi's GICC_IAR read, which returns whatever is most urgent by now.
\* Only 33 is forwarded.
HandleWfiIar ==
  LET Returns(i) == Acknowledgeable(gicd, phys_active, Lines, i) IN
  /\ el2 = "wfi"
  /\ el2' = "guest"
  /\ \/ /\ Returns(IRQ_PL011)
        /\ phys_active' = Acked(phys_active, gicd, IRQ_PL011)
        /\ vgic_forward_spi(current, IRQ_PL011, IRQ_PL011)
        /\ UNCHANGED gicd
     \/ \E i \in INTIDS \ {IRQ_PL011} :
        /\ Returns(i)
        /\ phys_active' = Acked(phys_active, gicd, i)
        /\ gicd' = [gicd EXCEPT !.sgi = @ \ {i}]
        /\ UNCHANGED vgicVars
     \/ /\ \A i \in INTIDS : ~Returns(i)
        /\ UNCHANGED <<gicVars, vgicVars>>
  /\ UNCHANGED <<schedVars, timerVars, uartVars, guestVars>>

\* Mutant: vgic_mmio without reassert_htimer_ppi.
ReassertedPl011Only(g) == reassert_pl011(g)

\* The end of vgic_mmio, whatever the access: keep the tick and the console on.
Reasserted(g) == reassert_pl011(reassert_htimer_ppi(g))

MmioTail(g) == gicd' = Reasserted(g) /\ imsc' = TRUE

\* vgic_mmio, distributor window.
MmioGicd(i, w) ==
  /\ i \in LINUX /\ Idle(i)
  /\ MmioTail(GicdWritten(gicd, w))
  /\ UNCHANGED <<phys_active, vgicVars, schedVars, timerVars, rx, guestVars, el2>>

\* vgic_mmio, a read of the distributor or of a CPU interface register other
\* than GICC_IAR, or a write write_reg ignores: the tail is all it does.
MmioQuiet(i) ==
  /\ i \in LINUX /\ Idle(i)
  /\ MmioTail(gicd)
  /\ UNCHANGED <<phys_active, vgicVars, schedVars, timerVars, rx, guestVars, el2>>

\* vgic_mmio, CPU interface window: the guest acknowledges.
MmioIar(i, intid) ==
  /\ i \in LINUX /\ At(i, "irq")
  /\ read_iar(i, intid)
  /\ irqstat' = [irqstat EXCEPT ![i] = intid]
  /\ pc' = [pc EXCEPT ![i] = IF intid = NO_INTID THEN "run" ELSE "isr"]
  /\ deadline' = [deadline EXCEPT ![i] = @ /\ intid # IRQ_VTIMER]
  /\ MmioTail(gicd)
  /\ UNCHANGED <<schedVars, timerVars, rx, el2>>

\* vgic_mmio, CPU interface window: the guest completes.
MmioEoir(i) ==
  /\ i \in LINUX /\ At(i, "eoi")
  /\ write_eoir(i, irqstat[i])
  /\ pc' = [pc EXCEPT ![i] = "irq"]
  /\ MmioTail(gicd)
  /\ UNCHANGED <<schedVars, timerVars, rx, irqstat, deadline, el2>>

\* vgic_mmio, CPU interface window: GICC_CTLR, GICC_PMR, GICC_BPR.
MmioStored(i, op) ==
  /\ i \in LINUX /\ Idle(i)
  /\ write_stored(i, op[1], op[2])
  /\ MmioTail(gicd)
  /\ UNCHANGED <<schedVars, timerVars, rx, guestVars, el2>>

\* handle_hvc, HVC_IRQ_DONE, and the eret of the guest's vector behind it.
HvcIrqDone(i) ==
  /\ i \in BARE /\ At(i, "hvc")
  /\ vgic_ack_all(current)
  /\ pc' = [pc EXCEPT ![i] = "run"]
  /\ UNCHANGED <<gicd, schedVars, timerVars, uartVars, irqstat, deadline, el2>>

-----------------------------------------------------------------------------
(* What guests do without a trap.                                          *)

Moves(i, from, to) == At(i, from) /\ pc' = [pc EXCEPT ![i] = to]

\* HCR_EL2.VI interrupts a guest that has interrupts unmasked.  The bare
\* guest's vector goes straight to its handler, which takes the interrupt to
\* be its timer.
TakeVirq(i) ==
  /\ Moves(i, "run", "irq")
  /\ vi
  /\ deadline' = [deadline EXCEPT ![i] = @ /\ i \in LINUX]
  /\ UNCHANGED <<gicVars, vgicVars, schedVars, timerVars, uartVars, irqstat, el2>>

Unmask(i) ==
  /\ Moves(i, "masked", "run")
  /\ UNCHANGED <<gicVars, vgicVars, schedVars, timerVars, uartVars, irqstat,
                 deadline, el2>>

Mask(i) ==
  /\ i \in LINUX
  /\ Moves(i, "run", "masked")
  /\ UNCHANGED <<gicVars, vgicVars, schedVars, timerVars, uartVars, irqstat,
                 deadline, el2>>

\* timer_rearm, and any other guest's way to program CNTV.
Rearm(i) == cntv' = "armed" /\ deadline' = [deadline EXCEPT ![i] = TRUE]

LinuxArmTimer(i) ==
  /\ i \in LINUX /\ \E l \in ARM_PC : At(i, l)
  /\ Rearm(i)
  /\ UNCHANGED <<gicVars, vgicVars, schedVars, cnthp, uartVars, pc, irqstat, el2>>

\* The Linux interrupt handlers: the pl011 one drains the FIFO.
LinuxService(i) ==
  /\ i \in LINUX
  /\ Moves(i, "isr", "eoi")
  /\ rx' = (rx /\ irqstat[i] # IRQ_PL011)
  /\ UNCHANGED <<gicVars, vgicVars, schedVars, timerVars, imsc, irqstat,
                 deadline, el2>>

\* The pl011 driver's shutdown() masks the receive interrupt.
LinuxClearImsc(i) ==
  /\ i \in LINUX /\ Idle(i)
  /\ imsc' = FALSE
  /\ UNCHANGED <<gicVars, vgicVars, schedVars, timerVars, rx, guestVars, el2>>

\* guest_entry_common up to the daifclr.
BareEntry(i) ==
  /\ i \in BARE
  /\ Moves(i, "entry", "masked")
  /\ Rearm(i)
  /\ UNCHANGED <<gicVars, vgicVars, schedVars, cnthp, uartVars, irqstat, el2>>

\* guest_irq_handler up to the hvc.
BareIrqHandler(i) ==
  /\ i \in BARE
  /\ Moves(i, "irq", "hvc")
  /\ Rearm(i)
  /\ UNCHANGED <<gicVars, vgicVars, schedVars, cnthp, uartVars, irqstat, el2>>

-----------------------------------------------------------------------------
Environment == TickDue \/ RxByte \/ \E i \in VCPUS : VtimerDue(i)

Trap ==
  \/ HandleWfiIar
  \/ \E i \in VCPUS :
       \/ HandleWfi(i)
       \/ \E w \in GICD_OPS : MmioGicd(i, w)
       \/ MmioQuiet(i)
       \/ \E intid \in PENDABLE \cup {NO_INTID} : MmioIar(i, intid)
       \/ MmioEoir(i)
       \/ \E op \in STORED_OPS : MmioStored(i, op)
       \/ HvcIrqDone(i)

Guest ==
  \E i \in VCPUS :
    \/ TakeVirq(i) \/ Unmask(i) \/ Mask(i)
    \/ LinuxArmTimer(i) \/ LinuxService(i) \/ LinuxClearImsc(i)
    \/ BareEntry(i) \/ BareIrqHandler(i)

Next == Environment \/ PhysIrq \/ Trap \/ Guest

Spec == Init /\ [][Next]_vars

-----------------------------------------------------------------------------
(* Safety.                                                                 *)

GicTypes   == gicd \in Gicd /\ phys_active \in [INTIDS -> 0 .. IDLE]
VgicTypes  == vgics \in [VCPUS -> VgicT] /\ vi \in BOOLEAN
SchedTypes == current \in VCPUS /\ vcpus \in [VCPUS -> VcpuT]
TimerTypes == cntv \in TIMER /\ cnthp \in TIMER
UartTypes  == imsc \in BOOLEAN /\ rx \in BOOLEAN
GuestTypes ==
  /\ el2 \in {"guest", "wfi"}
  /\ pc \in [VCPUS -> LINUX_PC \cup BARE_PC]
  /\ irqstat \in [VCPUS -> PENDABLE \cup {NO_INTID}]
  /\ deadline \in [VCPUS -> BOOLEAN]

\* Every variable has its type.
TypeOK ==
  GicTypes /\ VgicTypes /\ SchedTypes /\ TimerTypes /\ UartTypes /\ GuestTypes

\* There is one HCR_EL2.VI for all vCPUs, set and cleared by vgic_inject,
\* GICC_IAR and HVC_IRQ_DONE for the running one and saved and loaded with its
\* context: it always tells a vCPU whether its own bitmap has something pending,
\* so no interrupt is stranded without its line and none is delivered twice.
VirqMatchesPending ==
  \A i \in VCPUS : Virq(i) <=> vgics[i].pending_mask # {}

\* The physical EOI that vgic_forward_spi defers is owed by exactly the one
\* vCPU whose vgic_t records it, for as long as SPI 33 is active at the real
\* CPU interface, across context switches in either direction.
DeferredEoi ==
  /\ \A i \in VCPUS : vgics[i].has_phys_iar => vgics[i].phys_iar = IRQ_PL011
  /\ \A i, j \in VCPUS :
       vgics[i].has_phys_iar /\ vgics[j].has_phys_iar => i = j
  /\ phys_active[IRQ_PL011] # IDLE <=> \E i \in VCPUS : vgics[i].has_phys_iar

\* A vCPU that owes the physical EOI of SPI 33 still has the virtual interrupt
\* ahead of it or is handling it: the guest's own EOIR (or HVC_IRQ_DONE) is yet
\* to come, so the console line cannot stay blocked behind nobody.
DeferredEoiIsComing ==
  \A i \in VCPUS : vgics[i].has_phys_iar =>
    \/ IRQ_PL011 \in vgics[i].pending_mask
    \/ i \in LINUX /\ pc[i] \in {"isr", "eoi"} /\ irqstat[i] = IRQ_PL011

\* The single active slot of vgic_t is enough for a guest that does not nest:
\* it holds the INTID the guest is handling, and GICC_IAR never overwrites one.
ActiveSlotIsExact ==
  \A i \in LINUX :
    vgics[i].active = IF pc[i] \in {"isr", "eoi"} THEN irqstat[i] ELSE NO_INTID

\* No sequence of handlers leaves PPI 26 disabled or CNTHP without a deadline,
\* although Linux disables the PPIs it does not know: vgic_mmio ends with
\* reassert_htimer_ppi and the tick's handler rearms the timer.  This is about
\* the enable bit and the timer; what GICD_CTLR and priorities can still do to
\* the tick is the subject of TickReturns and TickKeepsComing.
TickStaysOn == IRQ_HTIMER \in gicd.enabled /\ cnthp # "off"

TimerKept(i) ==
  deadline[i] => Vtimer(i) # "off" \/ IRQ_VTIMER \in vgics[i].pending_mask

\* A guest that acknowledges with GICC_IAR never loses a timer interrupt: until
\* it has been given INTID 27, its timer is still programmed or 27 is pending
\* in its own bitmap, whoever ran when the deadline passed.
LinuxTimerKept == \A i \in LINUX : TimerKept(i)

\* vgic.h: "PPIs are handled inline at EL2 (we ack the physical IAR immediately
\* because we control the source)": only a forwarded SPI is left active at the
\* real CPU interface.
PpisCompletedInline ==
  \A i \in INTIDS \ {IRQ_PL011} : phys_active[i] = IDLE

\* guest.c: "Guest takes EL1 IRQ, prints, rearms, HVC_IRQ_DONE to clear VI": the
\* bare-metal guest does not lose a timer interrupt either.
BareTimerKept == \A i \in BARE : TimerKept(i)

-----------------------------------------------------------------------------
(* Liveness.  Time passes and the CPU takes an interrupt that is signalled *)
(* for certain.  For SPI 33 alone nothing is promised: README.md of the    *)
(* repository says that "TCG's GICv2 never reliably asserts SPI 33", so    *)
(* Pl011Irq may or may not happen, and the poll of handle_wfi is the only  *)
(* path that is sure to.  Linux idles again and again ("Linux's idle path  *)
(* hits WFI constantly", exceptions.c).  A guest only runs in slices,      *)
(* which is why its fairness is strong: it makes progress when it is       *)
(* scheduled again and again.  A guest leaves its critical sections and    *)
(* finishes its handlers; nothing else is asked of it.                     *)

Progress(i) ==
  \/ Unmask(i) \/ LinuxService(i) \/ BareEntry(i) \/ BareIrqHandler(i)
  \/ \E intid \in PENDABLE \cup {NO_INTID} : MmioIar(i, intid)
  \/ MmioEoir(i) \/ HvcIrqDone(i)

Fairness ==
  /\ WF_vars(TickDue) /\ WF_vars(HandleWfiIar) /\ WF_vars(Signalled /\ PhysIrq)
  /\ \A i \in VCPUS :
       /\ WF_vars(VtimerDue(i))
       /\ SF_vars(current = i /\ VtimerIrq)
       /\ SF_vars(HandleWfi(i))
       /\ SF_vars(TakeVirq(i)) /\ SF_vars(Progress(i))

FairSpec == Spec /\ Fairness

\* handle_wfi left an interrupt active that nobody will complete.
Wedged == ~PpisCompletedInline

\* SPI 33 is active for a vCPU that does not run, at a priority the tick does
\* not preempt: only the tick could let that vCPU run and complete it.
TickShadowed ==
  /\ phys_active[IRQ_PL011] <= gicd.prio[IRQ_HTIMER]
  /\ ~vgics[current].has_phys_iar

\* sched.c: "CNTHP fires every SLICE_MS regardless of NVCPU": every vCPU gets
\* the CPU again and again.
TickKeepsComing == \A i \in VCPUS : []<>(current = i)

\* Round robin: every vCPU gets the CPU again and again, whatever the guests do
\* with their interrupts and however long SPI 33 stays active, except in the
\* two situations above.
EveryVcpuRuns == \A i \in VCPUS : []<>(current = i \/ Wedged \/ TickShadowed)

\* With Linux alone the heartbeat survives what Linux writes to the distributor:
\* PPI 26 disabled (reassert_htimer_ppi), put at SPI 33's priority while SPI 33
\* stays active until the guest's own EOIR, or beside an SGI that is more
\* urgent.  A tick that is due is taken, unless handle_wfi's poll has wedged the
\* CPU interface, the distributor is off, or PPI 26 is at the one priority that
\* GICC_PMR masks.
TickReturns ==
  cnthp = "due" ~>
    (cnthp = "armed" \/ Wedged \/ ~gicd.ctlr \/ gicd.prio[IRQ_HTIMER] = IDLE)

\* vgic.c: "Linux never loses the console-RX path": received data is eventually
\* drained by the Linux driver, though it masks the PL011, unless handle_wfi's
\* poll has wedged the CPU interface (which is another matter).
ConsoleNeverLost == rx ~> (~rx \/ Wedged)

\* With Linux alone on a one-CPU GIC: whatever Linux writes to the distributor
\* and though handle_wfi's word writes hit the lanes of INTID 34, its poll is
\* enough.  Received data is drained even if SPI 33 never interrupts, unless the
\* poll has wedged the CPU interface or Linux has switched the distributor off;
\* once it is on again, data that waited is drained, too.
ConsoleKept == rx ~> (~rx \/ Wedged \/ ~gicd.ctlr)

\* With other guests, once Linux has put the tick at SPI 33's own priority: the
\* byte may first interrupt guests that cannot use it, or nobody, but the tick
\* gets in every time one of them completes SPI 33, and Linux has its turn to
\* poll.
InputIsDrained ==
  (rx /\ gicd.prio[IRQ_HTIMER] = PRIO_MID) ~> (~rx \/ Wedged \/ TickShadowed)

\* An interrupt pended to a vCPU is acknowledged by its guest, also when the
\* vCPU is switched out with HCR_EL2.VI set before it could take it.
PendingIsTaken ==
  \A i \in VCPUS : \A intid \in {IRQ_VTIMER, IRQ_PL011} :
    intid \in vgics[i].pending_mask ~>
      (intid \notin vgics[i].pending_mask \/ Wedged \/ TickShadowed)

-----------------------------------------------------------------------------
(* Refinement.                                                             *)

Private ==
  INSTANCE VirtualCpus WITH
    VTIMER  <- IRQ_VTIMER,
    CONSOLE <- IRQ_PL011,
    pending <- [i \in VCPUS |-> vgics[i].pending_mask],
    line    <- [i \in VCPUS |-> Virq(i)],
    timer   <- [i \in VCPUS |-> Vtimer(i)],
    owner   <- {i \in VCPUS : vgics[i].has_phys_iar}

\* The one HCR_EL2.VI bit and the one CNTV timer, handed round by sched_tick,
\* behave like a line and a timer per vCPU: a context switch changes nothing a
\* guest can tell, a vCPU's timer interrupt comes from its own timer and goes
\* to its own bitmap, and SPI 33 is held by one vCPU at a time.
PrivateSpec == Private!Spec

=============================================================================
