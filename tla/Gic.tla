-------------------------------- MODULE Gic --------------------------------
(***************************************************************************)
(* The physical GICv2 that EL2 drives, and what src/gic.c, src/vgic.c and  *)
(* src/exceptions.c write into it.  The interrupt controller itself is     *)
(* hardware: its arbitration is modelled as far as the hypervisor relies   *)
(* on it (an interrupt is taken when it is pending, enabled, targeted at   *)
(* CPU 0, not active, and more urgent than everything active; a lower      *)
(* INTID wins a tie).  Priorities are GIC priorities: smaller is more      *)
(* urgent.                                                                 *)
(*                                                                         *)
(* gicd is the distributor: ctlr (GICD_CTLR enables forwarding), enabled   *)
(* (ISENABLER), prio (IPRIORITYR), target (the SPIs whose ITARGETSR names  *)
(* CPU 0) and sgi (latched SGIs).  phys_active is the CPU interface: the   *)
(* priority an active interrupt was acknowledged at, or IDLE.              *)
(***************************************************************************)
EXTENDS Integers

CONSTANTS
  INTIDS,            \* the physical interrupts modelled
  ITargetsWritable   \* FALSE: ITARGETSR ignores writes, as on a one-CPU GIC

VARIABLES gicd, phys_active

IRQ_HTIMER == 26
IRQ_VTIMER == 27
IRQ_PL011  == 33
IDLE       == 255    \* running priority of an idle CPU interface, and GICC_PMR
PRIO_MID   == 160    \* 0xA0

SGIS  == {i \in INTIDS : i < 16}
SPIS  == {i \in INTIDS : i >= 32}
PRIOS == 0 .. 255

ASSUME IntidAssumption ==
  /\ INTIDS \subseteq Nat
  /\ {IRQ_HTIMER, IRQ_VTIMER, IRQ_PL011} \subseteq INTIDS
  /\ ITargetsWritable \in BOOLEAN

Gicd == [ctlr : BOOLEAN, enabled : SUBSET INTIDS, prio : [INTIDS -> PRIOS],
         target : SUBSET INTIDS, sgi : SUBSET SGIS]

-----------------------------------------------------------------------------
(* Arbitration (hardware).  lines is the set of interrupts whose line is   *)
(* high or whose pending latch is set.                                     *)

Forwarded(g, act, lines, i) ==
  /\ g.ctlr
  /\ i \in lines \cap g.enabled
  /\ act[i] = IDLE
  /\ g.prio[i] < IDLE
  /\ i \in SPIS => i \in g.target

Beats(g, i, j) == g.prio[i] < g.prio[j] \/ (g.prio[i] = g.prio[j] /\ i < j)

\* GICC_HPPIR reads i: the most urgent pending interrupt.
HighestPending(g, act, lines, i) ==
  /\ Forwarded(g, act, lines, i)
  /\ \A j \in INTIDS \ {i} : Forwarded(g, act, lines, j) => Beats(g, i, j)

\* GICC_IAR returns i: it also has to preempt whatever is active.
Acknowledgeable(g, act, lines, i) ==
  /\ HighestPending(g, act, lines, i)
  /\ \A j \in INTIDS : g.prio[i] < act[j]

Acked(act, g, i) == [act EXCEPT ![i] = g.prio[i]]
Eoied(act, i)    == [act EXCEPT ![i] = IDLE]

-----------------------------------------------------------------------------
(* Distributor writes made at EL2.                                         *)

SetTarget(g, i) == IF ITargetsWritable THEN g.target \cup {i} ELSE g.target

\* gic_init_el2: both timer PPIs at the most urgent priority, SPI 33 routed
\* to CPU 0 at a middle one.  SGIs are always enabled; on a one-CPU GIC every
\* SPI targets CPU 0.
gic_init_el2 ==
  /\ gicd = [ctlr    |-> TRUE,
             enabled |-> SGIS \cup {IRQ_HTIMER, IRQ_VTIMER, IRQ_PL011},
             prio    |-> [i \in INTIDS |-> IF i = IRQ_PL011 THEN PRIO_MID ELSE 0],
             target  |-> IF ITargetsWritable THEN {IRQ_PL011} ELSE SPIS,
             sgi     |-> {}]
  /\ phys_active = [i \in INTIDS |-> IDLE]

reassert_htimer_ppi(g) == [g EXCEPT !.enabled = @ \cup {IRQ_HTIMER}]

\* The distributor half of reassert_pl011_rx and pl011_rx_reassert: byte
\* writes to the lanes of INTID 33.
reassert_pl011(g) ==
  [g EXCEPT !.enabled = @ \cup {IRQ_PL011},
            !.target  = SetTarget(g, IRQ_PL011),
            !.prio    = [@ EXCEPT ![IRQ_PL011] = PRIO_MID]]

\* handle_wfi writes whole words at GICD + 0x820 and GICD + 0x420, which hold
\* the bytes of INTIDs 32 to 35: byte 2 of each word, INTID 34's, is the one
\* that is not zero.
WfiLanes  == 32 .. 35
WfiLane   == 34
WfiTarget(t) ==
  IF ITargetsWritable THEN (t \ WfiLanes) \cup (INTIDS \cap {WfiLane}) ELSE t
WfiPrio(p) ==
  [i \in INTIDS |-> IF i = WfiLane THEN PRIO_MID
                    ELSE IF i \in WfiLanes THEN 0 ELSE p[i]]

\* The write of 0xFFFF to GICD_ICPENDR0 has no effect: a GICv2 ignores the bits
\* of SGIs there.
wfi_gicd(g) ==
  [g EXCEPT !.enabled = @ \cup {IRQ_PL011},
            !.target  = WfiTarget(@),
            !.prio    = WfiPrio(@)]

\* The guest writes that the forwarding arm of vgic_mmio is modelled for.  It
\* forwards the other registers too: see the README on GICD_ISPENDR, ISACTIVER,
\* ICACTIVER and IGROUPR.
GicdWrites ==
       [reg : {"ISENABLER", "ICENABLER"}, intid : INTIDS \ SGIS, val : {0}]
  \cup [reg : {"SGIR"}, intid : SGIS, val : {0}]
  \cup [reg : {"IPRIORITYR"}, intid : INTIDS, val : PRIOS]
  \cup [reg : {"ITARGETSR"}, intid : SPIS, val : {0, 1}]
  \cup [reg : {"CTLR"}, intid : {0}, val : {0, 1}]

GicdWritten(g, w) ==
  CASE w.reg = "ISENABLER"  -> [g EXCEPT !.enabled = @ \cup {w.intid}]
    [] w.reg = "ICENABLER"  -> [g EXCEPT !.enabled = @ \ {w.intid}]
    [] w.reg = "IPRIORITYR" -> [g EXCEPT !.prio = [@ EXCEPT ![w.intid] = w.val]]
    [] w.reg = "ITARGETSR"  -> [g EXCEPT !.target =
                                  IF ~ITargetsWritable THEN @
                                  ELSE IF w.val = 1 THEN @ \cup {w.intid}
                                  ELSE @ \ {w.intid}]
    [] w.reg = "SGIR"       -> [g EXCEPT !.sgi = @ \cup {w.intid}]
    [] w.reg = "CTLR"       -> [g EXCEPT !.ctlr = (w.val = 1)]

=============================================================================
