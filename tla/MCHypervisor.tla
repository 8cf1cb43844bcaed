---------------------------- MODULE MCHypervisor ----------------------------
(***************************************************************************)
(* Instances of Hypervisor for TLC: the distributor and CPU interface      *)
(* writes that the guest makes in each run.                                *)
(***************************************************************************)
EXTENDS Hypervisor

Write(r, i, v) == [reg |-> r, intid |-> i, val |-> v]

\* What Linux's GIC driver does: it drops the PPIs it does not know, lowers
\* priorities to 0xA0 and re-enables its own.
LinuxGicdOps ==
  {Write("ICENABLER", 26, 0), Write("ICENABLER", 27, 0), Write("ISENABLER", 27, 0),
   Write("IPRIORITYR", 26, 160)}

\* The one write that lets SPI 33 compete with the tick.
LowerTick == {Write("IPRIORITYR", 26, 160)}

\* Every kind of write to the tick's and the console's interrupts, an SGI and the
\* distributor switch.
AllGicdOps ==
  {Write("ICENABLER", 26, 0), Write("IPRIORITYR", 26, 160), Write("SGIR", 1, 0),
   Write("ICENABLER", 33, 0), Write("IPRIORITYR", 33, 0), Write("ITARGETSR", 33, 0),
   Write("IPRIORITYR", 26, 255), Write("CTLR", 0, 0), Write("CTLR", 0, 1)}

NoOps == {}

\* GICC_CTLR with EOImode set, as Linux writes it: not all of it is kept.
GiccOps == {<<"CTLR", 513>>}

=============================================================================
