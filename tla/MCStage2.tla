------------------------------ MODULE MCStage2 ------------------------------
(***************************************************************************)
(* The pages on both sides of every boundary of the memory map, and of     *)
(* every table, for two VMs.                                               *)
(***************************************************************************)
EXTENDS Stage2

Edges ==
  {0, GIC_BASE, GIC_BASE + 16, GICC_END, GIC_BASE + 512, UART_BASE, UART_BASE + 512,
   PRIV_IPA, PRIV_IPA + 1, PRIV_IPA + 512, RAM_BASE, RAM_BASE + 512, 327680,
   2 * RAM_BASE, 3 * RAM_BASE, 1048575}

Pages == UNION {{e - 2, e - 1, e, e + 1} : e \in Edges} \cap IPAS

\* Two neighbouring pages of the hypervisor's .bss.
PrivPages == [i \in VMS |-> 262400 + i]

=============================================================================
