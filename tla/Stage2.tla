------------------------------- MODULE Stage2 -------------------------------
(***************************************************************************)
(* src/stage2.c: the stage-2 tables stage2_alloc_vm builds for a VM, and   *)
(* the hardware walk over them (external: the VMSAv8-64 walk with a 4 KiB  *)
(* granule that the VTCR_EL2 value of stage2_global_init selects, starting *)
(* at level 1 for a 32-bit IPA).                                           *)
(*                                                                         *)
(* An address is its 4 KiB page number.  A descriptor is INVALID, a table  *)
(* or an output page with its memory type; a block's output is the page of *)
(* its base.  The access flag and the permissions are the same in all.     *)
(***************************************************************************)
EXTENDS Integers

CONSTANTS
  MAX_VMS,        \* 2 in the code
  vm_priv_page,   \* the host page of each VM's private page
  PAGES           \* the IPA pages that guests access

VARIABLES
  s2,        \* [l1, l2_low, l3_gic, l3_priv] of each VM
  built,     \* the VMs whose tables stage2_alloc_vm has built
  access     \* the last guest access: VM, IPA page, translation, who handles it

VMS     == 0 .. MAX_VMS - 1
IPAS    == {p \in Nat : p < 1048576}    \* 32-bit IPAs
ENTRIES == 0 .. 511

ASSUME Stage2Assumption ==
  /\ MAX_VMS \in Nat \ {0}
  /\ vm_priv_page \in [VMS -> IPAS]
  /\ \A i, j \in VMS : i # j => vm_priv_page[i] # vm_priv_page[j]
  /\ PAGES \subseteq IPAS

vars == <<s2, built, access>>

INVALID     == [type |-> "invalid", out |-> 0, mem |-> "none"]
Leaf(p, m)  == [type |-> "leaf", out |-> p, mem |-> m]
Table(name) == [type |-> name, out |-> 0, mem |-> "none"]

Zeroed == [l1     |-> [e \in ENTRIES |-> INVALID], l2_low  |-> [e \in ENTRIES |-> INVALID],
           l3_gic |-> [e \in ENTRIES |-> INVALID], l3_priv |-> [e \in ENTRIES |-> INVALID]]

RAM_BASE  == 262144     \* 0x40000000
UART_BASE == 36864      \* 0x09000000
GIC_BASE  == 32768      \* 0x08000000
GICC_END  == 32800      \* 0x08020000
PRIV_IPA  == 40960      \* 0x0A000000

-----------------------------------------------------------------------------
(* Index of a page in the tables of each level.                            *)

\* Mutant: the level 2 index of a level 3 shift.
L2IndexShifted(p) == p % 512

L1Index(p) == p \div 262144
L2Index(p) == (p \div 512) % 512
L3Index(p) == p % 512

\* Mutant: every VM gets the private page of VM 0.
PrivateLeafOfZero(id) == Leaf(vm_priv_page[0], "normal")

\* Mutant: the address of the page is taken for a page number and shifted.
PrivateLeafShifted(id) == Leaf(4096 * vm_priv_page[id], "normal")

PrivateLeaf(id) == Leaf(vm_priv_page[id], "normal")

\* The tables stage2_alloc_vm leaves behind.
Tables(id) ==
  [Zeroed EXCEPT
     !.l2_low  = [@ EXCEPT ![L2Index(UART_BASE)] = Leaf(UART_BASE, "device"),
                           ![L2Index(GIC_BASE)]  = Table("l3_gic"),
                           ![L2Index(PRIV_IPA)]  = Table("l3_priv")],
     !.l1      = [@ EXCEPT ![0] = Table("l2_low"), ![1] = Leaf(RAM_BASE, "normal")],
     !.l3_priv = [@ EXCEPT ![0] = PrivateLeaf(id)]]

-----------------------------------------------------------------------------
(* The walk.  A leaf covers size pages from the page it holds.             *)

FAULT == [type |-> "fault", out |-> 0, mem |-> "none"]

Output(d, p, size) ==
  IF d.type = "leaf" THEN [d EXCEPT !.out = @ + (p % size)] ELSE FAULT

Walk(t, p) ==
  LET d1 == t.l1[L1Index(p)]
      d2 == t.l2_low[L2Index(p)]
      d3 == IF d2.type = "l3_gic" THEN t.l3_gic[L3Index(p)] ELSE t.l3_priv[L3Index(p)]
  IN  IF d1.type # "l2_low" THEN Output(d1, p, 262144)
      ELSE IF d2.type \notin {"l3_gic", "l3_priv"} THEN Output(d2, p, 512)
      ELSE Output(d3, p, 1)

\* Mutant: the window is a page too long.
HandledLong(t, p) ==
  IF t.type # "fault" THEN "memory"
  ELSE IF GIC_BASE <= p /\ p <= GICC_END THEN "vgic_mmio"
  ELSE "skipped"

\* handle_stage2_abort: what becomes of an access.
Handled(t, p) ==
  IF t.type # "fault" THEN "memory"
  ELSE IF GIC_BASE <= p /\ p < GICC_END THEN "vgic_mmio"
  ELSE "skipped"

-----------------------------------------------------------------------------
NoAccess == [vm |-> 0, ipa |-> 0, to |-> FAULT, by |-> "none"]

\* sched_init runs stage2_global_init and then allocates VM 0, VM 1, ...
Init ==
  /\ s2 = [i \in VMS |-> Zeroed]
  /\ built = {}
  /\ access = NoAccess

stage2_alloc_vm(id) ==
  /\ id \notin built
  /\ \A j \in VMS : j < id => j \in built
  /\ s2' = [s2 EXCEPT ![id] = Tables(id)]
  /\ built' = built \cup {id}
  /\ UNCHANGED access

\* Guests run when all VMs are built.
GuestAccess(id, p) ==
  LET t == Walk(s2[id], p) IN
  /\ built = VMS
  /\ access' = [vm |-> id, ipa |-> p, to |-> t, by |-> Handled(t, p)]
  /\ UNCHANGED <<s2, built>>

Next ==
  \E id \in VMS : stage2_alloc_vm(id) \/ \E p \in PAGES : GuestAccess(id, p)

Spec == Init /\ [][Next]_vars

-----------------------------------------------------------------------------
DESC == [type : {"invalid", "leaf", "l2_low", "l3_gic", "l3_priv"},
         out : IPAS, mem : {"none", "normal", "device"}]
S2T  == [l1 : [ENTRIES -> DESC], l2_low : [ENTRIES -> DESC],
         l3_gic : [ENTRIES -> DESC], l3_priv : [ENTRIES -> DESC]]

XLATE == {FAULT} \cup [type : {"leaf"}, out : IPAS, mem : {"normal", "device"}]

\* Every variable has its type.
TypeOK ==
  /\ s2 \in [VMS -> S2T]
  /\ built \subseteq VMS
  /\ access \in [vm : VMS, ipa : IPAS, to : XLATE,
                 by : {"none", "memory", "vgic_mmio", "skipped"}]

\* The memory map as the comments in stage2_alloc_vm give it.  The header of
\* stage2.c and README.md of the repository map the GIC's distributor as well;
\* the code leaves it out, so that vgic_mmio sees every access.
Layout(id, p) ==
  IF RAM_BASE <= p /\ p < 2 * RAM_BASE THEN Leaf(p, "normal")
  ELSE IF UART_BASE <= p /\ p < UART_BASE + 512 THEN Leaf(p, "device")
  ELSE IF p = PRIV_IPA THEN Leaf(vm_priv_page[id], "normal")
  ELSE FAULT

\* Every access of a guest goes where the memory map says, whatever level of
\* the tables decides it: RAM and the UART at their own addresses, the private
\* page at the host page of that VM, and nothing else.
AccessFollowsLayout ==
  access.by # "none" => access.to = Layout(access.vm, access.ipa)

\* No access to the GIC bypasses the emulation of vgic.c, and vgic_mmio is not
\* called for anything else: it sees exactly the distributor and CPU interface
\* windows ("LEFT UNMAPPED", stage2.c:89; README.md:228-230 says that guests
\* reach the distributor directly through a stage-2 mapping, which they do not).
GicIsEmulated ==
  access.by # "none" =>
    (access.by = "vgic_mmio" <=> GIC_BASE <= access.ipa /\ access.ipa < GICC_END)

\* "Each VM sees a different host page at the same IPA": at 0x0A000000.
PrivateIsPrivate ==
  \A i, j \in built : i # j =>
    Walk(s2[i], PRIV_IPA).out # Walk(s2[j], PRIV_IPA).out

=============================================================================
