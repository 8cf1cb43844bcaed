----------------------------- MODULE VcpuSwitch -----------------------------
(***************************************************************************)
(* save_vcpu and load_vcpu of src/sched.c one register write at a time,    *)
(* with the translation hardware running beside them.  Module Sched has    *)
(* the switch as one step; here the question is what the MMU can see, and  *)
(* leave behind in the TLB, while the registers are half the outgoing      *)
(* vCPU's and half the incoming one's.                                     *)
(*                                                                         *)
(* A register holds <<owner, bit>>: whose value it is and one bit of it,   *)
(* which for sctlr is SCTLR_EL1.M.  Registers that are only carried along  *)
(* are grouped: "gpr" is the trap frame, "cntv" the two timer registers,   *)
(* "mair" both memory attribute registers, "sp" sp_el1 and tpidr_el1, and  *)
(* "el1" the rest of vbar_el1 to par_el1.  The VMID is part of vttbr, so   *)
(* it is the owner of that register.                                       *)
(***************************************************************************)
EXTENDS Integers, Sequences

CONSTANTS
  NVCPU,      \* number of vCPUs
  PLAIN       \* the registers guests write besides the translation ones

VARIABLES
  current, regs, vcpus,
  step,       \* 0: a guest runs; otherwise the next entry of LoadOrder
  tlb,        \* cached translations
  view        \* what each guest last left in its registers

VCPUS == 0 .. NVCPU - 1
BOOT  == NVCPU          \* owner of what firmware left in a register
FLAT  == NVCPU + 1      \* "tables" of a walk with stage 1 off

TABLES == {"ttbr0", "ttbr1", "tcr", "mair"}
REGS   == {"gpr", "vttbr", "hcr", "cntv", "el1", "sp", "sctlr"} \cup TABLES

ASSUME SwitchAssumption ==
  /\ NVCPU \in Nat \ {0}
  /\ PLAIN \subseteq REGS \ (TABLES \cup {"sctlr", "vttbr"})

VAL   == (VCPUS \cup {BOOT}) \X {0, 1}
ENTRY == [vmid : VCPUS, from : SUBSET (VCPUS \cup {BOOT, FLAT})]

vars == <<current, regs, vcpus, step, tlb, view>>

\* Mutant: stage 1 is left on while the tables change.
LoadOrderNoOff ==
  <<"gpr", "vttbr", "hcr", "cntv", "ttbr0", "ttbr1", "tcr", "mair", "el1",
    "sp", "sctlr", "tlbi">>

\* The writes of load_vcpu in program order; "sctlr_off" is the write of zero
\* with the isb behind it, "tlbi" the flush with its barriers.
LoadOrder ==
  <<"gpr", "vttbr", "hcr", "cntv", "sctlr_off", "ttbr0", "ttbr1", "tcr",
    "mair", "el1", "sp", "sctlr", "tlbi">>

\* init_vcpu leaves the EL1 registers zero.
init_vcpu(i) == [r \in REGS |-> <<i, 0>>]

\* sched_start writes these and nothing else; the others are firmware's.
Started == {"gpr", "vttbr", "hcr", "cntv", "sp"}

Init ==
  /\ current = 0
  /\ regs = [r \in REGS |-> IF r \in Started THEN init_vcpu(0)[r] ELSE <<BOOT, 0>>]
  /\ vcpus = [i \in VCPUS |-> init_vcpu(i)]
  /\ step = 0
  /\ tlb = {}
  /\ view = [i \in VCPUS |-> IF i = 0 THEN regs ELSE vcpus[i]]

-----------------------------------------------------------------------------
(* Guests.                                                                 *)

Flushed(id) == {e \in tlb : e.vmid # id}

GuestWrites(new) ==
  /\ step = 0
  /\ regs' = [r \in REGS |-> IF r \in DOMAIN new THEN <<current, new[r]>> ELSE regs[r]]
  /\ view' = [view EXCEPT ![current] = regs']
  /\ UNCHANGED <<current, vcpus, step>>

GuestPlain(r, b) == GuestWrites([x \in {r} |-> b]) /\ UNCHANGED tlb

\* A guest that turns its MMU on or off has its tables ready and drops its own
\* cached translations, as the architecture asks of it.
GuestMmu(b) ==
  /\ GuestWrites([x \in TABLES \cup {"sctlr"} |-> b])
  /\ tlb' = Flushed(current)

-----------------------------------------------------------------------------
(* The MMU may walk the tables at any time, also for EL1 while EL2 runs,   *)
(* with whatever the registers hold, and caches the result under the       *)
(* current VMID.                                                           *)

Walk ==
  /\ tlb' = tlb \cup
       {[vmid |-> regs["vttbr"][1],
         from |-> IF regs["sctlr"][2] = 1 THEN {regs[r][1] : r \in TABLES} ELSE {FLAT}]}
  /\ UNCHANGED <<current, regs, vcpus, step, view>>

-----------------------------------------------------------------------------
(* sched_tick.                                                             *)

\* Mutant: the registers from sctlr_el1 on are not saved.
save_vcpuShort == [r \in REGS |-> IF r \in Started THEN regs[r] ELSE vcpus[current][r]]

save_vcpu == [r \in REGS |-> regs[r]]

\* Mutant: the round robin does not wrap.
NextVcpuNoWrap == current + 1

NextVcpu == (current + 1) % NVCPU

SwitchOut ==
  /\ step = 0
  /\ NVCPU > 1
  /\ vcpus' = [vcpus EXCEPT ![current] = save_vcpu]
  /\ current' = NextVcpu
  /\ step' = 1
  /\ UNCHANGED <<regs, tlb, view>>

\* Mutant: the flush hits the VMID that was left.
tlbiOutgoing == {e \in tlb : e.vmid # (current + NVCPU - 1) % NVCPU}

\* tlbi vmalls12e1is: the entries of the VMID that VTTBR_EL2 holds now.
tlbi == Flushed(regs["vttbr"][1])

load_vcpu ==
  /\ step # 0
  /\ LET r == LoadOrder[step] IN
     /\ regs' = CASE r = "tlbi"      -> regs
                  [] r = "sctlr_off" -> [regs EXCEPT !["sctlr"] = <<BOOT, 0>>]
                  [] OTHER           -> [regs EXCEPT ![r] = vcpus[current][r]]
     /\ tlb' = IF r = "tlbi" THEN tlbi ELSE tlb
  /\ step' = IF step = Len(LoadOrder) THEN 0 ELSE step + 1
  /\ UNCHANGED <<current, vcpus, view>>

-----------------------------------------------------------------------------
Next ==
  \/ \E r \in PLAIN, b \in {0, 1} : GuestPlain(r, b)
  \/ \E b \in {0, 1} : GuestMmu(b)
  \/ Walk
  \/ SwitchOut
  \/ load_vcpu

Spec == Init /\ [][Next]_vars

-----------------------------------------------------------------------------
\* Every variable has its type.
TypeOK ==
  /\ current \in VCPUS
  /\ regs \in [REGS -> VAL] /\ regs["vttbr"][1] \in VCPUS
  /\ vcpus \in [VCPUS -> [REGS -> VAL]]
  /\ view \in [VCPUS -> [REGS -> VAL]]
  /\ step \in 0 .. Len(LoadOrder)
  /\ tlb \subseteq ENTRY

\* load_vcpu may be overtaken by table walks at every write, and does leave the
\* incoming VMID on the outgoing tables for a while: whenever a guest runs, the
\* translations cached under its VMID come from its own tables, with stage 1
\* on or off as that guest has it.
TlbIsOwn ==
  step = 0 =>
    \A e \in tlb : e.vmid = current =>
      e.from = IF regs["sctlr"][2] = 1 THEN {current} ELSE {FLAT}

\* A guest finds every saved register as it left it, however many switches
\* later, and a guest that is switched out has its registers intact in its
\* vcpu_t while load_vcpu is under way for another.
RegistersKept ==
  /\ step = 0 => regs = view[current]
  /\ \A i \in VCPUS : i # current => vcpus[i] = view[i]
  /\ step # 0 => vcpus[current] = view[current]

\* sched.c: "Disable EL1 MMU before swapping TTBR/TCR/MAIR": stage 1 is never
\* on while the translation registers belong to two guests.
NeverMixed ==
  regs["sctlr"][2] = 1 => \A r, s \in TABLES : regs[r][1] = regs[s][1]

=============================================================================
