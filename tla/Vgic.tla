-------------------------------- MODULE Vgic --------------------------------
(***************************************************************************)
(* src/vgic.c: the software GICC each vCPU sees, and HCR_EL2.VI, the one   *)
(* bit through which an emulated interrupt reaches the guest.  vi is that  *)
(* bit in the live register; the copy of a vCPU that is not running is in  *)
(* module Sched.                                                           *)
(*                                                                         *)
(* Every operator on v takes and returns the vgic_t of one vCPU.  The      *)
(* bitmap pending_mask is the set of its bit numbers.  ctlr, pmr and bpr   *)
(* are stored and read back, and nothing else looks at them.               *)
(***************************************************************************)
EXTENDS Gic

CONSTANTS NVCPU      \* number of vCPUs

VARIABLES vgics, vi

VCPUS == 0 .. NVCPU - 1

ASSUME NvcpuAssumption == NVCPU \in Nat \ {0}

NO_INTID == 1023
PENDABLE == 0 .. 63    \* the INTIDs of the 64-bit bitmap

VgicT == [pending_mask : SUBSET PENDABLE,
          ctlr : 0 .. 31, pmr : 0 .. 255, bpr : 0 .. 7,
          active : PENDABLE \cup {NO_INTID},
          phys_iar : INTIDS \cup {0}, has_phys_iar : BOOLEAN]

vgic_init == [pending_mask |-> {}, ctlr |-> 0, pmr |-> 0, bpr |-> 0,
              active |-> NO_INTID, phys_iar |-> 0, has_phys_iar |-> FALSE]

\* lowest_pending(mask) = intid.
IsLowestPending(mask, intid) ==
  IF mask = {} THEN intid = NO_INTID
  ELSE intid \in mask /\ \A j \in mask : intid <= j

-----------------------------------------------------------------------------
Pended(v, intid) ==
  IF intid >= 64 THEN v ELSE [v EXCEPT !.pending_mask = @ \cup {intid}]

\* Mutant: the bit is set but HCR_EL2.VI is not.
vgic_injectNoVi(id, intid) ==
  /\ vgics' = [vgics EXCEPT ![id] = Pended(@, intid)]
  /\ vi' = vi

vgic_inject(id, intid) ==
  /\ vgics' = [vgics EXCEPT ![id] = Pended(@, intid)]
  /\ vi' = (intid < 64 \/ vi)

Forwarding(v, intid, iar) ==
  Pended([v EXCEPT !.phys_iar = iar, !.has_phys_iar = TRUE], intid)

vgic_forward_spi(id, intid, iar) ==
  /\ vgics' = [vgics EXCEPT ![id] = Forwarding(@, intid, iar)]
  /\ vi' = (intid < 64 \/ vi)

vgic_has_pending_phys_iar(id) == vgics[id].has_phys_iar

AllAcked(v) ==
  [v EXCEPT !.pending_mask = {}, !.active = NO_INTID, !.has_phys_iar = FALSE]

\* Mutant: HVC_IRQ_DONE forgets the deferred interrupt without its EOI.
vgic_ack_allNoEoi(id) ==
  /\ vgics' = [vgics EXCEPT ![id] = AllAcked(@)]
  /\ vi' = FALSE
  /\ UNCHANGED phys_active

\* HVC_IRQ_DONE: forget everything, and complete a deferred physical EOI.
vgic_ack_all(id) ==
  LET v == vgics[id] IN
  /\ vgics' = [vgics EXCEPT ![id] = AllAcked(@)]
  /\ phys_active' = IF v.has_phys_iar THEN Eoied(phys_active, v.phys_iar)
                    ELSE phys_active
  /\ vi' = FALSE

-----------------------------------------------------------------------------
(* read_reg and write_reg.  The registers without a side effect (RPR,      *)
(* HPPIR, IIDR, the three below read back) are reads that change nothing.  *)

IarRead(v, intid) == [v EXCEPT !.pending_mask = @ \ {intid}, !.active = intid]

\* The physical EOI of intid is v's to write.
Defers(v, intid) == v.has_phys_iar /\ v.phys_iar = intid

EoirWritten(v, intid) ==
  [v EXCEPT !.active       = IF @ = intid THEN NO_INTID ELSE @,
            !.has_phys_iar = @ /\ ~Defers(v, intid)]

\* Mutant: acknowledging one interrupt clears the line for all.
read_iarClearsVi(id, intid) ==
  LET v == vgics[id] IN
  /\ IsLowestPending(v.pending_mask, intid)
  /\ IF intid = NO_INTID THEN UNCHANGED <<vgics, vi>>
     ELSE /\ vgics' = [vgics EXCEPT ![id] = IarRead(@, intid)]
          /\ vi' = FALSE
  /\ UNCHANGED phys_active

\* Mutant: acknowledging one interrupt empties the bitmap.
read_iarClearsMask(id, intid) ==
  LET v == vgics[id] IN
  /\ IsLowestPending(v.pending_mask, intid)
  /\ IF intid = NO_INTID THEN UNCHANGED <<vgics, vi>>
     ELSE /\ vgics' = [vgics EXCEPT ![id] = [@ EXCEPT
                           !.pending_mask = {}, !.active = intid]]
          /\ vi' = FALSE
  /\ UNCHANGED phys_active

\* read_reg, GICC_IAR: the guest is given intid.
read_iar(id, intid) ==
  LET v == vgics[id] IN
  /\ IsLowestPending(v.pending_mask, intid)
  /\ IF intid = NO_INTID THEN UNCHANGED <<vgics, vi>>
     ELSE /\ vgics' = [vgics EXCEPT ![id] = IarRead(@, intid)]
          /\ vi' = (IarRead(v, intid).pending_mask # {})
  /\ UNCHANGED phys_active

\* Mutant: the active slot is not released.
write_eoirKeepsActive(id, intid) ==
  /\ vgics' = [vgics EXCEPT ![id].has_phys_iar = @ /\ ~Defers(vgics[id], intid)]
  /\ phys_active' = IF Defers(vgics[id], intid) THEN Eoied(phys_active, intid)
                    ELSE phys_active
  /\ UNCHANGED vi

\* Mutant: the deferred physical EOI is forgotten.
write_eoirNoPhys(id, intid) ==
  /\ vgics' = [vgics EXCEPT ![id].active = IF @ = intid THEN NO_INTID ELSE @]
  /\ UNCHANGED <<vi, phys_active>>

\* write_reg, GICC_EOIR: drop the active slot if it is intid, and write the
\* physical EOIR if the deferred interrupt is intid.
write_eoir(id, intid) ==
  /\ vgics' = [vgics EXCEPT ![id] = EoirWritten(@, intid)]
  /\ phys_active' = IF Defers(vgics[id], intid) THEN Eoied(phys_active, intid)
                    ELSE phys_active
  /\ UNCHANGED vi

\* Mutant: GICC_CTLR is stored without its mask.
StoredWrittenUnmasked(v, reg, val) ==
  CASE reg = "CTLR" -> [v EXCEPT !.ctlr = val]
    [] reg = "PMR"  -> [v EXCEPT !.pmr  = val % 256]
    [] reg = "BPR"  -> [v EXCEPT !.bpr  = val % 8]

\* write_reg, the stored registers.
StoredWritten(v, reg, val) ==
  CASE reg = "CTLR" -> [v EXCEPT !.ctlr = val % 32]
    [] reg = "PMR"  -> [v EXCEPT !.pmr  = val % 256]
    [] reg = "BPR"  -> [v EXCEPT !.bpr  = val % 8]

write_stored(id, reg, val) ==
  /\ vgics' = [vgics EXCEPT ![id] = StoredWritten(@, reg, val)]
  /\ UNCHANGED <<vi, phys_active>>

=============================================================================
