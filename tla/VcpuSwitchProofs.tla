-------------------------- MODULE VcpuSwitchProofs --------------------------
(***************************************************************************)
(* Proofs about module VcpuSwitch, for every number of vCPUs.              *)
(***************************************************************************)
EXTENDS VcpuSwitch, TLAPS

\* Where load_vcpu writes each register.
Position == [gpr |-> 1, vttbr |-> 2, hcr |-> 3, cntv |-> 4, ttbr0 |-> 6, ttbr1 |-> 7,
             tcr |-> 8, mair |-> 9, el1 |-> 10, sp |-> 11, sctlr |-> 12]

\* The registers load_vcpu has written are the incoming vCPU's.
Loaded ==
  step # 0 => \A r \in REGS : Position[r] < step => regs[r] = vcpus[current][r]

\* What guest i left behind: its own VMID and, with stage 1 on, its own tables.
Own(i) ==
  /\ view[i]["vttbr"][1] = i
  /\ view[i]["sctlr"][2] = 1 => \A r \in TABLES : view[i][r][1] = i

\* From the write of zero to the write of the incoming value stage 1 is off.
OffBetween == step \in 6 .. 12 => regs["sctlr"][2] = 0

SwitchInv ==
  /\ TypeOK /\ RegistersKept /\ NeverMixed /\ TlbIsOwn
  /\ Loaded /\ OffBetween /\ \A i \in VCPUS : Own(i)

-----------------------------------------------------------------------------
\* The writes of load_vcpu: one per register, sctlr_el1 off before the tables
\* change and the flush last.
LEMMA OrderFacts ==
  /\ Len(LoadOrder) = 13
  /\ \A r \in REGS : Position[r] \in 1 .. 12 /\ Position[r] # 5
  /\ \A k \in 1 .. 13 : \/ k = 5 /\ LoadOrder[k] = "sctlr_off"
                        \/ k = 13 /\ LoadOrder[k] = "tlbi"
                        \/ /\ k \notin {5, 13}
                           /\ LoadOrder[k] \in REGS /\ Position[LoadOrder[k]] = k
  /\ \A r, s \in REGS : Position[r] = Position[s] => r = s
  /\ \A r \in TABLES : r \in REGS /\ Position[r] \in 6 .. 9
  /\ "sctlr" \in REGS /\ Position["sctlr"] = 12
  /\ "vttbr" \in REGS /\ Position["vttbr"] = 2
  /\ "sctlr_off" \notin REGS /\ "tlbi" \notin REGS
  /\ "sctlr" \notin TABLES /\ "vttbr" \notin TABLES
<1>1. Len(LoadOrder) = 13
  BY DEF LoadOrder
<1>2. \A r \in REGS : Position[r] \in 1 .. 12 /\ Position[r] # 5
  BY DEF REGS, TABLES, Position
<1>3. ASSUME NEW k \in 1 .. 13
      PROVE  \/ k = 5 /\ LoadOrder[k] = "sctlr_off"
             \/ k = 13 /\ LoadOrder[k] = "tlbi"
             \/ /\ k \notin {5, 13}
                /\ LoadOrder[k] \in REGS /\ Position[LoadOrder[k]] = k
  <2>1. k \in {1, 2, 3, 4, 5, 6, 7, 8, 9, 10, 11, 12, 13}
    OBVIOUS
  <2> QED BY <2>1 DEF LoadOrder, REGS, TABLES, Position
<1>4. \A r, s \in REGS : Position[r] = Position[s] => r = s
  BY DEF REGS, TABLES, Position
<1>5. \A r \in TABLES : r \in REGS /\ Position[r] \in 6 .. 9
  BY DEF REGS, TABLES, Position
<1>6. /\ "sctlr" \in REGS /\ Position["sctlr"] = 12
      /\ "vttbr" \in REGS /\ Position["vttbr"] = 2
      /\ "sctlr_off" \notin REGS /\ "tlbi" \notin REGS
      /\ "sctlr" \notin TABLES /\ "vttbr" \notin TABLES
  BY DEF REGS, TABLES, Position
<1> QED BY <1>1, <1>2, <1>3, <1>4, <1>5, <1>6

\* sched_start's registers are a start for the invariant.
LEMMA SwitchStart == Init => SwitchInv
<1> SUFFICES ASSUME Init PROVE SwitchInv
  OBVIOUS
<1> USE SwitchAssumption
<1>0. 0 \in VCPUS /\ BOOT \notin VCPUS /\ \A i \in VCPUS : <<i, 0>> \in VAL
  BY DEF VCPUS, BOOT, VAL
<1>1. <<BOOT, 0>> \in VAL
  BY DEF VAL
<1>2. \A i \in VCPUS : init_vcpu(i) \in [REGS -> VAL]
  BY <1>0 DEF init_vcpu
<1>3. regs \in [REGS -> VAL] /\ regs["vttbr"] = <<0, 0>> /\ regs["sctlr"] = <<BOOT, 0>>
  BY <1>0, <1>1, OrderFacts DEF Init, init_vcpu, Started
<1>4. vcpus \in [VCPUS -> [REGS -> VAL]] /\ view \in [VCPUS -> [REGS -> VAL]]
  BY <1>2, <1>3 DEF Init
<1>5. TypeOK
  BY <1>0, <1>3, <1>4, OrderFacts DEF Init, TypeOK
<1>6. RegistersKept
  BY <1>0 DEF Init, RegistersKept
<1>7. NeverMixed /\ TlbIsOwn /\ Loaded /\ OffBetween
  BY <1>3 DEF Init, NeverMixed, TlbIsOwn, Loaded, OffBetween
<1>8. ASSUME NEW i \in VCPUS PROVE Own(i)
  <2>1. CASE i = 0
    BY <1>0, <1>3, <2>1 DEF Init, Own
  <2>2. CASE i # 0
    BY <2>2, OrderFacts DEF Init, Own, init_vcpu
  <2> QED BY <2>1, <2>2
<1> QED BY <1>5, <1>6, <1>7, <1>8 DEF SwitchInv

\* A guest's own writes: only its registers and its own translations change.
LEMMA GuestStep ==
  ASSUME SwitchInv, NEW new, NEW b \in {0, 1}, GuestWrites(new),
         \/ \E r \in PLAIN : new = [x \in {r} |-> b] /\ UNCHANGED tlb
         \/ new = [x \in TABLES \cup {"sctlr"} |-> b] /\ tlb' = Flushed(current)
  PROVE  SwitchInv'
<1> USE SwitchAssumption
<1> USE DEF SwitchInv
<1>0. /\ step = 0 /\ step' = 0 /\ current' = current /\ vcpus' = vcpus
      /\ current \in VCPUS /\ regs = view[current] /\ regs \in [REGS -> VAL]
      /\ <<current, b>> \in VAL /\ Own(current)
  BY DEF GuestWrites, TypeOK, RegistersKept, VAL
<1>1. \A r \in DOMAIN new : new[r] = b
  OBVIOUS
<1>2. /\ \A r \in DOMAIN new : r \in REGS => regs'[r] = <<current, b>>
      /\ \A r \in REGS \ DOMAIN new : regs'[r] = regs[r]
      /\ regs' \in [REGS -> VAL]
  BY <1>0, <1>1 DEF GuestWrites
<1>3. /\ view' \in [VCPUS -> [REGS -> VAL]]
      /\ view'[current] = regs'
      /\ \A i \in VCPUS \ {current} : view'[i] = view[i]
  BY <1>0, <1>2 DEF GuestWrites, TypeOK
<1>4. "vttbr" \in REGS /\ "vttbr" \notin DOMAIN new
  BY OrderFacts
<1>5. CASE new = [x \in TABLES \cup {"sctlr"} |-> b] /\ tlb' = Flushed(current)
  <2>1. /\ regs'["sctlr"] = <<current, b>> /\ \A r \in TABLES : regs'[r] = <<current, b>>
    BY <1>2, <1>5, OrderFacts
  <2>2. Own(current)' /\ NeverMixed'
    BY <1>0, <1>2, <1>3, <1>4, <2>1 DEF Own, NeverMixed
  <2>3. TlbIsOwn' /\ tlb' \subseteq tlb
    BY <1>0, <1>5 DEF TlbIsOwn, Flushed
  <2> QED BY <2>2, <2>3, <1>0, <1>2, <1>3, <1>4 DEF TypeOK, RegistersKept, Loaded, OffBetween, Own
<1>6. CASE \E r \in PLAIN : new = [x \in {r} |-> b] /\ UNCHANGED tlb
  <2>1. regs'["sctlr"] = regs["sctlr"] /\ \A r \in TABLES : regs'[r] = regs[r]
    BY <1>2, <1>6, OrderFacts
  <2>2. Own(current)' /\ NeverMixed'
    BY <1>0, <1>2, <1>3, <1>4, <2>1 DEF Own, NeverMixed
  <2>3. TlbIsOwn' /\ tlb' = tlb
    BY <1>0, <1>6, <2>1 DEF TlbIsOwn
  <2> QED BY <2>2, <2>3, <1>0, <1>2, <1>3, <1>4 DEF TypeOK, RegistersKept, Loaded, OffBetween, Own
<1> QED BY <1>5, <1>6

\* A table walk adds one translation, under the VMID in VTTBR_EL2.
LEMMA WalkStep == SwitchInv /\ Walk => SwitchInv'
<1> SUFFICES ASSUME SwitchInv, Walk PROVE SwitchInv'
  OBVIOUS
<1> USE DEF SwitchInv
<1> DEFINE e == [vmid |-> regs["vttbr"][1],
                 from |-> IF regs["sctlr"][2] = 1 THEN {regs[r][1] : r \in TABLES} ELSE {FLAT}]
<1>1. e \in ENTRY
  <2>1. \A r \in TABLES : regs[r][1] \in VCPUS \cup {BOOT}
    BY OrderFacts DEF TypeOK, VAL
  <2> QED BY <2>1 DEF ENTRY, TypeOK
<1>2. tlb' = tlb \cup {e} /\ UNCHANGED <<current, regs, vcpus, step, view>>
  BY DEF Walk
<1>3. step = 0 => e.vmid = current /\
        e.from = IF regs["sctlr"][2] = 1 THEN {current} ELSE {FLAT}
  <2> SUFFICES ASSUME step = 0
               PROVE  e.vmid = current /\
                      e.from = IF regs["sctlr"][2] = 1 THEN {current} ELSE {FLAT}
    OBVIOUS
  <2>1. regs = view[current] /\ Own(current)
    BY DEF RegistersKept, TypeOK
  <2>2. regs["sctlr"][2] = 1 => {regs[r][1] : r \in TABLES} = {current}
    BY <2>1 DEF Own, TABLES
  <2> QED BY <2>1, <2>2 DEF Own
<1> HIDE DEF e
<1>4. TlbIsOwn'
  BY <1>2, <1>3 DEF TlbIsOwn
<1>5. TypeOK'
  BY <1>1, <1>2 DEF TypeOK
<1> QED
  BY <1>2, <1>4, <1>5 DEF RegistersKept, NeverMixed, Loaded, OffBetween, Own

\* sched_tick up to load_vcpu: the outgoing registers are saved as they are.
LEMMA OutStep == SwitchInv /\ SwitchOut => SwitchInv'
<1> SUFFICES ASSUME SwitchInv, SwitchOut PROVE SwitchInv'
  OBVIOUS
<1> USE SwitchAssumption
<1> USE DEF SwitchInv
<1>1. current \in VCPUS /\ current' \in VCPUS
  BY DEF SwitchOut, NextVcpu, TypeOK, VCPUS
<1>2. save_vcpu = regs /\ regs = view[current]
  BY DEF save_vcpu, TypeOK, RegistersKept, SwitchOut
<1>3. /\ vcpus' \in [VCPUS -> [REGS -> VAL]]
      /\ vcpus'[current] = view[current]
      /\ \A i \in VCPUS \ {current} : vcpus'[i] = view[i]
  BY <1>1, <1>2 DEF SwitchOut, TypeOK, RegistersKept
<1>4. step = 0 /\ step' = 1 /\ UNCHANGED <<regs, tlb, view>>
  BY DEF SwitchOut
<1>5. TypeOK'
  BY <1>1, <1>3, <1>4, OrderFacts DEF TypeOK
<1>6. RegistersKept'
  BY <1>1, <1>3, <1>4 DEF RegistersKept
<1>7. Loaded' /\ OffBetween' /\ TlbIsOwn' /\ NeverMixed'
  BY <1>4, OrderFacts DEF Loaded, OffBetween, TlbIsOwn, NeverMixed
<1> QED BY <1>4, <1>5, <1>6, <1>7 DEF Own

\* One write of load_vcpu, the flush included.
LEMMA LoadStep == SwitchInv /\ load_vcpu => SwitchInv'
<1> SUFFICES ASSUME SwitchInv, load_vcpu PROVE SwitchInv'
  OBVIOUS
<1> USE DEF SwitchInv
<1>0. /\ step \in 1 .. 13 /\ current \in VCPUS /\ regs \in [REGS -> VAL]
      /\ vcpus[current] \in [REGS -> VAL] /\ vcpus[current] = view[current]
      /\ Own(current)
      /\ step' = IF step = 13 THEN 0 ELSE step + 1
      /\ UNCHANGED <<current, vcpus, view>>
  BY OrderFacts DEF load_vcpu, TypeOK, RegistersKept
<1>k. RegistersKept' \/ step = 13
  BY <1>0 DEF RegistersKept
<1>1. CASE step = 5
  <2>1. LoadOrder[step] = "sctlr_off"
    BY <1>1, OrderFacts
  <2>2. regs' = [regs EXCEPT !["sctlr"] = <<BOOT, 0>>] /\ tlb' = tlb
    BY <2>1 DEF load_vcpu
  <2>3. regs' \in [REGS -> VAL] /\ regs'["sctlr"][2] = 0 /\ regs'["vttbr"] = regs["vttbr"]
        /\ \A r \in REGS \ {"sctlr"} : regs'[r] = regs[r]
    BY <1>0, <2>2, OrderFacts DEF VAL
  <2>4. TypeOK'
    BY <1>0, <1>1, <2>2, <2>3, OrderFacts DEF TypeOK
  <2>5. Loaded' /\ OffBetween' /\ NeverMixed' /\ TlbIsOwn'
    BY <1>0, <1>1, <2>3, OrderFacts DEF Loaded, OffBetween, NeverMixed, TlbIsOwn
  <2> QED BY <1>0, <1>1, <1>k, <2>4, <2>5 DEF Own
<1>2. CASE step = 13
  <2>1. LoadOrder[step] = "tlbi"
    BY <1>2, OrderFacts
  <2>2. regs' = regs /\ tlb' = Flushed(regs["vttbr"][1]) /\ step' = 0
    BY <1>0, <1>2, <2>1 DEF load_vcpu, tlbi
  <2>3. \A r \in REGS : regs[r] = vcpus[current][r]
    BY <1>0, <1>2, OrderFacts DEF Loaded
  <2>4. regs = view[current]
    BY <1>0, <2>3
  <2>5. RegistersKept'
    BY <1>0, <2>2, <2>4 DEF RegistersKept
  <2>6. TlbIsOwn' /\ tlb' \subseteq tlb
    BY <1>0, <2>2, <2>4 DEF TlbIsOwn, Flushed, Own
  <2>7. TypeOK'
    BY <1>0, <2>2, <2>6, OrderFacts DEF TypeOK
  <2> QED BY <1>0, <2>2, <2>5, <2>6, <2>7 DEF Own, Loaded, OffBetween, NeverMixed
<1>3. CASE step \notin {5, 13}
  <2> DEFINE r == LoadOrder[step]
  <2>1. r \in REGS /\ Position[r] = step /\ r # "tlbi" /\ r # "sctlr_off"
    BY <1>0, <1>3, OrderFacts
  <2>2. regs' = [regs EXCEPT ![r] = vcpus[current][r]] /\ tlb' = tlb /\ step' = step + 1
    BY <1>0, <1>3, <2>1 DEF load_vcpu
  <2> HIDE DEF r
  <2>3. /\ regs' \in [REGS -> VAL] /\ regs'[r] = vcpus[current][r]
        /\ \A s \in REGS \ {r} : regs'[s] = regs[s]
    BY <1>0, <2>1, <2>2
  <2>4. regs'["vttbr"][1] \in VCPUS
    <3>1. CASE r = "vttbr"
      BY <1>0, <2>3, <3>1 DEF Own
    <3>2. CASE r # "vttbr"
      BY <2>3, <3>2, OrderFacts DEF TypeOK
    <3> QED BY <3>1, <3>2
  <2>5. TypeOK'
    BY <1>0, <1>3, <2>2, <2>3, <2>4, OrderFacts DEF TypeOK
  <2>6. Loaded'
    <3> SUFFICES ASSUME NEW s \in REGS, Position[s] < step'
                 PROVE  regs'[s] = vcpus[current][s]
      BY <1>0 DEF Loaded
    <3>1. CASE s = r
      BY <2>3, <3>1
    <3>2. CASE s # r
      <4>1. Position[s] # Position[r] /\ Position[s] \in 1 .. 12
        BY <2>1, <3>2, OrderFacts
      <4>2. Position[s] < step
        BY <1>0, <2>1, <2>2, <4>1
      <4> QED BY <1>0, <2>3, <3>2, <4>2 DEF Loaded
    <3> QED BY <3>1, <3>2
  <2>7. OffBetween'
    <3>1. CASE step = 12
      BY <2>2, <3>1 DEF OffBetween
    <3>2. CASE step # 12
      <4>1. r # "sctlr"
        BY <2>1, <3>2, OrderFacts
      <4> QED BY <1>0, <1>3, <2>2, <2>3, <3>2, <4>1, OrderFacts DEF OffBetween
    <3> QED BY <3>1, <3>2
  <2>8. NeverMixed'
    <3>1. CASE step < 5
      <4>1. r # "sctlr" /\ r \notin TABLES
        BY <2>1, <3>1, OrderFacts
      <4> QED BY <2>3, <4>1, OrderFacts DEF NeverMixed
    <3>2. CASE step \in 6 .. 11
      BY <2>2, <2>7, <3>2 DEF OffBetween, NeverMixed
    <3>3. CASE step = 12
      <4>1. \A s \in TABLES \cup {"sctlr"} : regs'[s] = view[current][s]
        BY <1>0, <2>2, <2>6, <3>3, OrderFacts DEF Loaded
      <4> QED BY <1>0, <4>1 DEF Own, NeverMixed
    <3> QED BY <1>0, <1>3, <3>1, <3>2, <3>3
  <2>9. TlbIsOwn'
    BY <1>0, <2>2 DEF TlbIsOwn
  <2> QED BY <1>0, <1>3, <1>k, <2>5, <2>6, <2>7, <2>8, <2>9 DEF Own
<1> QED BY <1>1, <1>2, <1>3

-----------------------------------------------------------------------------
\* Every step of guests, table walks and sched_tick keeps the invariant.
LEMMA SwitchNext == SwitchInv /\ [Next]_vars => SwitchInv'
<1> SUFFICES ASSUME SwitchInv, [Next]_vars PROVE SwitchInv'
  OBVIOUS
<1>1. ASSUME NEW r \in PLAIN, NEW b \in {0, 1}, GuestPlain(r, b) PROVE SwitchInv'
  BY <1>1, GuestStep DEF GuestPlain
<1>2. ASSUME NEW b \in {0, 1}, GuestMmu(b) PROVE SwitchInv'
  BY <1>2, GuestStep DEF GuestMmu
<1>3. CASE UNCHANGED vars
  BY <1>3 DEF vars, SwitchInv, TypeOK, RegistersKept, NeverMixed, TlbIsOwn, Loaded,
     OffBetween, Own
<1> QED BY <1>1, <1>2, <1>3, WalkStep, OutStep, LoadStep DEF Next

\* The strengthened invariant holds for every number of vCPUs.
LEMMA SwitchCorrect == Spec => []SwitchInv
<1> QED BY SwitchStart, SwitchNext, PTL DEF Spec

\* save_vcpu and load_vcpu lose nothing: a guest finds every saved register as
\* it left it, for any number of vCPUs and any number of switches.
THEOREM RegistersCorrect == Spec => []RegistersKept
<1>1. SwitchInv => RegistersKept
  BY DEF SwitchInv
<1> QED BY <1>1, SwitchCorrect, PTL

\* Stage 1 is never on in load_vcpu while the translation registers belong to
\* two guests.
THEOREM NeverMixedCorrect == Spec => []NeverMixed
<1>1. SwitchInv => NeverMixed
  BY DEF SwitchInv
<1> QED BY <1>1, SwitchCorrect, PTL

\* Whatever the table walker cached during load_vcpu, a guest that runs has only
\* translations of its own under its VMID.
THEOREM TlbCorrect == Spec => []TlbIsOwn
<1>1. SwitchInv => TlbIsOwn
  BY DEF SwitchInv
<1> QED BY <1>1, SwitchCorrect, PTL

\* Registers, saved registers and cached translations keep their types through
\* every partial load_vcpu.
THEOREM SwitchTypes == Spec => []TypeOK
<1>1. SwitchInv => TypeOK
  BY DEF SwitchInv
<1> QED BY <1>1, SwitchCorrect, PTL

=============================================================================
