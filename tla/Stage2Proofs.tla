---------------------------- MODULE Stage2Proofs ----------------------------
(***************************************************************************)
(* The memory map of Stage2 for all 2^20 pages of the IPA space and any    *)
(* number of VMs.  Zenon cannot read numbers of this size: the arithmetic  *)
(* leaves name SMT.                                                        *)
(***************************************************************************)
EXTENDS Stage2, TLAPS

\* The level 1 index tells the first GiB, the RAM GiB and the rest apart, and
\* the offset into the RAM block is the page's distance from its base.
LEMMA L1Facts ==
  ASSUME NEW p \in IPAS
  PROVE  /\ L1Index(p) \in ENTRIES
         /\ L1Index(p) = 0 <=> p < RAM_BASE
         /\ L1Index(p) = 1 <=> (RAM_BASE <= p /\ p < 2 * RAM_BASE)
         /\ L1Index(p) = 1 => RAM_BASE + (p % 262144) = p
<1>1. p \in Int /\ 0 <= p /\ p <= 1048575
  BY SMT DEF IPAS
<1>2. p \div 262144 \in 0 .. 3
  BY <1>1, SMT
<1>3. /\ p \div 262144 = 0 <=> p < 262144
      /\ p \div 262144 = 1 <=> (262144 <= p /\ p < 524288)
  BY <1>1, SMT
<1>4. p \div 262144 = 1 => 262144 + (p % 262144) = p
  BY <1>1, SMT
<1> QED
  BY <1>2, <1>3, <1>4, SMT DEF L1Index, RAM_BASE, ENTRIES

\* The level 2 and level 3 indices in the first GiB: which page each of the
\* three regions that stage2_alloc_vm installs there consists of.
LEMMA L2Facts ==
  ASSUME NEW p \in IPAS, p < RAM_BASE
  PROVE  /\ L2Index(p) \in ENTRIES /\ L3Index(p) \in ENTRIES
         /\ L2Index(p) = 64 <=> (GIC_BASE <= p /\ p < GIC_BASE + 512)
         /\ L2Index(p) = 72 <=> (UART_BASE <= p /\ p < UART_BASE + 512)
         /\ L2Index(p) = 80 <=> (PRIV_IPA <= p /\ p < PRIV_IPA + 512)
         /\ L2Index(p) = 72 => UART_BASE + (p % 512) = p
         /\ L2Index(p) = 80 => (L3Index(p) = 0 <=> p = PRIV_IPA)
         /\ p % 1 = 0
<1>1. p \in Int /\ 0 <= p /\ p < 262144
  BY SMT DEF IPAS, RAM_BASE
<1>2. /\ (p \div 512) % 512 = p \div 512
      /\ p \div 512 \in 0 .. 511
      /\ p % 512 \in 0 .. 511
  BY <1>1, SMT
<1>3. /\ p \div 512 = 64 <=> (32768 <= p /\ p < 32768 + 512)
      /\ p \div 512 = 72 <=> (36864 <= p /\ p < 36864 + 512)
      /\ p \div 512 = 80 <=> (40960 <= p /\ p < 40960 + 512)
  BY <1>1, SMT
<1>4. /\ p \div 512 = 72 => 36864 + (p % 512) = p
      /\ p \div 512 = 80 => (p % 512 = 0 <=> p = 40960)
      /\ p % 1 = 0
  BY <1>1, SMT
<1> QED
  BY <1>2, <1>3, <1>4, SMT
  DEF L2Index, L3Index, ENTRIES, GIC_BASE, UART_BASE, PRIV_IPA

\* Where stage2_alloc_vm puts its level 2 entries.
LEMMA L2Slots ==
  L2Index(GIC_BASE) = 64 /\ L2Index(UART_BASE) = 72 /\ L2Index(PRIV_IPA) = 80
  BY SMT DEF L2Index, GIC_BASE, UART_BASE, PRIV_IPA

\* Every descriptor of a VM's tables.
LEMMA TablesFacts ==
  ASSUME NEW id \in VMS, NEW e \in ENTRIES
  PROVE  /\ Tables(id).l1[e] = IF e = 0 THEN Table("l2_low")
                               ELSE IF e = 1 THEN Leaf(RAM_BASE, "normal") ELSE INVALID
         /\ Tables(id).l2_low[e] = IF e = 72 THEN Leaf(UART_BASE, "device")
                                   ELSE IF e = 64 THEN Table("l3_gic")
                                   ELSE IF e = 80 THEN Table("l3_priv") ELSE INVALID
         /\ Tables(id).l3_gic[e] = INVALID
         /\ Tables(id).l3_priv[e] = IF e = 0 THEN Leaf(vm_priv_page[id], "normal")
                                    ELSE INVALID
<1>1. 0 \in ENTRIES /\ 1 \in ENTRIES /\ 64 \in ENTRIES /\ 72 \in ENTRIES /\ 80 \in ENTRIES
  BY SMT DEF ENTRIES
<1> QED
  BY <1>1, L2Slots, SMT DEF Tables, Zeroed, PrivateLeaf

\* The tables that stage2_alloc_vm builds implement the memory map, for every
\* one of the 2^20 pages and every VM.
THEOREM WalkFollowsLayout ==
  ASSUME NEW id \in VMS, NEW p \in IPAS
  PROVE  Walk(Tables(id), p) = Layout(id, p)
<1> DEFINE t == Tables(id)
<1>p. p \in Int
  BY SMT DEF IPAS
<1>1. CASE L1Index(p) = 1
  <2>1. t.l1[L1Index(p)] = Leaf(RAM_BASE, "normal")
    BY <1>1, L1Facts, TablesFacts, SMT
  <2>2. Walk(t, p) = Leaf(RAM_BASE + (p % 262144), "normal")
    BY <2>1, SMT DEF Walk, Output, Leaf
  <2> QED
    BY <1>1, <2>2, L1Facts, SMT DEF Layout
<1>2. CASE L1Index(p) \notin {0, 1}
  <2>1. t.l1[L1Index(p)] = INVALID
    BY <1>2, L1Facts, TablesFacts, SMT
  <2>2. Walk(t, p) = FAULT
    BY <2>1, SMT DEF Walk, Output, INVALID
  <2> QED
    BY <1>p, <1>2, <2>2, L1Facts, SMT DEF Layout, RAM_BASE, UART_BASE, PRIV_IPA
<1>3. CASE L1Index(p) = 0
  <2>1. t.l1[L1Index(p)] = Table("l2_low")
    BY <1>3, L1Facts, TablesFacts, SMT
  <2>2. p < RAM_BASE /\ L2Index(p) \in ENTRIES /\ L3Index(p) \in ENTRIES
    BY <1>3, L1Facts, L2Facts, SMT
  <2>3. CASE L2Index(p) = 72
    <3>1. t.l2_low[L2Index(p)] = Leaf(UART_BASE, "device")
      BY <2>2, <2>3, TablesFacts, SMT
    <3>2. Walk(t, p) = Leaf(UART_BASE + (p % 512), "device")
      BY <2>1, <3>1, SMT DEF Walk, Output, Leaf, Table
    <3> QED
      BY <1>p, <2>2, <2>3, <3>2, L2Facts, SMT DEF Layout, RAM_BASE
  <2>4. CASE L2Index(p) = 64
    <3>1. t.l2_low[L2Index(p)] = Table("l3_gic") /\ t.l3_gic[L3Index(p)] = INVALID
      BY <2>2, <2>4, TablesFacts, SMT
    <3>2. Walk(t, p) = FAULT
      BY <2>1, <3>1, SMT DEF Walk, Output, INVALID, Table
    <3> QED
      BY <1>p, <2>2, <2>4, <3>2, L2Facts, SMT
      DEF Layout, RAM_BASE, GIC_BASE, UART_BASE, PRIV_IPA
  <2>5. CASE L2Index(p) = 80
    <3>1. /\ t.l2_low[L2Index(p)] = Table("l3_priv")
          /\ t.l3_priv[L3Index(p)] = IF p = PRIV_IPA THEN Leaf(vm_priv_page[id], "normal")
                                     ELSE INVALID
      BY <2>2, <2>5, TablesFacts, L2Facts, SMT
    <3>2. CASE p = PRIV_IPA
      <4>1. vm_priv_page[id] + (p % 1) = vm_priv_page[id]
        BY <2>2, L2Facts, Stage2Assumption, SMT DEF IPAS
      <4>2. Walk(t, p) = Leaf(vm_priv_page[id], "normal")
        BY <2>1, <3>1, <3>2, <4>1, SMT DEF Walk, Output, Leaf, Table
      <4> QED
        BY <1>p, <2>2, <3>2, <4>2, SMT DEF Layout, RAM_BASE, UART_BASE, PRIV_IPA
    <3>3. CASE p # PRIV_IPA
      <4>1. Walk(t, p) = FAULT
        BY <2>1, <3>1, <3>3, SMT DEF Walk, Output, INVALID, Table
      <4> QED
        BY <1>p, <2>2, <2>5, <3>3, <4>1, L2Facts, SMT
        DEF Layout, RAM_BASE, UART_BASE, PRIV_IPA
    <3> QED
      BY <3>2, <3>3
  <2>6. CASE L2Index(p) \notin {64, 72, 80}
    <3>1. t.l2_low[L2Index(p)] = INVALID
      BY <2>2, <2>6, TablesFacts, SMT
    <3>2. Walk(t, p) = FAULT
      BY <2>1, <3>1, SMT DEF Walk, Output, INVALID, Table
    <3> QED
      BY <1>p, <2>2, <2>6, <3>2, L2Facts, SMT
      DEF Layout, RAM_BASE, UART_BASE, PRIV_IPA
  <2> QED
    BY <2>3, <2>4, <2>5, <2>6, SMT
<1> QED
  BY <1>1, <1>2, <1>3, SMT

-----------------------------------------------------------------------------
\* A VM's tables are those of stage2_alloc_vm from the moment it is built, and
\* the last access went through them.
S2Inv ==
  /\ built \subseteq VMS
  /\ s2 \in [VMS -> {Zeroed} \cup {Tables(i) : i \in VMS}]
  /\ \A i \in built : s2[i] = Tables(i)
  /\ access.by # "none" =>
       /\ access.vm \in VMS /\ access.ipa \in IPAS
       /\ access.to = Layout(access.vm, access.ipa)
       /\ access.by = Handled(access.to, access.ipa)

\* S2Inv holds of every reachable state: no VM's tables are touched when
\* another one's are built.
LEMMA S2Correct == Spec => []S2Inv
<1>1. Init => S2Inv
  BY SMT DEF Init, S2Inv, NoAccess
<1>2. S2Inv /\ [Next]_vars => S2Inv'
  <2> SUFFICES ASSUME S2Inv, [Next]_vars PROVE S2Inv'
    OBVIOUS
  <2>1. ASSUME NEW id \in VMS, stage2_alloc_vm(id) PROVE S2Inv'
    <3>1. /\ built' = built \cup {id} /\ access' = access
          /\ s2' = [s2 EXCEPT ![id] = Tables(id)]
      BY <2>1 DEF stage2_alloc_vm
    <3>2. s2' \in [VMS -> {Zeroed} \cup {Tables(i) : i \in VMS}]
      BY <3>1 DEF S2Inv
    <3>3. \A i \in built' : s2'[i] = Tables(i)
      BY <3>1 DEF S2Inv
    <3> QED
      BY <3>1, <3>2, <3>3 DEF S2Inv
  <2>2. ASSUME NEW id \in VMS, NEW p \in PAGES, GuestAccess(id, p) PROVE S2Inv'
    <3>1. p \in IPAS /\ s2[id] = Tables(id)
      BY <2>2, Stage2Assumption DEF GuestAccess, S2Inv
    <3>2. Walk(s2[id], p) = Layout(id, p)
      BY <3>1, WalkFollowsLayout
    <3>3. /\ access'.vm = id /\ access'.ipa = p /\ access'.to = Layout(id, p)
          /\ access'.by = Handled(Layout(id, p), p)
          /\ s2' = s2 /\ built' = built
      BY <2>2, <3>2 DEF GuestAccess
    <3> QED
      BY <3>1, <3>3 DEF S2Inv
  <2>3. CASE UNCHANGED vars
    BY <2>3 DEF vars, S2Inv
  <2> QED
    BY <2>1, <2>2, <2>3 DEF Next
<1> QED
  BY <1>1, <1>2, PTL DEF Spec

\* Every guest access follows the memory map: RAM and the UART are identity
\* mapped, 0x0A000000 is the VM's own page, everything else faults.
THEOREM LayoutCorrect == Spec => []AccessFollowsLayout
<1>1. S2Inv => AccessFollowsLayout
  BY DEF S2Inv, AccessFollowsLayout
<1> QED
  BY <1>1, S2Correct, PTL

\* vgic_mmio sees every access to the GIC windows and no other access: the walk
\* faults there and handle_stage2_abort's range test is exact.
THEOREM GicCorrect == Spec => []GicIsEmulated
<1>1. S2Inv => GicIsEmulated
  <2> SUFFICES ASSUME S2Inv, access.by # "none"
               PROVE  access.by = "vgic_mmio" <=>
                        GIC_BASE <= access.ipa /\ access.ipa < GICC_END
    BY DEF GicIsEmulated
  <2> DEFINE p == access.ipa
             t == Layout(access.vm, p)
  <2>1. p \in Nat /\ access.by = Handled(t, p)
    BY SMT DEF S2Inv, IPAS
  <2>2. GIC_BASE <= p /\ p < GICC_END => t = FAULT
    BY <2>1, SMT DEF Layout, GIC_BASE, GICC_END, RAM_BASE, UART_BASE, PRIV_IPA
  <2> QED
    BY <2>1, <2>2, SMT DEF Handled, FAULT
<1> QED
  BY <1>1, S2Correct, PTL

\* "Each VM sees a different host page at the same IPA": no two VMs that
\* stage2_alloc_vm has built share the page behind 0x0A000000.
THEOREM PrivateCorrect == Spec => []PrivateIsPrivate
<1>1. S2Inv => PrivateIsPrivate
  <2> SUFFICES ASSUME S2Inv, NEW i \in built, NEW j \in built, i # j
               PROVE  Walk(s2[i], PRIV_IPA).out # Walk(s2[j], PRIV_IPA).out
    BY DEF PrivateIsPrivate
  <2>1. PRIV_IPA \in IPAS
    BY SMT DEF PRIV_IPA, IPAS
  <2>2. \A k \in VMS : Layout(k, PRIV_IPA) = Leaf(vm_priv_page[k], "normal")
    BY SMT DEF Layout, RAM_BASE, UART_BASE, PRIV_IPA
  <2>3. i \in VMS /\ j \in VMS /\ s2[i] = Tables(i) /\ s2[j] = Tables(j)
    BY DEF S2Inv
  <2>4. Walk(s2[i], PRIV_IPA) = Layout(i, PRIV_IPA)
    BY <2>1, <2>3, WalkFollowsLayout
  <2>5. Walk(s2[j], PRIV_IPA) = Layout(j, PRIV_IPA)
    BY <2>1, <2>3, WalkFollowsLayout
  <2> QED
    BY <2>2, <2>3, <2>4, <2>5, Stage2Assumption, SMT DEF Leaf
<1> QED
  BY <1>1, S2Correct, PTL


-----------------------------------------------------------------------------
(* Types.                                                                  *)

\* stage2_alloc_vm leaves four well-formed tables of 512 descriptors.
LEMMA TablesTyped ==
  ASSUME NEW id \in VMS
  PROVE  Zeroed \in S2T /\ Tables(id) \in S2T
<1> DEFINE Z == [e \in ENTRIES |-> INVALID]
           low == [Z EXCEPT ![L2Index(UART_BASE)] = Leaf(UART_BASE, "device"),
                            ![L2Index(GIC_BASE)]  = Table("l3_gic"),
                            ![L2Index(PRIV_IPA)]  = Table("l3_priv")]
           top == [Z EXCEPT ![0] = Table("l2_low"), ![1] = Leaf(RAM_BASE, "normal")]
           priv == [Z EXCEPT ![0] = PrivateLeaf(id)]
<1>1. /\ INVALID \in DESC
      /\ Leaf(UART_BASE, "device") \in DESC /\ Leaf(RAM_BASE, "normal") \in DESC
      /\ Table("l2_low") \in DESC /\ Table("l3_gic") \in DESC /\ Table("l3_priv") \in DESC
  BY SMT DEF INVALID, Leaf, Table, DESC, IPAS, UART_BASE, RAM_BASE
<1>2. PrivateLeaf(id) \in DESC
  <2>1. vm_priv_page[id] \in IPAS
    BY Stage2Assumption
  <2> QED BY <2>1, SMT DEF PrivateLeaf, Leaf, DESC
<1> HIDE DEF INVALID, Leaf, Table, PrivateLeaf, DESC
<1>3. Z \in [ENTRIES -> DESC]
  BY <1>1
<1>4. low \in [ENTRIES -> DESC] /\ top \in [ENTRIES -> DESC] /\ priv \in [ENTRIES -> DESC]
  BY <1>1, <1>2, <1>3
<1>5. Zeroed = [l1 |-> Z, l2_low |-> Z, l3_gic |-> Z, l3_priv |-> Z]
  BY DEF Zeroed
<1>6. Tables(id) = [Zeroed EXCEPT !.l2_low = low, !.l1 = top, !.l3_priv = priv]
  BY <1>5 DEF Tables
<1> HIDE DEF Z, low, top, priv
<1> QED BY <1>3, <1>4, <1>5, <1>6 DEF S2T

\* Every address of the memory map is a page of 32-bit physical memory.
LEMMA LayoutTyped ==
  ASSUME NEW id \in VMS, NEW p \in IPAS
  PROVE  Layout(id, p) \in XLATE
<1>1. vm_priv_page[id] \in IPAS
  BY Stage2Assumption
<1>2. \A q \in IPAS : Leaf(q, "normal") \in XLATE /\ Leaf(q, "device") \in XLATE
  BY DEF Leaf, XLATE
<1>3. FAULT \in XLATE
  BY DEF XLATE
<1> QED BY <1>1, <1>2, <1>3 DEF Layout

\* Every variable of the model of stage2.c always has its type.
THEOREM Stage2Types == Spec => []TypeOK
<1> DEFINE BY_WHOM == {"none", "memory", "vgic_mmio", "skipped"}
           ACCESS == [vm : VMS, ipa : IPAS, to : XLATE, by : BY_WHOM]
<1>1. Init => TypeOK
  <2> SUFFICES ASSUME Init PROVE TypeOK
    OBVIOUS
  <2>1. 0 \in VMS /\ 0 \in IPAS /\ FAULT \in XLATE
    BY Stage2Assumption, SMT DEF VMS, IPAS, XLATE
  <2>2. s2 \in [VMS -> S2T]
    BY <2>1, TablesTyped DEF Init
  <2>3. access \in ACCESS
    BY <2>1 DEF Init, NoAccess
  <2> QED BY <2>2, <2>3 DEF Init, TypeOK
<1>2. S2Inv /\ TypeOK /\ [Next]_vars => TypeOK'
  <2> SUFFICES ASSUME S2Inv, TypeOK, [Next]_vars PROVE TypeOK'
    OBVIOUS
  <2>1. ASSUME NEW id \in VMS, stage2_alloc_vm(id) PROVE TypeOK'
    BY <2>1, TablesTyped DEF stage2_alloc_vm, TypeOK
  <2>2. ASSUME NEW id \in VMS, NEW p \in PAGES, GuestAccess(id, p) PROVE TypeOK'
    <3> DEFINE t == Walk(s2[id], p)
    <3>1. p \in IPAS /\ s2[id] = Tables(id)
      BY <2>2, Stage2Assumption DEF GuestAccess, S2Inv
    <3>2. t \in XLATE
      BY <3>1, WalkFollowsLayout, LayoutTyped
    <3>3. Handled(t, p) \in BY_WHOM
      BY DEF Handled
    <3>4. /\ access' = [vm |-> id, ipa |-> p, to |-> t, by |-> Handled(t, p)]
          /\ s2' = s2 /\ built' = built
      BY <2>2 DEF GuestAccess
    <3> HIDE DEF t
    <3>5. access' \in ACCESS
      BY <3>1, <3>2, <3>3, <3>4
    <3> QED BY <3>4, <3>5 DEF TypeOK
  <2>3. CASE UNCHANGED vars
    BY <2>3 DEF vars, TypeOK
  <2> QED BY <2>1, <2>2, <2>3 DEF Next
<1> QED BY <1>1, <1>2, S2Correct, PTL DEF Spec

=============================================================================
