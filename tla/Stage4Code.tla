----------------------------- MODULE Stage4Code -----------------------------
(***************************************************************************)
(* What a step of Stage4's vCPU does to the conditions of Stage4Places,    *)
(* the word that it runs being one of those that Stage4Text lists.  First  *)
(* the instructions that the launcher does not see, one kind at a time,    *)
(* then the exceptions, then the bytes that are printed.                   *)
(***************************************************************************)
EXTENDS Stage4Places, TLAPS

-----------------------------------------------------------------------------
(* The instructions that the launcher does not see.                        *)

\* The words of the image are four bytes apart.
LEMMA AddrStep ==
  /\ RAM_BASE \in Nat
  /\ \A n \in Int : Addr(n) \in Int /\ Addr(n) + 4 = Addr(n + 1) /\ Addr(n) - 4 = Addr(n - 1)
  /\ \A n, m \in Int : Addr(n) = Addr(m) => n = m
  BY LayoutAssumption DEF Addr

\* What the words are to the vCPU.
LEMMA Ops ==
  /\ \A do, arg : Sys(do, arg).op = "sys" /\ Sys(do, arg).do = do /\ Sys(do, arg).arg = arg
  /\ \A rd, val : MovTo(rd, val).op = "mov" /\ MovTo(rd, val).rd = rd /\ MovTo(rd, val).val = val
  /\ \A op, rt, off : Uart(op, rt, off).op = op
  /\ Wfe.op = "wfe"
  BY DEF Sys, MovTo, Uart, Wfe

\* Only a listed system instruction is one.
LEMMA IsSys ==
  ASSUME NEW w, Lists(w), Image[w].op = "sys"
  PROVE  SysWord(w)
  <1>1. PlainWord(w) => Image[w].op \in {"ldr", "str", "mov", "wfe"}
    BY Ops DEF PlainWord
  <1> QED
    BY <1>1 DEF Lists

\* And it is one.
LEMMA SysIs ==
  ASSUME NEW w, SysWord(w)
  PROVE  Image[w].op = "sys"
  <1>1. WriteWord(w) => \E do, arg : Image[w] = Sys(do, arg)
    BY DEF WriteWord
  <1>2. PollWord(w) \/ BranchWord(w) => \E do, arg : Image[w] = Sys(do, arg)
    BY DEF PollWord, BranchWord
  <1>3. MoveWord(w) => \E do, arg : Image[w] = Sys(do, arg)
    BY DEF MoveWord
  <1>4. OtherWord(w) => \E do, arg : Image[w] = Sys(do, arg)
    BY DEF OtherWord
  <1> QED
    BY <1>1, <1>2, <1>3, <1>4, Ops DEF SysWord

\* Only the words of SysWrite are writes of system registers.
LEMMA IsWrite ==
  ASSUME NEW w, Lists(w), Image[w].op = "sys",
         Image[w].do \in {"icc_sre", "gicd_ctlr", "ich_hcr", "icc_pmr", "icc_igrpen1", "hcr_imo", "ich_vmcr", "ich_lr0",
            "waker", "enable_ppi", "cnthp_disable", "count", "elr_el2", "vbar_el1", "daifclr", "daifset"}
  PROVE  WriteWord(w)
  <1>1. PollWord(w) => Image[w].do = "tbnz_txff"
    BY Ops DEF PollWord
  <1>2. BranchWord(w) => Image[w].do \in {"b_eq_1023", "b_hs_1020", "b_ne_26"}
    BY Ops DEF BranchWord
  <1>3. MoveWord(w) => Image[w].do \in {"push", "nibble", "pop", "mov_x0_x19"}
    BY DEF MoveWord, Sys
  <1>4. OtherWord(w) => Image[w].do \in {"spin", "icc_iar1", "icc_eoir1", "save_ctx", "restore_ctx", "eret"}
    BY DEF OtherWord, Sys
  <1> QED
    BY <1>1, <1>2, <1>3, <1>4, IsSys DEF SysWord

\* A word that prints nothing leaves the count of bytes right for the next one.
LEMMA PrintedKept ==
  ASSUME NEW n \in 1..123, Printed(n), dev'.out = dev.out, n \notin {19, 23, 27, 31, 35, 39, 43, 50, 67}
  PROVE  Printed(n + 1)'
  <1>1. TimedOut' <=> TimedOut
    BY DEF TimedOut
  <1>2. CASE n <= 49
    <2>1. \A p \in {19, 23, 27, 31, 35, 39, 43} : Passed(n + 1, p) = Passed(n, p)
      BY DEF Passed
    <2>2. /\ Passed(n + 1, 19) = Passed(n, 19) /\ Passed(n + 1, 23) = Passed(n, 23)
          /\ Passed(n + 1, 27) = Passed(n, 27) /\ Passed(n + 1, 31) = Passed(n, 31)
          /\ Passed(n + 1, 35) = Passed(n, 35) /\ Passed(n + 1, 39) = Passed(n, 39)
          /\ Passed(n + 1, 43) = Passed(n, 43)
      BY <2>1
    <2> QED
      BY <1>2, <2>2 DEF Printed
  <1>3. CASE n \in 51..123
    BY <1>1, <1>3 DEF Printed
  <1> QED
    BY <1>2, <1>3

\* Without the handler, the GIC and the timer as they were are as they should be.
LEMMA IdleKept ==
  ASSUME HandlerOk(0), Timer(0), sys'.active = sys.active, sys'.pend = sys.pend,
         sys'.cnthp = sys.cnthp, sys'.count = sys.count,
         sys'.enabled \subseteq sys.enabled \cup {IRQ_HTIMER_PPI}
  PROVE  HandlerOk(0)' /\ Timer(0)'
  <1>1. HandlerOk(0)'
    BY DEF HandlerOk
  <1>2. Timer(0)'
    BY DEF Timer
  <1> QED
    BY <1>1, <1>2

\* No byte of the text is between words m and n.
LEMMA SaidKept ==
  ASSUME NEW m, NEW n, dev'.out = dev.out, \A p \in SAYS : p < m <=> p < n
  PROVE  Said(m)' = Said(n)
  <1>1. TimedOut' <=> TimedOut
    BY DEF TimedOut
  <1> QED
    BY <1>1 DEF Said

\* A step of the program to its next word.
LEMMA ProgramStep ==
  ASSUME NEW n \in 1..122, There(n, 0), n \notin {19, 23, 27, 31, 35, 39, 43, 50, 67, 93},
         pc' = pc + 4, dev'.out = dev.out,
         sys'.el = sys.el, sys'.active = sys.active, sys'.pend = sys.pend, sys'.cnthp = sys.cnthp,
         sys'.count = sys.count, sys'.enabled \subseteq sys.enabled \cup {IRQ_HTIMER_PPI},
         ProgramOk(n + 1, x', sys'.masked), SetUp(n + 1)'
  PROVE  There(n + 1, 0)' /\ (n \notin SAYS => Seen(n + 1, 0)' = Seen(n, 0))
  <1>1. Stands(n + 1, 0)'
    <2>1. pc = Addr(n) /\ sys.el = IF n >= 94 THEN 1 ELSE 2
      BY DEF There, Stands
    <2>2. Addr(n) + 4 = Addr(n + 1)
      <3>1. n \in Int
        OBVIOUS
      <3> QED
        BY <3>1, AddrStep, Zenon
    <2>3. pc' = Addr(n + 1)
      BY <2>1, <2>2, Zenon
    <2>4. sys'.el = IF n + 1 >= 94 THEN 1 ELSE 2
      BY <2>1
    <2> QED
      BY <2>3, <2>4 DEF Stands
  <1>2. ProgramOk(n + 1, OwnX(0), OwnMask(0))'
    BY DEF ProgramOk, OwnX, OwnMask
  <1>3. HandlerOk(0)' /\ Timer(0)'
    BY IdleKept DEF There
  <1>4. Printed(n + 1)'
    BY PrintedKept DEF There
  <1>5. n \notin SAYS => Seen(n + 1, 0)' = Seen(n, 0)
    <2>1. ASSUME n \notin SAYS
          PROVE  Said(n + 1)' = Said(n)
      <3>1. \A p \in SAYS : p < n + 1 <=> p < n
        BY <2>1 DEF SAYS
      <3> QED
        BY <3>1, SaidKept
    <2>2. Due(0)' = Due(0) /\ Intid(0)' = Intid(0)
      BY DEF Due, Intid, HOLDS
    <2> QED
      BY <2>1, <2>2 DEF Seen
  <1> QED
    BY <1>1, <1>2, <1>3, <1>4, <1>5 DEF There

\* A step of the handler between SAVE_CTX and RESTORE_CTX.
LEMMA HandlerStep ==
  ASSUME NEW n \in 1..123, NEW k \in 1..31 \ EDGES, NEW m \in 1..31 \ EDGES, There(n, k),
         pc' = Addr(126 + m), Printed(n)',
         sys'.el = sys.el, sys'.frame = sys.frame, sys'.imo = sys.imo, sys'.on = sys.on,
         sys'.vbar = sys.vbar, sys'.lr0 = sys.lr0,
         HandlerOk(m)', Timer(m)'
  PROVE  There(n, m)'
  <1>1. Stands(n, m)'
    BY DEF There, Stands
  <1>2. ProgramOk(n, OwnX(m), OwnMask(m))'
    BY DEF There, ProgramOk, OwnX, OwnMask
  <1>3. SetUp(n)'
    BY DEF There, Stands, SetUp
  <1> QED
    BY <1>1, <1>2, <1>3 DEF There

\* One that the console cannot tell from none.
LEMMA HandlerSilent ==
  ASSUME NEW n, NEW k, NEW m, sys'.pend = sys.pend, dev'.out = dev.out,
         Missing(m) = Missing(k), m \in HOLDS <=> k \in HOLDS,
         k \in HOLDS \cup 15..18 => x'[19] = x[19]
  PROVE  Seen(n, m)' = Seen(n, k)
  <1>1. Said(n)' = Said(n)
    BY DEF Said, TimedOut
  <1>2. Due(m)' = Due(k)
    BY DEF Due
  <1>3. m \in 15..18 <=> k \in 15..18
    BY DEF Missing
  <1>4. Intid(m)' = Intid(k)
    BY <1>3 DEF Intid
  <1> QED
    BY <1>1, <1>2, <1>4 DEF Seen

\* What a word of SysWrite writes.
LEMMA Writes ==
  ASSUME NEW do, SysWrite, ram[pc].do = do
  PROVE  /\ do \in {"icc_sre", "gicd_ctlr", "ich_hcr"} => sys' = [sys EXCEPT !.on = @ \cup {do}]
         /\ do = "icc_pmr" => sys' = [sys EXCEPT !.on = @ \cup {IF IsVirtual THEN "icv_pmr" ELSE "icc_pmr"}]
         /\ do = "icc_igrpen1" =>
              sys' = [sys EXCEPT !.on = @ \cup {IF IsVirtual THEN "icv_igrpen1" ELSE "icc_igrpen1"}]
         /\ do = "ich_vmcr" => sys' = [sys EXCEPT !.on = @ \cup {"icv_pmr", "icv_igrpen1"}]
         /\ do = "hcr_imo" => sys' = [sys EXCEPT !.imo = TRUE]
         /\ do = "ich_lr0" => sys' = [sys EXCEPT !.lr0 = "pending"]
         /\ do = "waker" => sys' = [sys EXCEPT !.waker = "waking"]
         /\ do = "enable_ppi" => sys' = [sys EXCEPT !.enabled = @ \cup {ram[pc].arg}]
         /\ do = "cnthp_disable" => sys' = [sys EXCEPT !.cnthp = "off"]
         /\ do = "count" => sys' = [sys EXCEPT !.count = @ + 1]
         /\ do = "elr_el2" => sys' = [sys EXCEPT !.elr[2] = GUEST_V3_START, !.spsr[2] = TRUE]
         /\ do = "vbar_el1" => sys' = [sys EXCEPT !.vbar = GUEST_V3_VECTORS]
         /\ do = "daifclr" => sys' = [sys EXCEPT !.masked = FALSE]
         /\ do = "daifset" => sys' = [sys EXCEPT !.masked = TRUE]
  <1> DEFINE Set(name) == [sys EXCEPT !.on = @ \cup {name}]
             new ==
               CASE do \in {"icc_sre", "gicd_ctlr", "ich_hcr"} -> Set(do)
                 [] do = "icc_pmr" -> Set(IF IsVirtual THEN "icv_pmr" ELSE "icc_pmr")
                 [] do = "icc_igrpen1" -> Set(IF IsVirtual THEN "icv_igrpen1" ELSE "icc_igrpen1")
                 [] do = "ich_vmcr" -> [sys EXCEPT !.on = @ \cup {"icv_pmr", "icv_igrpen1"}]
                 [] do = "hcr_imo" -> [sys EXCEPT !.imo = TRUE]
                 [] do = "ich_lr0" -> [sys EXCEPT !.lr0 = "pending"]
                 [] do = "waker" -> [sys EXCEPT !.waker = "waking"]
                 [] do = "enable_ppi" -> [sys EXCEPT !.enabled = @ \cup {ram[pc].arg}]
                 [] do = "cnthp_disable" -> [sys EXCEPT !.cnthp = "off"]
                 [] do = "count" -> [sys EXCEPT !.count = @ + 1]
                 [] do = "elr_el2" -> [sys EXCEPT !.elr[2] = GUEST_V3_START, !.spsr[2] = TRUE]
                 [] do = "vbar_el1" -> [sys EXCEPT !.vbar = GUEST_V3_VECTORS]
                 [] do = "daifclr" -> [sys EXCEPT !.masked = FALSE]
                 [] do = "daifset" -> [sys EXCEPT !.masked = TRUE]
  <1>1. sys' = new
    BY Zenon DEF SysWrite, Goes
  <1>2. do \in {"icc_sre", "gicd_ctlr", "ich_hcr"} => new = Set(do)
    OBVIOUS
  <1>3. do = "icc_pmr" => new = Set(IF IsVirtual THEN "icv_pmr" ELSE "icc_pmr")
    OBVIOUS
  <1>4. do = "icc_igrpen1" => new = Set(IF IsVirtual THEN "icv_igrpen1" ELSE "icc_igrpen1")
    OBVIOUS
  <1>5. /\ do = "ich_vmcr" => new = [sys EXCEPT !.on = @ \cup {"icv_pmr", "icv_igrpen1"}]
        /\ do = "hcr_imo" => new = [sys EXCEPT !.imo = TRUE]
        /\ do = "ich_lr0" => new = [sys EXCEPT !.lr0 = "pending"]
        /\ do = "waker" => new = [sys EXCEPT !.waker = "waking"]
    OBVIOUS
  <1>6. /\ do = "enable_ppi" => new = [sys EXCEPT !.enabled = @ \cup {ram[pc].arg}]
        /\ do = "cnthp_disable" => new = [sys EXCEPT !.cnthp = "off"]
        /\ do = "count" => new = [sys EXCEPT !.count = @ + 1]
    OBVIOUS
  <1>7. /\ do = "elr_el2" => new = [sys EXCEPT !.elr[2] = GUEST_V3_START, !.spsr[2] = TRUE]
        /\ do = "vbar_el1" => new = [sys EXCEPT !.vbar = GUEST_V3_VECTORS]
        /\ do = "daifclr" => new = [sys EXCEPT !.masked = FALSE]
        /\ do = "daifset" => new = [sys EXCEPT !.masked = TRUE]
    OBVIOUS
  <1> HIDE DEF new
  <1> QED
    BY <1>1, <1>2, <1>3, <1>4, <1>5, <1>6, <1>7

\* The registers of the GIC and of EL2, one at a time.
LEMMA WriteKeeps ==
  ASSUME NEW n \in 1..123, NEW k \in 0..31, There(n, k), SysOk, WriteWord(W(n, k)),
         ram[pc] = Image[W(n, k)], SysWrite, Entries
  PROVE  SysOk' /\ Moved(n, k)
  <1> DEFINE next == pc' = pc + 4 /\ x' = x /\ dev' = dev
             do == ram[pc].do
  <1>1. next
    BY DEF SysWrite, Goes
  <1>2. ASSUME k = 0, NEW new, sys' = [sys EXCEPT !.on = new], sys.on \subseteq new,
               new \subseteq PHYSICAL \cup VIRTUAL, n = 78 => VIRTUAL \subseteq new,
               n = 77 => "ich_hcr" \in new, n \in {44, 59, 60, 61, 62, 77, 78, 95, 96, 97}
        PROVE  SysOk' /\ There(n + 1, 0)' /\ Seen(n + 1, 0)' = Seen(n, 0)
    <2>1. SysOk'
      BY <1>2 DEF SysOk
    <2>2. /\ sys'.el = sys.el /\ sys'.masked = sys.masked /\ sys'.imo = sys.imo /\ sys'.vbar = sys.vbar
          /\ sys'.elr = sys.elr /\ sys'.spsr = sys.spsr /\ sys'.on = new
          /\ sys'.enabled = sys.enabled /\ sys'.pend = sys.pend /\ sys'.active = sys.active
          /\ sys'.lr0 = sys.lr0 /\ sys'.cnthp = sys.cnthp /\ sys'.count = sys.count
      BY <1>2 DEF SysOk
    <2>3. ProgramOk(n + 1, x', sys'.masked)
      BY <1>1, <1>2, <2>2 DEF There, ProgramOk, OwnX, OwnMask, PUTS
    <2>4. SetUp(n + 1)'
      BY <1>2, <2>2 DEF There, SetUp
    <2> QED
      BY <1>1, <1>2, <2>1, <2>2, <2>3, <2>4, ProgramStep DEF SAYS
  <1>3. IRQ_HTIMER_PPI \in Int
    BY DEF IRQ_HTIMER_PPI
  <1>4. GUEST_V3_START = Addr(94) /\ GUEST_V3_VECTORS = Addr(105) /\ Addr(94) \in Int /\ Addr(105) \in Int
    BY AddrStep DEF Entries
  <1>5. sys.elr \in [{1, 2} -> Int] /\ sys.spsr \in [{1, 2} -> BOOLEAN]
    BY DEF SysOk
  <1>6. CASE do \in {"icc_sre", "gicd_ctlr", "ich_hcr", "icc_pmr", "icc_igrpen1", "ich_vmcr"}
    <2>1. k = 0 /\ n \in {44, 59, 60, 61, 62, 77, 78, 95, 96, 97} /\ (n = 78 => do = "ich_vmcr") /\ (n = 77 => do = "ich_hcr")
      BY <1>6 DEF WriteWord, W, Sys
    <2>2. PICK new : /\ sys' = [sys EXCEPT !.on = new] /\ sys.on \subseteq new
                     /\ new \subseteq PHYSICAL \cup VIRTUAL /\ (n = 78 => VIRTUAL \subseteq new)
                     /\ (n = 77 => "ich_hcr" \in new)
      <3>1. n = 78 => "ich_hcr" \in sys.on
        BY <2>1 DEF There, SetUp
      <3> QED
        BY <1>6, <2>1, <3>1, Writes DEF SysOk, PHYSICAL, VIRTUAL
    <2>3. SysOk' /\ There(n + 1, 0)' /\ Seen(n + 1, 0)' = Seen(n, 0)
      BY <1>2, <2>1, <2>2
    <2>4. n + 1 \in 1..123 /\ 0 \in 0..31
      BY <2>1
    <2> QED
      BY <2>1, <2>3, <2>4 DEF Moved
  <1>7. CASE do = "hcr_imo"
    <2>1. k = 0 /\ n = 76
      BY <1>7 DEF WriteWord, W, Sys
    <2>2. sys' = [sys EXCEPT !.imo = TRUE]
      BY <1>7, Writes
    <2>3. SysOk'
      BY <2>2 DEF SysOk
    <2>4. /\ sys'.el = sys.el /\ sys'.masked = sys.masked /\ sys'.imo = TRUE /\ sys'.vbar = sys.vbar
          /\ sys'.elr = sys.elr /\ sys'.spsr = sys.spsr /\ sys'.on = sys.on /\ sys'.enabled = sys.enabled
          /\ sys'.pend = sys.pend /\ sys'.active = sys.active /\ sys'.lr0 = sys.lr0 /\ sys'.cnthp = sys.cnthp
          /\ sys'.count = sys.count
      BY <2>2 DEF SysOk
    <2>5. ProgramOk(77, x', sys'.masked)
      BY <1>1, <2>1, <2>4 DEF There, ProgramOk, OwnX, OwnMask, PUTS
    <2>6. SetUp(77)'
      BY <2>1, <2>4 DEF There, SetUp
    <2>7. There(77, 0)' /\ Seen(77, 0)' = Seen(n, k)
      BY <1>1, <2>1, <2>4, <2>5, <2>6, ProgramStep DEF SAYS
    <2> QED
      BY <2>3, <2>7 DEF Moved
  <1>8. CASE do = "ich_lr0"
    <2>1. k = 0 /\ n = 79
      BY <1>8 DEF WriteWord, W, Sys
    <2>2. sys' = [sys EXCEPT !.lr0 = "pending"]
      BY <1>8, Writes
    <2>3. SysOk'
      BY <2>2 DEF SysOk
    <2>4. /\ sys'.el = sys.el /\ sys'.masked = sys.masked /\ sys'.imo = sys.imo /\ sys'.vbar = sys.vbar
          /\ sys'.elr = sys.elr /\ sys'.spsr = sys.spsr /\ sys'.on = sys.on /\ sys'.enabled = sys.enabled
          /\ sys'.pend = sys.pend /\ sys'.active = sys.active /\ sys'.lr0 = "pending" /\ sys'.cnthp = sys.cnthp
          /\ sys'.count = sys.count
      BY <2>2 DEF SysOk
    <2>5. ProgramOk(80, x', sys'.masked)
      BY <1>1, <2>1, <2>4 DEF There, ProgramOk, OwnX, OwnMask, PUTS
    <2>6. SetUp(80)'
      BY <2>1, <2>4 DEF There, SetUp
    <2>7. There(80, 0)' /\ Seen(80, 0)' = Seen(n, k)
      BY <1>1, <2>1, <2>4, <2>5, <2>6, ProgramStep DEF SAYS
    <2> QED
      BY <2>3, <2>7 DEF Moved
  <1>9. CASE do = "waker"
    <2>1. k = 0 /\ n = 45
      BY <1>9 DEF WriteWord, W, Sys
    <2>2. sys' = [sys EXCEPT !.waker = "waking"]
      BY <1>9, Writes
    <2>3. SysOk'
      BY <2>2 DEF SysOk
    <2>4. /\ sys'.el = sys.el /\ sys'.masked = sys.masked /\ sys'.imo = sys.imo /\ sys'.vbar = sys.vbar
          /\ sys'.elr = sys.elr /\ sys'.spsr = sys.spsr /\ sys'.on = sys.on /\ sys'.enabled = sys.enabled
          /\ sys'.pend = sys.pend /\ sys'.active = sys.active /\ sys'.lr0 = sys.lr0 /\ sys'.cnthp = sys.cnthp
          /\ sys'.count = sys.count
      BY <2>2 DEF SysOk
    <2>5. ProgramOk(46, x', sys'.masked)
      BY <1>1, <2>1, <2>4 DEF There, ProgramOk, OwnX, OwnMask, PUTS
    <2>6. SetUp(46)'
      BY <2>1, <2>4 DEF There, SetUp
    <2>7. There(46, 0)' /\ Seen(46, 0)' = Seen(n, k)
      BY <1>1, <2>1, <2>4, <2>5, <2>6, ProgramStep DEF SAYS
    <2> QED
      BY <2>3, <2>7 DEF Moved
  <1>10. CASE do = "enable_ppi"
    <2>1. k = 0 /\ n = 63 /\ ram[pc].arg = IRQ_HTIMER_PPI
      BY <1>10 DEF WriteWord, W, Sys
    <2>2. sys' = [sys EXCEPT !.enabled = @ \cup {IRQ_HTIMER_PPI}]
      BY <1>10, <2>1, Writes
    <2>3. SysOk'
      BY <2>2, <1>3 DEF SysOk
    <2>4. /\ sys'.el = sys.el /\ sys'.masked = sys.masked /\ sys'.imo = sys.imo /\ sys'.vbar = sys.vbar
          /\ sys'.elr = sys.elr /\ sys'.spsr = sys.spsr /\ sys'.on = sys.on /\ sys'.enabled = sys.enabled \cup {IRQ_HTIMER_PPI}
          /\ sys'.pend = sys.pend /\ sys'.active = sys.active /\ sys'.lr0 = sys.lr0 /\ sys'.cnthp = sys.cnthp
          /\ sys'.count = sys.count
      BY <2>2 DEF SysOk
    <2>5. ProgramOk(64, x', sys'.masked)
      BY <1>1, <2>1, <2>4 DEF There, ProgramOk, OwnX, OwnMask, PUTS
    <2>6. SetUp(64)'
      BY <2>1, <2>4 DEF There, SetUp
    <2>7. There(64, 0)' /\ Seen(64, 0)' = Seen(n, k)
      BY <1>1, <2>1, <2>4, <2>5, <2>6, ProgramStep DEF SAYS
    <2> QED
      BY <2>3, <2>7 DEF Moved
  <1>11. CASE do = "elr_el2"
    <2>1. k = 0 /\ n = 92
      BY <1>11 DEF WriteWord, W, Sys
    <2>2. sys' = [sys EXCEPT !.elr[2] = Addr(94), !.spsr[2] = TRUE]
      BY <1>11, Writes, <1>4
    <2>3. SysOk'
      BY <2>2, <1>4 DEF SysOk
    <2>4. /\ sys'.el = sys.el /\ sys'.masked = sys.masked /\ sys'.imo = sys.imo /\ sys'.vbar = sys.vbar
          /\ sys'.elr = [sys.elr EXCEPT ![2] = Addr(94)] /\ sys'.spsr = [sys.spsr EXCEPT ![2] = TRUE] /\ sys'.on = sys.on /\ sys'.enabled = sys.enabled
          /\ sys'.pend = sys.pend /\ sys'.active = sys.active /\ sys'.lr0 = sys.lr0 /\ sys'.cnthp = sys.cnthp
          /\ sys'.count = sys.count
      BY <2>2 DEF SysOk
    <2>5. ProgramOk(93, x', sys'.masked)
      BY <1>1, <2>1, <2>4 DEF There, ProgramOk, OwnX, OwnMask, PUTS
    <2>6. SetUp(93)'
      BY <2>1, <2>4, <1>5 DEF There, SetUp
    <2>7. There(93, 0)' /\ Seen(93, 0)' = Seen(n, k)
      BY <1>1, <2>1, <2>4, <2>5, <2>6, ProgramStep DEF SAYS
    <2> QED
      BY <2>3, <2>7 DEF Moved
  <1>12. CASE do = "vbar_el1"
    <2>1. k = 0 /\ n = 94
      BY <1>12 DEF WriteWord, W, Sys
    <2>2. sys' = [sys EXCEPT !.vbar = Addr(105)]
      BY <1>12, Writes, <1>4
    <2>3. SysOk'
      BY <2>2, <1>4 DEF SysOk
    <2>4. /\ sys'.el = sys.el /\ sys'.masked = sys.masked /\ sys'.imo = sys.imo /\ sys'.vbar = Addr(105)
          /\ sys'.elr = sys.elr /\ sys'.spsr = sys.spsr /\ sys'.on = sys.on /\ sys'.enabled = sys.enabled
          /\ sys'.pend = sys.pend /\ sys'.active = sys.active /\ sys'.lr0 = sys.lr0 /\ sys'.cnthp = sys.cnthp
          /\ sys'.count = sys.count
      BY <2>2 DEF SysOk
    <2>5. ProgramOk(95, x', sys'.masked)
      BY <1>1, <2>1, <2>4 DEF There, ProgramOk, OwnX, OwnMask, PUTS
    <2>6. SetUp(95)'
      BY <2>1, <2>4 DEF There, SetUp
    <2>7. There(95, 0)' /\ Seen(95, 0)' = Seen(n, k)
      BY <1>1, <2>1, <2>4, <2>5, <2>6, ProgramStep DEF SAYS
    <2> QED
      BY <2>3, <2>7 DEF Moved
  <1>13. CASE do = "daifclr"
    <2>1. k = 0 /\ n = 103
      BY <1>13 DEF WriteWord, W, Sys
    <2>2. sys' = [sys EXCEPT !.masked = FALSE]
      BY <1>13, Writes
    <2>3. SysOk'
      BY <2>2 DEF SysOk
    <2>4. /\ sys'.el = sys.el /\ sys'.masked = FALSE /\ sys'.imo = sys.imo /\ sys'.vbar = sys.vbar
          /\ sys'.elr = sys.elr /\ sys'.spsr = sys.spsr /\ sys'.on = sys.on /\ sys'.enabled = sys.enabled
          /\ sys'.pend = sys.pend /\ sys'.active = sys.active /\ sys'.lr0 = sys.lr0 /\ sys'.cnthp = sys.cnthp
          /\ sys'.count = sys.count
      BY <2>2 DEF SysOk
    <2>5. ProgramOk(104, x', sys'.masked)
      BY <1>1, <2>1, <2>4 DEF There, ProgramOk, OwnX, OwnMask, PUTS
    <2>6. SetUp(104)'
      BY <2>1, <2>4 DEF There, SetUp
    <2>7. There(104, 0)' /\ Seen(104, 0)' = Seen(n, k)
      BY <1>1, <2>1, <2>4, <2>5, <2>6, ProgramStep DEF SAYS
    <2> QED
      BY <2>3, <2>7 DEF Moved
  <1>14. CASE do = "daifset"
    <2>1. k = 0 /\ n = 122
      BY <1>14 DEF WriteWord, W, Sys
    <2>2. sys' = [sys EXCEPT !.masked = TRUE]
      BY <1>14, Writes
    <2>3. SysOk'
      BY <2>2 DEF SysOk
    <2>4. /\ sys'.el = sys.el /\ sys'.masked = TRUE /\ sys'.imo = sys.imo /\ sys'.vbar = sys.vbar
          /\ sys'.elr = sys.elr /\ sys'.spsr = sys.spsr /\ sys'.on = sys.on /\ sys'.enabled = sys.enabled
          /\ sys'.pend = sys.pend /\ sys'.active = sys.active /\ sys'.lr0 = sys.lr0 /\ sys'.cnthp = sys.cnthp
          /\ sys'.count = sys.count
      BY <2>2 DEF SysOk
    <2>5. ProgramOk(123, x', sys'.masked)
      BY <1>1, <2>1, <2>4 DEF There, ProgramOk, OwnX, OwnMask, PUTS
    <2>6. SetUp(123)'
      BY <2>1, <2>4 DEF There, SetUp
    <2>7. There(123, 0)' /\ Seen(123, 0)' = Seen(n, k)
      BY <1>1, <2>1, <2>4, <2>5, <2>6, ProgramStep DEF SAYS
    <2> QED
      BY <2>3, <2>7 DEF Moved
  <1>15. CASE do = "cnthp_disable"
    <2>1. k = 5
      BY <1>15 DEF WriteWord, W, Sys
    <2>2. sys' = [sys EXCEPT !.cnthp = "off"]
      BY <1>15, Writes
    <2>3. SysOk'
      BY <2>2 DEF SysOk
    <2>4. /\ sys'.el = sys.el /\ sys'.imo = sys.imo /\ sys'.vbar = sys.vbar /\ sys'.on = sys.on
          /\ sys'.enabled = sys.enabled /\ sys'.pend = sys.pend /\ sys'.active = sys.active /\ sys'.lr0 = sys.lr0
          /\ sys'.cnthp = "off" /\ sys'.count = sys.count /\ sys'.frame = sys.frame
      BY <2>2 DEF SysOk
    <2>5. HandlerOk(6)' /\ Timer(6)'
      BY <1>1, <2>1, <2>4 DEF There, HandlerOk, Timer
    <2>6. pc' = Addr(126 + 6)
      BY <1>1, <2>1, AddrStep DEF There, Stands
    <2>7. Printed(n)'
      BY <1>1 DEF There, Printed, TimedOut
    <2>8. 5 \in 1..31 \ EDGES /\ 6 \in 1..31 \ EDGES /\ There(n, 5)
      BY <2>1 DEF EDGES
    <2>9. There(n, 6)'
      BY <2>4, <2>5, <2>6, <2>7, <2>8, HandlerStep
    <2>10. Seen(n, 6)' = Seen(n, k)
      BY <1>1, <2>1, <2>4, HandlerSilent DEF Missing, HOLDS
    <2> QED
      BY <2>3, <2>9, <2>10 DEF Moved
  <1>16. CASE do = "count"
    <2>1. k = 7
      BY <1>16 DEF WriteWord, W, Sys
    <2>2. sys' = [sys EXCEPT !.count = @ + 1]
      BY <1>16, Writes
    <2>3. SysOk'
      BY <2>2 DEF SysOk
    <2>4. /\ sys'.el = sys.el /\ sys'.imo = sys.imo /\ sys'.vbar = sys.vbar /\ sys'.on = sys.on
          /\ sys'.enabled = sys.enabled /\ sys'.pend = sys.pend /\ sys'.active = sys.active /\ sys'.lr0 = sys.lr0
          /\ sys'.cnthp = sys.cnthp /\ sys'.count = sys.count + 1 /\ sys'.frame = sys.frame
      BY <2>2 DEF SysOk
    <2>5. HandlerOk(8)' /\ Timer(8)'
      BY <1>1, <2>1, <2>4 DEF There, HandlerOk, Timer
    <2>6. pc' = Addr(126 + 8)
      BY <1>1, <2>1, AddrStep DEF There, Stands
    <2>7. Printed(n)'
      BY <1>1 DEF There, Printed, TimedOut
    <2>8. 7 \in 1..31 \ EDGES /\ 8 \in 1..31 \ EDGES /\ There(n, 7)
      BY <2>1 DEF EDGES
    <2>9. There(n, 8)'
      BY <2>4, <2>5, <2>6, <2>7, <2>8, HandlerStep
    <2>10. Seen(n, 8)' = Seen(n, k)
      BY <1>1, <2>1, <2>4, HandlerSilent DEF Missing, HOLDS
    <2> QED
      BY <2>3, <2>9, <2>10 DEF Moved
  <1>17. do \in {"icc_sre", "gicd_ctlr", "ich_hcr", "icc_pmr", "icc_igrpen1", "ich_vmcr", "hcr_imo", "ich_lr0",
                 "waker", "enable_ppi", "elr_el2", "vbar_el1", "daifclr", "daifset", "cnthp_disable", "count"}
    BY DEF SysWrite, At
  <1> QED
    BY <1>6, <1>7, <1>8, <1>9, <1>10, <1>11, <1>12, <1>13, <1>14, <1>15, <1>16, <1>17

\* The groups of the listing have no instruction in common.
LEMMA Kinds ==
  ASSUME NEW w, Lists(w), Image[w].op = "sys"
  PROVE  /\ Image[w].do = "tbnz_txff" => PollWord(w)
         /\ Image[w].do \in {"b_eq_1023", "b_hs_1020", "b_ne_26"} => BranchWord(w)
         /\ Image[w].do \in {"push", "nibble", "pop", "mov_x0_x19"} => MoveWord(w)
         /\ Image[w].do \in {"spin", "icc_iar1", "icc_eoir1", "save_ctx", "restore_ctx", "eret"} => OtherWord(w)
  <1>1. PollWord(w) => Image[w].do = "tbnz_txff"
    BY DEF PollWord, Sys
  <1>2. BranchWord(w) => Image[w].do \in {"b_eq_1023", "b_hs_1020", "b_ne_26"}
    BY DEF BranchWord, Sys
  <1>3. MoveWord(w) => Image[w].do \in {"push", "nibble", "pop", "mov_x0_x19"}
    BY DEF MoveWord, Sys
  <1>4. OtherWord(w) => Image[w].do \in {"spin", "icc_iar1", "icc_eoir1", "save_ctx", "restore_ctx", "eret"}
    BY DEF OtherWord, Sys
  <1>5. WriteWord(w) =>
          Image[w].do \in {"icc_sre", "gicd_ctlr", "ich_hcr", "icc_pmr", "icc_igrpen1", "hcr_imo", "ich_vmcr",
                           "ich_lr0", "waker", "enable_ppi", "cnthp_disable", "count", "elr_el2", "vbar_el1",
                           "daifclr", "daifset"}
    BY DEF WriteWord, Sys
  <1>6. SysWord(w)
    BY IsSys
  <1> QED
    BY <1>1, <1>2, <1>3, <1>4, <1>5, <1>6 DEF SysWord

\* Interrupts nobody expects have INTIDs below 1020 and are not the timer's.
LEMMA StrayFacts ==
  \A i \in STRAY : i \in Int /\ i >= 0 /\ i < 1020 /\ i # 26
  <1>1. STRAY \subseteq 0..1019 \ {26}
    BY Stage4Assumption DEF IRQ_HTIMER_PPI
  <1> QED
    BY <1>1

\* The words at which the program polls are not at an edge of what it sets up.
LEMMA PollPlaces ==
  ASSUME NEW n \in 1..123, n \in {p + 1 : p \in POLLS}
  PROVE  /\ n \notin {19, 23, 27, 31, 35, 39, 43, 50, 67, 93} /\ n \in 17..90
         /\ n + 1 \notin PUTS /\ n - 1 \notin PUTS /\ n \notin SAYS /\ n - 1 \notin SAYS
         /\ n \notin {20, 24, 28, 32, 36, 40, 44, 51, 59, 68, 76, 77, 78, 79, 80}
  BY DEF POLLS, PUTS, SAYS

\* uart_putc's poll of the flag register, in the program.
LEMMA PollKeeps ==
  ASSUME NEW n \in 1..123, There(n, 0), SysOk, n \in {p + 1 : p \in POLLS},
         pc' = pc + 4 \/ pc' = pc - 4, sys' = sys, x' = x, dev' = dev
  PROVE  Moved(n, 0)
  <1>1. /\ n \notin {19, 23, 27, 31, 35, 39, 43, 50, 67, 93} /\ n \in 17..90
        /\ n + 1 \notin PUTS /\ n - 1 \notin PUTS /\ n \notin SAYS /\ n - 1 \notin SAYS
        /\ n \notin {20, 24, 28, 32, 36, 40, 44, 51, 59, 68, 76, 77, 78, 79, 80}
    BY PollPlaces
  <1>2. CASE pc' = pc + 4
    <2>1. ProgramOk(n + 1, x', sys'.masked)
      BY <1>1 DEF There, ProgramOk, OwnX, OwnMask
    <2>2. SetUp(n + 1)'
      BY <1>1 DEF There, SetUp
    <2>3. There(n + 1, 0)' /\ Seen(n + 1, 0)' = Seen(n, 0)
      BY <1>1, <1>2, <2>1, <2>2, ProgramStep
    <2>4. n + 1 \in 1..123 /\ 0 \in 0..31
      BY <1>1
    <2> QED
      BY <2>3, <2>4 DEF Moved
  <1>3. CASE pc' = pc - 4
    <2>1. Stands(n - 1, 0)'
      <3>1. pc = Addr(n) /\ sys.el = 2
        BY <1>1 DEF There, Stands
      <3>2. pc' = Addr(n - 1)
        BY <1>3, <3>1, AddrStep
      <3> QED
        BY <1>1, <3>1, <3>2 DEF Stands
    <2>2. ProgramOk(n - 1, OwnX(0), OwnMask(0))'
      BY <1>1 DEF There, ProgramOk, OwnX, OwnMask
    <2>3. SetUp(n - 1)'
      BY <1>1 DEF There, SetUp
    <2>4. HandlerOk(0)' /\ Timer(0)'
      BY <1>1, IdleKept DEF There
    <2>5. Printed(n - 1)'
      <3>1. TimedOut' <=> TimedOut
        BY DEF TimedOut
      <3>2. CASE n <= 50
        <4>1. \A p \in {19, 23, 27, 31, 35, 39, 43} : Passed(n - 1, p) = Passed(n, p)
          BY <1>1, <3>2 DEF Passed
        <4>2. /\ Passed(n - 1, 19) = Passed(n, 19) /\ Passed(n - 1, 23) = Passed(n, 23)
              /\ Passed(n - 1, 27) = Passed(n, 27) /\ Passed(n - 1, 31) = Passed(n, 31)
              /\ Passed(n - 1, 35) = Passed(n, 35) /\ Passed(n - 1, 39) = Passed(n, 39)
              /\ Passed(n - 1, 43) = Passed(n, 43)
          BY <4>1
        <4>3. Len(dev.out) = Passed(n, 19) + Passed(n, 23) + Passed(n, 27) + Passed(n, 31)
                               + Passed(n, 35) + Passed(n, 39) + Passed(n, 43)
          <5>1. Printed(n)
            BY <1>1 DEF There
          <5> QED
            BY <3>2, <5>1 DEF Printed
        <4>4. Len(dev'.out) = Passed(n - 1, 19) + Passed(n - 1, 23) + Passed(n - 1, 27) + Passed(n - 1, 31)
                               + Passed(n - 1, 35) + Passed(n - 1, 39) + Passed(n - 1, 43)
          BY <4>2, <4>3
        <4>5. n - 1 <= 50 /\ n - 1 \notin 51..58 /\ n - 1 \notin 59..67 /\ ~(n - 1 >= 68)
          BY <1>1, <3>2
        <4> QED
          BY <4>4, <4>5 DEF Printed
      <3>3. CASE n > 51
        BY <1>1, <3>1, <3>3 DEF There, Printed
      <3> QED
        BY <1>1, <3>2, <3>3
    <2>6. There(n - 1, 0)'
      BY <2>1, <2>2, <2>3, <2>4, <2>5 DEF There
    <2>7. n - 1 \in 1..123 /\ 0 \in 0..31
      BY <1>1
    <2>8. Seen(n - 1, 0)' = Seen(n, 0)
      <3>1. Said(n - 1)' = Said(n)
        <4>1. \A p \in SAYS : p < n - 1 <=> p < n
          BY <1>1 DEF SAYS
        <4>2. TimedOut' <=> TimedOut
          BY DEF TimedOut
        <4> QED
          BY <4>1, <4>2 DEF Said
      <3>2. Due(0)' = Due(0) /\ Intid(0)' = Intid(0)
        BY DEF Due, Intid, HOLDS
      <3> QED
        BY <3>1, <3>2 DEF Seen
    <2> QED
      BY <2>6, <2>7, <2>8 DEF Moved
  <1> QED
    BY <1>2, <1>3

\* A branch, or a move, of the handler leaves the system registers alone.
LEMMA QuietStep ==
  ASSUME NEW n \in 1..123, NEW k \in 1..31 \ EDGES, NEW m \in 1..31 \ EDGES, There(n, k),
         pc' = Addr(126 + m), sys' = sys, dev' = dev, HandlerOk(m)', Timer(m)', Seen(n, m)' = Seen(n, k)
  PROVE  Moved(n, k)
  <1>1. Printed(n)'
    BY DEF There, Printed, TimedOut
  <1>2. There(n, m)'
    BY <1>1, HandlerStep
  <1> QED
    BY <1>2 DEF Moved

\* The branches.
LEMMA BranchKeeps ==
  ASSUME NEW n \in 1..123, NEW k \in 0..31, There(n, k), SysOk, Lists(W(n, k)), pc = Addr(W(n, k)),
         ram[pc] = Image[W(n, k)], Branch
  PROVE  SysOk' /\ Moved(n, k)
  <1>1. /\ x' = x /\ sys' = sys /\ dev' = dev /\ ram[pc].op = "sys"
        /\ ram[pc].do \in {"tbnz_txff", "b_eq_1023", "b_hs_1020", "b_ne_26"}
    BY DEF Branch, At, Fetched, Goes
  <1>2. SysOk'
    BY <1>1 DEF SysOk
  <1>3. CASE ram[pc].do = "tbnz_txff"
    <2>1. W(n, k) \in {p + 1 : p \in POLLS}
      BY <1>1, <1>3, Kinds DEF PollWord
    <2>2. pc' = pc + 4 \/ pc' = pc - 4
      BY <1>3 DEF Branch, At, Goes
    <2>3. CASE k = 0
      BY <1>1, <1>2, <2>1, <2>2, <2>3, PollKeeps DEF W
    <2>4. CASE k # 0
      <3>1. k \in {12, 16, 20, 24} /\ pc = Addr(126 + k)
        BY <2>1, <2>4 DEF W, POLLS
      <3>2. PICK m \in {k - 1, k + 1} : pc' = Addr(126 + m)
        <4>1. pc' = Addr(126 + k + 1) \/ pc' = Addr(126 + k - 1)
          BY <2>2, <3>1, AddrStep
        <4>2. 126 + k + 1 = 126 + (k + 1) /\ 126 + k - 1 = 126 + (k - 1)
          OBVIOUS
        <4> QED
          BY <4>1, <4>2
      <3>3. k \in 1..31 \ EDGES /\ m \in 1..31 \ EDGES
        BY <3>1 DEF EDGES
      <3>4. HandlerOk(m)'
        BY <1>1, <3>1 DEF There, HandlerOk
      <3>5. Timer(m)'
        BY <1>1, <3>1 DEF There, Timer
      <3>6. Seen(n, m)' = Seen(n, k)
        <4>1. Missing(m) = Missing(k) /\ (m \in HOLDS <=> k \in HOLDS)
          BY <3>1 DEF Missing, HOLDS
        <4> QED
          BY <1>1, <3>3, <4>1, HandlerSilent
      <3> QED
        BY <1>1, <1>2, <3>2, <3>3, <3>4, <3>5, <3>6, QuietStep
    <2> QED
      BY <2>3, <2>4
  <1>4. CASE ram[pc].do = "b_hs_1020"
    <2>1. k = 3 /\ ram[pc].arg = 26 /\ pc = Addr(129)
      BY <1>1, <1>4, Kinds DEF BranchWord, W, Sys
    <2>2. pc' = IF x[19] >= 1020 THEN pc + 4 * (26 + 1) ELSE pc + 4
      BY <1>4, <2>1 DEF Branch, At, Goes
    <2>3. x[19] \in STRAY \cup {26, 1023}
      BY <2>1 DEF There, HandlerOk, IRQ_HTIMER_PPI, SPURIOUS
    <2>4. 3 \in 1..31 \ EDGES /\ 4 \in 1..31 \ EDGES /\ 30 \in 1..31 \ EDGES /\ There(n, 3)
      BY <2>1 DEF EDGES
    <2>5. CASE x[19] >= 1020
      <3>1. pc' = pc + 4 * (26 + 1)
        BY <2>2, <2>5
      <3>2. x[19] = 1023 /\ pc' = Addr(126 + 30)
        <4>1. x[19] = 1023
          BY <2>3, <2>5, StrayFacts
        <4>2. pc' = Addr(126 + 30)
          BY <2>1, <3>1, LayoutAssumption DEF Addr
        <4> QED
          BY <4>1, <4>2
      <3>3. HandlerOk(30)' /\ Timer(30)'
        BY <1>1, <2>4, <3>2 DEF There, HandlerOk, Timer, SPURIOUS
      <3>4. Seen(n, 30)' = Seen(n, k)
        <4>1. Due(30)' = Due(3)
          <5>1. x[19] \notin STRAY
            BY <3>2, StrayFacts
          <5> QED
            BY <1>1, <5>1 DEF Due, HOLDS
        <4>2. Said(n)' = Said(n)
          BY <1>1 DEF Said, TimedOut
        <4> QED
          BY <2>1, <4>1, <4>2 DEF Seen, Intid, Missing
      <3> QED
        BY <1>1, <1>2, <2>1, <2>4, <3>2, <3>3, <3>4, QuietStep
    <2>6. CASE ~(x[19] >= 1020)
      <3>1. x[19] \in STRAY \cup {26} /\ pc' = Addr(126 + 4)
        BY <2>1, <2>2, <2>3, <2>6, LayoutAssumption DEF Addr
      <3>2. HandlerOk(4)' /\ Timer(4)'
        BY <1>1, <2>4, <3>1 DEF There, HandlerOk, Timer, IRQ_HTIMER_PPI
      <3>3. Seen(n, 4)' = Seen(n, k)
        BY <1>1, <2>1, HandlerSilent DEF Missing, HOLDS
      <3> QED
        BY <1>1, <1>2, <2>1, <2>4, <3>1, <3>2, <3>3, QuietStep
    <2> QED
      BY <2>5, <2>6
  <1>5. CASE ram[pc].do = "b_ne_26"
    <2>1. k = 4 /\ ram[pc].arg = 5 /\ pc = Addr(130)
      BY <1>1, <1>5, Kinds DEF BranchWord, W, Sys
    <2>2. pc' = IF x[19] # 26 THEN pc + 4 * (5 + 1) ELSE pc + 4
      BY <1>5, <2>1 DEF Branch, At, Goes, IRQ_HTIMER_PPI
    <2>3. x[19] \in STRAY \cup {26}
      BY <2>1 DEF There, HandlerOk, IRQ_HTIMER_PPI
    <2>4. 4 \in 1..31 \ EDGES /\ 5 \in 1..31 \ EDGES /\ 10 \in 1..31 \ EDGES /\ There(n, 4)
      BY <2>1 DEF EDGES
    <2>5. CASE x[19] # 26
      <3>1. x[19] \in STRAY /\ pc' = Addr(126 + 10)
        BY <2>1, <2>2, <2>3, <2>5, LayoutAssumption DEF Addr
      <3>2. HandlerOk(10)' /\ Timer(10)'
        BY <1>1, <2>4, <3>1 DEF There, HandlerOk, Timer
      <3>3. Seen(n, 10)' = Seen(n, k)
        BY <1>1, <2>1, HandlerSilent DEF Missing, HOLDS
      <3> QED
        BY <1>1, <1>2, <2>1, <2>4, <3>1, <3>2, <3>3, QuietStep
    <2>6. CASE x[19] = 26
      <3>1. pc' = Addr(126 + 5)
        BY <2>1, <2>2, <2>6, LayoutAssumption DEF Addr
      <3>2. HandlerOk(5)' /\ Timer(5)'
        BY <1>1, <2>4, <2>6 DEF There, HandlerOk, Timer, IRQ_HTIMER_PPI
      <3>3. Seen(n, 5)' = Seen(n, k)
        <4>1. Due(5)' = Due(4)
          <5>1. x[19] \notin STRAY
            BY <2>6, StrayFacts
          <5> QED
            BY <1>1, <5>1 DEF Due, HOLDS
        <4>2. Said(n)' = Said(n)
          BY <1>1 DEF Said, TimedOut
        <4> QED
          BY <2>1, <4>1, <4>2 DEF Seen, Intid, Missing
      <3> QED
        BY <1>1, <1>2, <2>1, <2>4, <3>1, <3>2, <3>3, QuietStep
    <2> QED
      BY <2>5, <2>6
  <1>6. CASE ram[pc].do = "b_eq_1023"
    <2>1. k = 0 /\ n = 108
      BY <1>1, <1>6, Kinds DEF BranchWord, W, Sys
    <2>2. x[19] = VINTID /\ VINTID # SPURIOUS
      BY <2>1 DEF There, ProgramOk, OwnX, VINTID, SPURIOUS
    <2>3. pc' = pc + 4
      BY <1>6, <2>2 DEF Branch, At, Goes
    <2>4. ProgramOk(109, x', sys'.masked)
      BY <1>1, <2>1 DEF There, ProgramOk, OwnX, OwnMask, PUTS
    <2>5. SetUp(109)'
      BY <1>1, <2>1 DEF There, SetUp
    <2>6. There(109, 0)' /\ Seen(109, 0)' = Seen(n, k)
      BY <1>1, <2>1, <2>3, <2>4, <2>5, ProgramStep DEF SAYS
    <2> QED
      BY <1>2, <2>6 DEF Moved
  <1> QED
    BY <1>1, <1>3, <1>4, <1>5, <1>6

\* wake_redistributor's poll: awake, time-out, or again.
LEMMA SpinKeeps ==
  ASSUME NEW n \in 1..123, NEW k \in 0..31, There(n, k), SysOk, Lists(W(n, k)), pc = Addr(W(n, k)),
         ram[pc] = Image[W(n, k)], Spin
  PROVE  SysOk' /\ Moved(n, k)
  <1>1. /\ x' = x /\ dev' = dev /\ ram[pc].op = "sys" /\ ram[pc].do = "spin"
    BY DEF Spin, At, Fetched, Goes
  <1>2. k = 0 /\ n = 46 /\ ram[pc].arg = 12 /\ pc = Addr(46)
    BY <1>1, Kinds DEF OtherWord, W, Sys
  <1>3. PICK v \in Int : sys' = [sys EXCEPT !.spins = v]
    <2>1. sys.spins + 1 \in Int /\ 0 \in Int
      BY DEF SysOk
    <2> QED
      BY <2>1 DEF Spin, Goes
  <1>4. PICK m \in {46, 47, 59} : pc' = Addr(m)
    <2>1. pc' \in {pc, pc + 4, pc + 4 * (12 + 1)}
      BY <1>2 DEF Spin, Goes
    <2>2. Addr(46) + 4 = Addr(47) /\ Addr(46) + 4 * (12 + 1) = Addr(59)
      BY LayoutAssumption DEF Addr
    <2> QED
      BY <1>2, <2>1, <2>2
  <1>5. SysOk'
    BY <1>3 DEF SysOk
  <1>6. /\ sys'.el = sys.el /\ sys'.masked = sys.masked /\ sys'.imo = sys.imo /\ sys'.vbar = sys.vbar
        /\ sys'.elr = sys.elr /\ sys'.spsr = sys.spsr /\ sys'.on = sys.on
        /\ sys'.enabled = sys.enabled /\ sys'.pend = sys.pend /\ sys'.active = sys.active
        /\ sys'.lr0 = sys.lr0 /\ sys'.cnthp = sys.cnthp /\ sys'.count = sys.count
    BY <1>3 DEF SysOk
  <1>7. Stands(m, 0)'
    BY <1>2, <1>4, <1>6 DEF There, Stands
  <1>8. ProgramOk(m, OwnX(0), OwnMask(0))'
    BY <1>1, <1>2, <1>6 DEF There, ProgramOk, OwnX, OwnMask, PUTS
  <1>9. SetUp(m)'
    BY <1>2, <1>6 DEF There, SetUp
  <1>10. HandlerOk(0)' /\ Timer(0)'
    BY <1>2, <1>6, IdleKept DEF There
  <1>11. Printed(m)'
    <2>1. Len(dev.out) = 7
      BY <1>2 DEF There, Printed, Passed
    <2> QED
      BY <1>1, <2>1 DEF Printed, Passed
  <1>12. There(m, 0)'
    BY <1>7, <1>8, <1>9, <1>10, <1>11 DEF There
  <1>13. Seen(m, 0)' = Seen(n, k)
    <2>1. Said(m)' = Said(46)
      <3>1. ~TimedOut /\ ~TimedOut'
        BY <1>1, <1>2 DEF There, Printed, Passed, TimedOut
      <3> QED
        BY <3>1 DEF Said, SAYS
    <2>2. Due(0)' = Due(0) /\ Intid(0)' = Intid(0)
      BY <1>6 DEF Due, Intid, HOLDS
    <2> QED
      BY <1>2, <2>1, <2>2 DEF Seen
  <1> QED
    BY <1>4, <1>5, <1>12, <1>13 DEF Moved

\* An acknowledge: of LR0 by the guest, of a physical interrupt or of none by
\* the handler.
LEMMA AcknowledgeKeeps ==
  ASSUME NEW n \in 1..123, NEW k \in 0..31, There(n, k), SysOk, Lists(W(n, k)), pc = Addr(W(n, k)),
         ram[pc] = Image[W(n, k)], x \in RegisterFile, Acknowledge
  PROVE  SysOk' /\ Moved(n, k) /\ x' \in RegisterFile
  <1>1. dev' = dev /\ ram[pc].op = "sys" /\ ram[pc].do = "icc_iar1" /\ pc' = pc + 4
    BY DEF Acknowledge, At, Fetched, Goes
  <1>2. (k = 0 /\ n = 107) \/ k = 2
    BY <1>1, Kinds DEF OtherWord, W, Sys
  <1>3. STRAY \subseteq 0..1019 \ {26} /\ 19 \in REGS /\ 1 \in REGS /\ 0 \in REGS
    BY Stage4Assumption DEF IRQ_HTIMER_PPI
  <1>4. CASE k = 0
    <2>1. n = 107
      BY <1>2, <1>4
    <2>2. IsVirtual /\ VirtualSignalled
      BY <1>4, <2>1 DEF There, Stands, SetUp, IsVirtual, VirtualSignalled
    <2>3. sys' = [sys EXCEPT !.lr0 = "active"] /\ x' = [x EXCEPT ![19] = VINTID]
      BY <2>2 DEF Acknowledge, Goes
    <2>4. SysOk'
      BY <2>3 DEF SysOk
    <2>5. /\ sys'.el = sys.el /\ sys'.masked = sys.masked /\ sys'.imo = sys.imo /\ sys'.vbar = sys.vbar
          /\ sys'.elr = sys.elr /\ sys'.spsr = sys.spsr /\ sys'.on = sys.on
          /\ sys'.enabled = sys.enabled /\ sys'.pend = sys.pend /\ sys'.active = sys.active
          /\ sys'.lr0 = "active" /\ sys'.cnthp = sys.cnthp /\ sys'.count = sys.count
      BY <2>3 DEF SysOk
    <2>6. x' \in RegisterFile /\ x'[19] = VINTID /\ x'[1] = x[1]
      BY <1>3, <2>3 DEF RegisterFile, VINTID
    <2>7. ProgramOk(108, x', sys'.masked)
      BY <1>4, <2>1, <2>5, <2>6 DEF There, ProgramOk, OwnX, OwnMask, PUTS
    <2>8. SetUp(108)'
      BY <1>4, <2>1, <2>5 DEF There, SetUp
    <2>9. There(108, 0)' /\ Seen(108, 0)' = Seen(n, k)
      BY <1>1, <1>4, <2>1, <2>5, <2>7, <2>8, ProgramStep DEF SAYS
    <2> QED
      BY <2>4, <2>6, <2>9 DEF Moved
  <1>5. CASE k = 2
    <2>1. ~IsVirtual /\ sys.active = {} /\ sys.pend \subseteq STRAY /\ sys.enabled \subseteq STRAY \cup {26}
      BY <1>5 DEF There, Stands, HandlerOk, Timer, IsVirtual, IRQ_HTIMER_PPI
    <2>2. pc' = Addr(126 + 3)
      BY <1>1, <1>5, AddrStep DEF W
    <2>3. Printed(n)'
      BY <1>1 DEF There, Printed, TimedOut
    <2>4. 2 \in 1..31 \ EDGES /\ 3 \in 1..31 \ EDGES /\ There(n, 2)
      BY <1>5 DEF EDGES
    <2>5. CASE \E intid \in Signalled :
                 /\ sys' = [sys EXCEPT !.active = @ \cup {intid}, !.pend = @ \ {intid}]
                 /\ x' = [x EXCEPT ![19] = intid]
      <3>1. PICK intid \in Signalled :
                 /\ sys' = [sys EXCEPT !.active = @ \cup {intid}, !.pend = @ \ {intid}]
                 /\ x' = [x EXCEPT ![19] = intid]
        BY <2>5
      <3>2. intid \in STRAY \cup {26} /\ (intid = 26 => sys.cnthp = "due")
        BY <1>3, <2>1 DEF Signalled, IRQ_HTIMER_PPI
      <3>3. intid \in Int /\ intid # 1023
        BY <3>2, StrayFacts
      <3>4. SysOk'
        <4>1. sys.active \cup {intid} \in SUBSET Int /\ sys.pend \ {intid} \in SUBSET Int
          BY <3>3 DEF SysOk
        <4> QED
          BY <3>1, <4>1 DEF SysOk
      <3>5. /\ sys'.el = sys.el /\ sys'.imo = sys.imo /\ sys'.vbar = sys.vbar /\ sys'.on = sys.on
            /\ sys'.enabled = sys.enabled /\ sys'.pend = sys.pend \ {intid} /\ sys'.active = sys.active \cup {intid}
            /\ sys'.lr0 = sys.lr0 /\ sys'.cnthp = sys.cnthp /\ sys'.count = sys.count /\ sys'.frame = sys.frame
        BY <3>1 DEF SysOk
      <3>6. x' \in RegisterFile /\ x'[19] = intid
        BY <1>3, <3>1, <3>3 DEF RegisterFile
      <3>7. HandlerOk(3)'
        BY <2>1, <3>2, <3>3, <3>5, <3>6 DEF HandlerOk, IRQ_HTIMER_PPI, SPURIOUS
      <3>8. Timer(3)'
        BY <2>1, <2>4, <3>2, <3>5, <3>6 DEF There, Timer, IRQ_HTIMER_PPI
      <3>9. There(n, 3)'
        BY <2>2, <2>3, <2>4, <3>5, <3>7, <3>8, HandlerStep
      <3>10. Seen(n, 3)' = Seen(n, k)
        <4>1. Due(3)' = Due(2)
          <5>1. Due(2) = sys.pend /\ Due(3)' = sys'.pend \cup ({intid} \cap STRAY)
            BY <3>6 DEF Due, HOLDS
          <5>2. intid \in STRAY <=> intid \in sys.pend
            BY <1>3, <2>1 DEF Signalled, IRQ_HTIMER_PPI
          <5> QED
            BY <3>5, <5>1, <5>2
        <4>2. Said(n)' = Said(n)
          BY <1>1 DEF Said, TimedOut
        <4> QED
          BY <1>5, <4>1, <4>2 DEF Seen, Intid, Missing
      <3> QED
        BY <3>4, <3>6, <3>9, <3>10 DEF Moved
    <2>6. CASE sys' = sys /\ x' = [x EXCEPT ![19] = SPURIOUS]
      <3>1. SysOk'
        BY <2>6 DEF SysOk
      <3>2. x' \in RegisterFile /\ x'[19] = 1023
        BY <1>3, <2>6 DEF RegisterFile, SPURIOUS
      <3>3. 1023 \notin sys.pend
        BY <2>4, StrayFacts DEF There, Timer
      <3>4. HandlerOk(3)'
        BY <2>1, <2>6, <3>2, <3>3 DEF HandlerOk, IRQ_HTIMER_PPI, SPURIOUS
      <3>5. Timer(3)'
        BY <2>4, <2>6, <3>2 DEF There, Timer, IRQ_HTIMER_PPI
      <3>6. Seen(n, 3)' = Seen(n, k)
        <4>1. Due(3)' = Due(2)
          <5>1. x'[19] \notin STRAY
            BY <3>2, StrayFacts
          <5> QED
            BY <2>6, <5>1 DEF Due, HOLDS
        <4>2. Said(n)' = Said(n)
          BY <1>1 DEF Said, TimedOut
        <4> QED
          BY <1>5, <4>1, <4>2 DEF Seen, Intid, Missing
      <3>7. Moved(n, k)
        BY <1>1, <1>5, <2>2, <2>4, <2>6, <3>4, <3>5, <3>6, QuietStep
      <3> QED
        BY <3>1, <3>2, <3>7
    <2> QED
      BY <2>1, <2>5, <2>6 DEF Acknowledge, Goes
  <1> QED
    BY <1>2, <1>4, <1>5

\* The end of an interrupt: LR0's in the guest, the one in x19 in the handler.
LEMMA CompleteKeeps ==
  ASSUME NEW n \in 1..123, NEW k \in 0..31, There(n, k), SysOk, Lists(W(n, k)), pc = Addr(W(n, k)),
         ram[pc] = Image[W(n, k)], Complete
  PROVE  SysOk' /\ Moved(n, k)
  <1>1. dev' = dev /\ x' = x /\ ram[pc].op = "sys" /\ ram[pc].do = "icc_eoir1" /\ pc' = pc + 4
    BY DEF Complete, At, Fetched, Goes
  <1>2. (k = 0 /\ n = 117) \/ k \in {6, 27}
    BY <1>1, Kinds DEF OtherWord, W, Sys
  <1>3. CASE k = 0
    <2>1. n = 117
      BY <1>2, <1>3
    <2>2. IsVirtual /\ x[19] = VINTID /\ sys.lr0 = "active"
      BY <1>3, <2>1 DEF There, Stands, SetUp, ProgramOk, OwnX, IsVirtual
    <2>3. sys' = [sys EXCEPT !.lr0 = "invalid"]
      BY <2>2 DEF Complete, Goes
    <2>4. SysOk'
      BY <2>3 DEF SysOk
    <2>5. /\ sys'.el = sys.el /\ sys'.masked = sys.masked /\ sys'.imo = sys.imo /\ sys'.vbar = sys.vbar
          /\ sys'.elr = sys.elr /\ sys'.spsr = sys.spsr /\ sys'.on = sys.on
          /\ sys'.enabled = sys.enabled /\ sys'.pend = sys.pend /\ sys'.active = sys.active
          /\ sys'.lr0 = "invalid" /\ sys'.cnthp = sys.cnthp /\ sys'.count = sys.count
      BY <2>3 DEF SysOk
    <2>6. ProgramOk(118, x', sys'.masked)
      BY <1>1, <1>3, <2>1, <2>5 DEF There, ProgramOk, OwnX, OwnMask, PUTS
    <2>7. SetUp(118)'
      BY <1>3, <2>1, <2>5 DEF There, SetUp
    <2>8. There(118, 0)' /\ Seen(118, 0)' = Seen(n, k)
      BY <1>1, <1>3, <2>1, <2>5, <2>6, <2>7, ProgramStep DEF SAYS
    <2> QED
      BY <2>4, <2>8 DEF Moved
  <1>4. CASE k \in {6, 27}
    <2>1. ~IsVirtual /\ sys.active = {x[19]}
      <3>1. x[19] # SPURIOUS
        BY <1>4, StrayFacts DEF There, HandlerOk, SPURIOUS, IRQ_HTIMER_PPI
      <3>2. ~IsVirtual
        BY <1>4 DEF There, Stands, IsVirtual
      <3> QED
        BY <1>4, <3>1, <3>2 DEF There, HandlerOk
    <2>2. sys' = [sys EXCEPT !.active = {}]
      BY <2>1 DEF Complete, Goes
    <2>3. SysOk'
      BY <2>2 DEF SysOk
    <2>4. /\ sys'.el = sys.el /\ sys'.imo = sys.imo /\ sys'.vbar = sys.vbar /\ sys'.on = sys.on
          /\ sys'.enabled = sys.enabled /\ sys'.pend = sys.pend /\ sys'.active = {}
          /\ sys'.lr0 = sys.lr0 /\ sys'.cnthp = sys.cnthp /\ sys'.count = sys.count /\ sys'.frame = sys.frame
      BY <2>2 DEF SysOk
    <2>5. pc' = Addr(126 + (k + 1))
      <3>1. pc' = Addr(126 + k + 1)
        <4>1. pc = Addr(126 + k) /\ 126 + k \in Int
          BY <1>4 DEF W
        <4> QED
          BY <1>1, <4>1, AddrStep
      <3> QED
        BY <3>1
    <2>6. Printed(n)'
      BY <1>1 DEF There, Printed, TimedOut
    <2>7. k \in 1..31 \ EDGES /\ k + 1 \in 1..31 \ EDGES
      BY <1>4 DEF EDGES
    <2>8. HandlerOk(k + 1)'
      BY <1>1, <1>4, <2>4 DEF There, HandlerOk
    <2>9. Timer(k + 1)'
      BY <1>1, <1>4, <2>4 DEF There, Timer
    <2>10. There(n, k + 1)'
      BY <2>4, <2>5, <2>6, <2>7, <2>8, <2>9, HandlerStep
    <2>11. Seen(n, k + 1)' = Seen(n, k)
      BY <1>1, <1>4, <2>4, <2>7, HandlerSilent DEF Missing, HOLDS
    <2> QED
      BY <2>3, <2>7, <2>10, <2>11 DEF Moved
  <1> QED
    BY <1>2, <1>3, <1>4

\* Moves between registers.
LEMMA MoveKeeps ==
  ASSUME NEW n \in 1..123, NEW k \in 0..31, There(n, k), SysOk, Lists(W(n, k)), pc = Addr(W(n, k)),
         ram[pc] = Image[W(n, k)], x \in RegisterFile, Move
  PROVE  SysOk' /\ Moved(n, k) /\ x' \in RegisterFile
  <1> DEFINE do == ram[pc].do
             digit == ((x[19] % 256) \div ram[pc].arg) % 16
             c == IF digit > 9 THEN digit + 87 ELSE digit + 48
  <1>1. /\ dev' = dev /\ ram[pc].op = "sys" /\ pc' = pc + 4
        /\ do \in {"nibble", "mov_x0_x19", "push", "pop"}
    BY DEF Move, At, Fetched, Goes
  <1>2. 19 \in REGS /\ 1 \in REGS /\ 0 \in REGS
    BY Stage4Assumption
  <1>3. MoveWord(W(n, k))
    BY <1>1, Kinds
  <1>4. CASE do = "nibble"
    <2>1. k = 0 /\ ((n = 111 /\ ram[pc].arg = 16) \/ (n = 113 /\ ram[pc].arg = 1))
      <3>1. \/ W(n, k) = 111 /\ ram[pc] = Sys("nibble", 16)
            \/ W(n, k) = 113 /\ ram[pc] = Sys("nibble", 1)
        BY <1>3, <1>4 DEF MoveWord, Sys
      <3>2. W(n, k) < 126 => k = 0 /\ W(n, k) = n
        BY DEF W
      <3>3. W(n, k) < 126
        BY <3>1
      <3>4. ram[pc] = Sys("nibble", 16) => ram[pc].arg = 16
        BY DEF Sys
      <3>5. ram[pc] = Sys("nibble", 1) => ram[pc].arg = 1
        BY DEF Sys
      <3> QED
        BY <3>1, <3>2, <3>3, <3>4, <3>5
    <2>2. sys' = sys /\ x' = [x EXCEPT ![0] = c]
      BY <1>4 DEF Move, Goes
    <2>3. x[19] = 42
      BY <2>1 DEF There, ProgramOk, OwnX, VINTID
    <2>4. c = Byte(n + 1)
      <3>1. CASE n = 111
        <4>1. digit = 2
          BY <2>1, <2>3, <3>1
        <4>2. c = 50
          BY <4>1
        <4>3. n + 1 = 112
          BY <3>1
        <4> HIDE DEF c
        <4> QED
          BY <4>2, <4>3 DEF Byte
      <3>2. CASE n = 113
        <4>1. digit = 10
          BY <2>1, <2>3, <3>2
        <4>2. c = 97
          BY <4>1
        <4>3. n + 1 = 114
          BY <3>2
        <4> HIDE DEF c
        <4> QED
          BY <4>2, <4>3 DEF Byte
      <3> QED
        BY <2>1, <3>1, <3>2
    <2>5. c \in Int
      <3>1. digit \in Int
        BY <2>1, <2>3
      <3> QED
        BY <3>1
    <2> HIDE DEF c
    <2>6. x' \in RegisterFile /\ x'[0] = Byte(n + 1) /\ x'[1] = x[1] /\ x'[19] = x[19]
      BY <1>2, <2>2, <2>4, <2>5 DEF RegisterFile
    <2>7. SysOk'
      BY <2>2 DEF SysOk
    <2>8. ProgramOk(n + 1, x', sys'.masked)
      BY <2>1, <2>2, <2>6 DEF There, ProgramOk, OwnX, OwnMask
    <2>9. SetUp(n + 1)'
      BY <2>1, <2>2 DEF There, SetUp
    <2>10. There(n + 1, 0)' /\ Seen(n + 1, 0)' = Seen(n, k)
      <3>1. n \in 1..122 /\ n \notin SAYS /\ n # 93
        BY <2>1 DEF SAYS
      <3> QED
        BY <1>1, <2>1, <2>2, <2>8, <2>9, <3>1, ProgramStep
    <2>11. n + 1 \in 1..123 /\ 0 \in 0..31
      BY <2>1
    <2> QED
      BY <2>6, <2>7, <2>10, <2>11 DEF Moved
  <1>5. CASE do = "mov_x0_x19"
    <2>1. k = 17
      BY <1>3, <1>5 DEF MoveWord, W, Sys
    <2>2. sys' = sys /\ x' = [x EXCEPT ![0] = x[19]]
      BY <1>5 DEF Move, Goes
    <2>3. x' \in RegisterFile /\ x'[0] = x[19] /\ x'[1] = x[1] /\ x'[19] = x[19]
      BY <1>2, <2>2 DEF RegisterFile
    <2>4. SysOk'
      BY <2>2 DEF SysOk
    <2>5. 17 \in 1..31 \ EDGES /\ 18 \in 1..31 \ EDGES /\ There(n, 17)
      BY <2>1 DEF EDGES
    <2>6. HandlerOk(18)' /\ Timer(18)'
      BY <2>2, <2>3, <2>5 DEF There, HandlerOk, Timer
    <2>7. pc' = Addr(126 + 18)
      BY <1>1, <2>1, AddrStep DEF W
    <2>8. Seen(n, 18)' = Seen(n, k)
      BY <1>1, <2>1, <2>2, <2>3, HandlerSilent DEF Missing, HOLDS
    <2>9. Moved(n, k)
      BY <1>1, <2>1, <2>2, <2>5, <2>6, <2>7, <2>8, QuietStep
    <2> QED
      BY <2>3, <2>4, <2>9
  <1>6. CASE do = "push"
    <2>1. k = 0 /\ n = 105
      BY <1>3, <1>6 DEF MoveWord, W, Sys
    <2>2. sys' = [sys EXCEPT !.stack = x] /\ x' = x
      BY <1>6 DEF Move, Goes
    <2>3. SysOk'
      BY <2>2 DEF SysOk
    <2>4. /\ sys'.el = sys.el /\ sys'.masked = sys.masked /\ sys'.imo = sys.imo /\ sys'.vbar = sys.vbar
          /\ sys'.elr = sys.elr /\ sys'.spsr = sys.spsr /\ sys'.on = sys.on
          /\ sys'.enabled = sys.enabled /\ sys'.pend = sys.pend /\ sys'.active = sys.active
          /\ sys'.lr0 = sys.lr0 /\ sys'.cnthp = sys.cnthp /\ sys'.count = sys.count
      BY <2>2 DEF SysOk
    <2>5. ProgramOk(106, x', sys'.masked)
      BY <2>1, <2>2, <2>4 DEF There, ProgramOk, OwnX, OwnMask, PUTS
    <2>6. SetUp(106)'
      BY <2>1, <2>4 DEF There, SetUp
    <2>7. There(106, 0)' /\ Seen(106, 0)' = Seen(n, k)
      BY <1>1, <2>1, <2>4, <2>5, <2>6, ProgramStep DEF SAYS
    <2> QED
      BY <2>2, <2>3, <2>7 DEF Moved
  <1>7. do # "pop"
    BY <1>3 DEF MoveWord, W, Sys
  <1> QED
    BY <1>1, <1>4, <1>5, <1>6, <1>7

\* SAVE_CTX: the frame has what the program had.
LEMMA SaveKeeps ==
  ASSUME NEW n \in 1..123, NEW k \in 0..31, There(n, k), SysOk, Lists(W(n, k)), pc = Addr(W(n, k)),
         ram[pc] = Image[W(n, k)], x \in RegisterFile, SAVE_CTX
  PROVE  SysOk' /\ Moved(n, k)
  <1> DEFINE saved == [elr |-> sys.elr[2], spsr |-> sys.spsr[2], x |-> x]
  <1>1. /\ dev' = dev /\ x' = x /\ ram[pc].op = "sys" /\ ram[pc].do = "save_ctx" /\ pc' = pc + 4
        /\ sys' = [sys EXCEPT !.frame = saved]
    BY DEF SAVE_CTX, At, Fetched, Goes
  <1>2. k = 1
    BY <1>1, Kinds DEF OtherWord, W, Sys
  <1>3. /\ saved \in [elr : Int, spsr : BOOLEAN, x : RegisterFile]
        /\ saved.elr = sys.elr[2] /\ saved.spsr = sys.spsr[2] /\ saved.x = x
    <2>1. sys.elr[2] \in Int /\ sys.spsr[2] \in BOOLEAN
      BY DEF SysOk
    <2> QED
      BY <2>1
  <1> HIDE DEF saved
  <1>4. SysOk'
    BY <1>1, <1>3 DEF SysOk
  <1>5. /\ sys'.el = sys.el /\ sys'.imo = sys.imo /\ sys'.vbar = sys.vbar /\ sys'.on = sys.on
        /\ sys'.enabled = sys.enabled /\ sys'.pend = sys.pend /\ sys'.active = sys.active
        /\ sys'.lr0 = sys.lr0 /\ sys'.cnthp = sys.cnthp /\ sys'.count = sys.count /\ sys'.frame = saved
    BY <1>1 DEF SysOk
  <1>6. Stands(n, 2)'
    <2>1. pc' = Addr(126 + 2)
      BY <1>1, <1>2, AddrStep DEF W
    <2> QED
      BY <1>2, <1>3, <1>5, <2>1 DEF There, Stands, EDGES
  <1>7. ProgramOk(n, OwnX(2), OwnMask(2))'
    BY <1>2, <1>3, <1>5 DEF There, ProgramOk, OwnX, OwnMask, EDGES
  <1>8. SetUp(n)'
    BY <1>2, <1>5 DEF There, Stands, SetUp
  <1>9. HandlerOk(2)' /\ Timer(2)'
    BY <1>2, <1>5 DEF There, HandlerOk, Timer
  <1>10. Printed(n)'
    BY <1>1 DEF There, Printed, TimedOut
  <1>11. There(n, 2)'
    BY <1>6, <1>7, <1>8, <1>9, <1>10 DEF There
  <1>12. Seen(n, 2)' = Seen(n, k)
    BY <1>1, <1>2, <1>5, HandlerSilent DEF Missing, HOLDS
  <1> QED
    BY <1>4, <1>11, <1>12 DEF Moved

\* RESTORE_CTX: the program has it back.
LEMMA RestoreKeeps ==
  ASSUME NEW n \in 1..123, NEW k \in 0..31, There(n, k), SysOk, Lists(W(n, k)), pc = Addr(W(n, k)),
         ram[pc] = Image[W(n, k)], RESTORE_CTX
  PROVE  SysOk' /\ Moved(n, k) /\ x' \in RegisterFile
  <1>1. /\ dev' = dev /\ x' = sys.frame.x /\ ram[pc].op = "sys" /\ ram[pc].do = "restore_ctx" /\ pc' = pc + 4
        /\ sys' = [sys EXCEPT !.elr[2] = sys.frame.elr, !.spsr[2] = sys.frame.spsr, !.frame = NoFrame]
    BY DEF RESTORE_CTX, At, Fetched, Goes
  <1>2. k \in {8, 28, 30}
    BY <1>1, Kinds DEF OtherWord, W, Sys
  <1>3. sys.frame.elr \in Int /\ sys.frame.spsr \in BOOLEAN /\ sys.frame.x \in RegisterFile
    BY DEF SysOk
  <1>4. NoFrame \in [elr : Int, spsr : BOOLEAN, x : RegisterFile]
    BY DEF NoFrame, RegisterFile
  <1>5. SysOk'
    BY <1>1, <1>3, <1>4 DEF SysOk
  <1>6. /\ sys'.el = sys.el /\ sys'.imo = sys.imo /\ sys'.vbar = sys.vbar /\ sys'.on = sys.on
        /\ sys'.enabled = sys.enabled /\ sys'.pend = sys.pend /\ sys'.active = sys.active
        /\ sys'.lr0 = sys.lr0 /\ sys'.cnthp = sys.cnthp /\ sys'.count = sys.count
        /\ sys'.elr[2] = sys.frame.elr /\ sys'.spsr[2] = sys.frame.spsr
    BY <1>1 DEF SysOk
  <1>7. Stands(n, k + 1)'
    <2>1. pc' = Addr(126 + (k + 1))
      <3>1. pc' = Addr(126 + k + 1)
        BY <1>1, <1>2, AddrStep DEF W
      <3> QED
        BY <3>1
    <2> QED
      BY <1>2, <1>6, <2>1 DEF There, Stands, EDGES
  <1>8. ProgramOk(n, OwnX(k + 1), OwnMask(k + 1))'
    BY <1>1, <1>2, <1>6 DEF There, ProgramOk, OwnX, OwnMask, EDGES
  <1>9. SetUp(n)'
    BY <1>2, <1>6 DEF There, Stands, SetUp
  <1>10. HandlerOk(k + 1)' /\ Timer(k + 1)'
    <2>1. sys.active = {}
      BY <1>2 DEF There, HandlerOk
    <2>2. HandlerOk(k + 1)'
      BY <1>2, <1>6, <2>1 DEF HandlerOk
    <2>3. Timer(k + 1)'
      BY <1>2, <1>6 DEF There, Timer
    <2> QED
      BY <2>2, <2>3
  <1>11. Printed(n)'
    BY <1>1 DEF There, Printed, TimedOut
  <1>12. There(n, k + 1)'
    BY <1>7, <1>8, <1>9, <1>10, <1>11 DEF There
  <1>13. k + 1 \in 0..31
    BY <1>2
  <1>14. Seen(n, k + 1)' = Seen(n, k)
    BY <1>1, <1>2, <1>6, <1>13, HandlerSilent DEF Missing, HOLDS
  <1> QED
    BY <1>1, <1>3, <1>5, <1>12, <1>13, <1>14 DEF Moved

\* Into the guest, for the first time or again.
LEMMA EretKeeps ==
  ASSUME NEW n \in 1..123, NEW k \in 0..31, There(n, k), SysOk, Lists(W(n, k)), pc = Addr(W(n, k)),
         ram[pc] = Image[W(n, k)], Eret
  PROVE  SysOk' /\ Moved(n, k) /\ pc' \in Int
  <1>1. /\ dev' = dev /\ x' = x /\ ram[pc].op = "sys" /\ ram[pc].do = "eret" /\ pc' = sys.elr[sys.el]
        /\ sys' = [sys EXCEPT !.el = 1, !.masked = sys.spsr[sys.el],
                              !.elr[sys.el] = 0, !.spsr[sys.el] = TRUE]
    BY DEF Eret, At, Fetched, Goes
  <1>2. (k = 0 /\ n = 93) \/ k \in {9, 29, 31}
    BY <1>1, Kinds DEF OtherWord, W, Sys
  <1>3. sys.el = 2
    BY <1>2 DEF There, Stands
  <1>4. /\ sys'.el = 1 /\ sys'.imo = sys.imo /\ sys'.vbar = sys.vbar /\ sys'.on = sys.on
        /\ sys'.enabled = sys.enabled /\ sys'.pend = sys.pend /\ sys'.active = sys.active
        /\ sys'.lr0 = sys.lr0 /\ sys'.cnthp = sys.cnthp /\ sys'.count = sys.count
        /\ sys'.masked = sys.spsr[2] /\ pc' = sys.elr[2]
    BY <1>1, <1>3 DEF SysOk
  <1>5. SysOk' /\ pc' \in Int
    <2>1. sys.elr \in [{1, 2} -> Int] /\ sys.spsr \in [{1, 2} -> BOOLEAN]
      BY DEF SysOk
    <2> DEFINE b == sys.spsr[2]
               elr == [sys.elr EXCEPT ![2] = 0]
               spsr == [sys.spsr EXCEPT ![2] = TRUE]
    <2>2. sys' = [sys EXCEPT !.el = 1, !.masked = b, !.elr = elr, !.spsr = spsr]
      BY <1>1, <1>3
    <2>3. b \in BOOLEAN /\ elr \in [{1, 2} -> Int] /\ spsr \in [{1, 2} -> BOOLEAN]
      BY <2>1
    <2> HIDE DEF b, elr, spsr
    <2>4. SysOk'
      BY <2>2, <2>3 DEF SysOk
    <2>5. pc' \in Int
      BY <1>4, <2>1
    <2> QED
      BY <2>4, <2>5
  <1>6. CASE k = 0
    <2>1. n = 93 /\ pc' = Addr(94) /\ sys'.masked
      BY <1>2, <1>4, <1>6 DEF There, SetUp
    <2>2. Stands(94, 0)'
      BY <1>4, <2>1 DEF Stands
    <2>3. ProgramOk(94, OwnX(0), OwnMask(0))'
      BY <1>1, <1>6, <2>1 DEF There, ProgramOk, OwnX, OwnMask, PUTS
    <2>4. SetUp(94)'
      BY <1>4, <1>6, <2>1 DEF There, SetUp
    <2>5. HandlerOk(0)' /\ Timer(0)'
      BY <1>4, <1>6, IdleKept DEF There
    <2>6. Printed(94)'
      BY <1>1, <2>1 DEF There, Printed
    <2>7. There(94, 0)'
      BY <2>2, <2>3, <2>4, <2>5, <2>6 DEF There
    <2>8. Seen(94, 0)' = Seen(n, k)
      <3>1. Said(94)' = Said(93)
        <4>1. \A p \in SAYS : p < 94 <=> p < 93
          BY DEF SAYS
        <4> QED
          BY <1>1, <4>1, SaidKept
      <3>2. Due(0)' = Due(0) /\ Intid(0)' = Intid(0)
        BY <1>4 DEF Due, Intid, HOLDS
      <3> QED
        BY <1>6, <2>1, <3>1, <3>2 DEF Seen
    <2> QED
      BY <1>5, <2>7, <2>8 DEF Moved
  <1>7. CASE k \in {9, 29, 31}
    <2>1. n >= 94 /\ pc' = Addr(n) /\ sys'.masked = OwnMask(k) /\ OwnX(k) = x
      BY <1>4, <1>7 DEF There, Stands, OwnMask, OwnX, EDGES
    <2>2. Stands(n, 0)'
      BY <1>4, <2>1 DEF Stands
    <2>3. ProgramOk(n, OwnX(0), OwnMask(0))'
      BY <1>1, <2>1 DEF There, ProgramOk, OwnX, OwnMask
    <2>4. SetUp(n)'
      BY <1>4, <2>1 DEF There, SetUp
    <2>5. HandlerOk(0)' /\ Timer(0)'
      BY <1>4, <1>7 DEF There, HandlerOk, Timer
    <2>6. Printed(n)'
      BY <1>1 DEF There, Printed, TimedOut
    <2>7. There(n, 0)'
      BY <2>2, <2>3, <2>4, <2>5, <2>6 DEF There
    <2>8. Seen(n, 0)' = Seen(n, k)
      BY <1>1, <1>4, <1>7, HandlerSilent DEF Missing, HOLDS
    <2> QED
      BY <1>5, <2>7, <2>8 DEF Moved
  <1> QED
    BY <1>2, <1>6, <1>7

\* The IRQ that the launcher pended, at whatever word of the guest.
LEMMA TakePirqKeeps ==
  ASSUME NEW n \in 1..123, NEW k \in 0..31, There(n, k), SysOk, pc \in Int, TakePirq, Entries
  PROVE  SysOk' /\ Moved(n, k) /\ pc' \in Int
  <1>1. /\ dev' = dev /\ x' = x /\ sys.el = 1 /\ pc' = VECTOR_EL2
        /\ sys' = [sys EXCEPT !.el = 2, !.masked = TRUE, !.elr[2] = pc, !.spsr[2] = sys.masked]
    BY DEF TakePirq, Take, Goes
  <1>2. k = 0 /\ n >= 94 /\ pc = Addr(n)
    BY <1>1 DEF There, Stands
  <1>3. pc' = Addr(126 + 1) /\ pc' \in Int
    BY <1>1, AddrStep DEF Entries
  <1>4. sys.elr \in [{1, 2} -> Int] /\ sys.spsr \in [{1, 2} -> BOOLEAN] /\ sys.masked \in BOOLEAN
    BY DEF SysOk
  <1> DEFINE elr == [sys.elr EXCEPT ![2] = pc]
             spsr == [sys.spsr EXCEPT ![2] = sys.masked]
  <1>5. sys' = [sys EXCEPT !.el = 2, !.masked = TRUE, !.elr = elr, !.spsr = spsr]
    BY <1>1
  <1>6. elr \in [{1, 2} -> Int] /\ spsr \in [{1, 2} -> BOOLEAN] /\ elr[2] = pc /\ spsr[2] = sys.masked
    BY <1>4
  <1> HIDE DEF elr, spsr
  <1>7. SysOk'
    BY <1>5, <1>6 DEF SysOk
  <1>8. /\ sys'.el = 2 /\ sys'.imo = sys.imo /\ sys'.vbar = sys.vbar /\ sys'.on = sys.on
        /\ sys'.enabled = sys.enabled /\ sys'.pend = sys.pend /\ sys'.active = sys.active
        /\ sys'.lr0 = sys.lr0 /\ sys'.cnthp = sys.cnthp /\ sys'.count = sys.count
        /\ sys'.elr = elr /\ sys'.spsr = spsr
    BY <1>5 DEF SysOk
  <1>9. Stands(n, 1)'
    BY <1>2, <1>3, <1>6, <1>8 DEF Stands, EDGES
  <1>10. ProgramOk(n, OwnX(1), OwnMask(1))'
    BY <1>1, <1>2, <1>6, <1>8 DEF There, ProgramOk, OwnX, OwnMask, EDGES
  <1>11. SetUp(n)'
    <2>1. SetUp(n) /\ n # 93
      BY <1>2 DEF There
    <2>2. sys'.imo = sys.imo /\ sys'.vbar = sys.vbar /\ sys'.on = sys.on /\ sys'.lr0 = sys.lr0
      BY <1>8
    <2> QED
      BY <2>1, <2>2 DEF SetUp
  <1>12. HandlerOk(1)' /\ Timer(1)'
    BY <1>2, <1>8 DEF There, HandlerOk, Timer
  <1>13. Printed(n)'
    BY <1>1 DEF There, Printed, TimedOut
  <1>14. There(n, 1)'
    BY <1>9, <1>10, <1>11, <1>12, <1>13 DEF There
  <1>15. Seen(n, 1)' = Seen(n, k)
    BY <1>1, <1>2, <1>8, HandlerSilent DEF Missing, HOLDS
  <1> QED
    BY <1>3, <1>7, <1>14, <1>15 DEF Moved

\* The virtual interrupt, in the guest's wfe, the only place with interrupts
\* unmasked.
LEMMA TakeVirqKeeps ==
  ASSUME NEW n \in 1..123, NEW k \in 0..31, There(n, k), SysOk, pc \in Int, TakeVirq
  PROVE  SysOk' /\ Moved(n, k) /\ pc' \in Int
  <1>1. /\ dev' = dev /\ x' = x /\ sys.el = 1 /\ pc' = sys.vbar /\ ~sys.masked
        /\ sys' = [sys EXCEPT !.el = 1, !.masked = TRUE, !.elr[1] = pc, !.spsr[1] = sys.masked]
    BY DEF TakeVirq, Take, Goes
  <1>2. k = 0 /\ n = 104
    BY <1>1 DEF There, Stands, ProgramOk, OwnMask
  <1>3. pc' = Addr(105) /\ pc' \in Int
    BY <1>1, <1>2, AddrStep DEF There, SetUp
  <1>4. sys.elr \in [{1, 2} -> Int] /\ sys.spsr \in [{1, 2} -> BOOLEAN] /\ sys.masked \in BOOLEAN
    BY DEF SysOk
  <1> DEFINE elr == [sys.elr EXCEPT ![1] = pc]
             spsr == [sys.spsr EXCEPT ![1] = sys.masked]
  <1>5. sys' = [sys EXCEPT !.el = 1, !.masked = TRUE, !.elr = elr, !.spsr = spsr]
    BY <1>1
  <1>6. elr \in [{1, 2} -> Int] /\ spsr \in [{1, 2} -> BOOLEAN]
    BY <1>4
  <1> HIDE DEF elr, spsr
  <1>7. SysOk'
    BY <1>5, <1>6 DEF SysOk
  <1>8. /\ sys'.el = 1 /\ sys'.imo = sys.imo /\ sys'.vbar = sys.vbar /\ sys'.on = sys.on
        /\ sys'.enabled = sys.enabled /\ sys'.pend = sys.pend /\ sys'.active = sys.active
        /\ sys'.lr0 = sys.lr0 /\ sys'.cnthp = sys.cnthp /\ sys'.count = sys.count /\ sys'.masked = TRUE
    BY <1>5 DEF SysOk
  <1>9. Stands(105, 0)'
    BY <1>3, <1>8 DEF Stands
  <1>10. ProgramOk(105, OwnX(0), OwnMask(0))'
    BY <1>1, <1>2, <1>8 DEF There, ProgramOk, OwnX, OwnMask, PUTS
  <1>11. SetUp(105)'
    BY <1>2, <1>8 DEF There, SetUp
  <1>12. HandlerOk(0)' /\ Timer(0)'
    BY <1>2, <1>8, IdleKept DEF There
  <1>13. Printed(105)'
    BY <1>1, <1>2 DEF There, Printed
  <1>14. There(105, 0)'
    BY <1>9, <1>10, <1>11, <1>12, <1>13 DEF There
  <1>15. Seen(105, 0)' = Seen(n, k)
    <2>1. Said(105)' = Said(104)
      <3>1. \A p \in SAYS : p < 105 <=> p < 104
        BY DEF SAYS
      <3> QED
        BY <1>1, <3>1, SaidKept
    <2>2. Due(0)' = Due(0) /\ Intid(0)' = Intid(0)
      BY <1>8 DEF Due, Intid, HOLDS
    <2> QED
      BY <1>2, <2>1, <2>2 DEF Seen
  <1> QED
    BY <1>3, <1>7, <1>14, <1>15 DEF Moved

\* The timer and the redistributor.
LEMMA TimeKeeps ==
  ASSUME SysOk, CnthpFires \/ GicrWakes
  PROVE  /\ SysOk' /\ UNCHANGED vars
         /\ \A n \in 1..123, k \in 0..31 : There(n, k) => There(n, k)' /\ Seen(n, k)' = Seen(n, k)
         /\ Booting => Booting'
  <1>1. UNCHANGED vars
    BY DEF CnthpFires, GicrWakes
  <1>2. UNCHANGED <<host, pc, x, dev>>
    BY <1>1 DEF vars
  <1>3. /\ SysOk'
        /\ sys'.el = sys.el /\ sys'.masked = sys.masked /\ sys'.imo = sys.imo /\ sys'.vbar = sys.vbar
        /\ sys'.elr = sys.elr /\ sys'.spsr = sys.spsr /\ sys'.on = sys.on
        /\ sys'.enabled = sys.enabled /\ sys'.pend = sys.pend /\ sys'.active = sys.active
        /\ sys'.lr0 = sys.lr0 /\ sys'.count = sys.count /\ sys'.frame = sys.frame
        /\ sys'.cnthp = sys.cnthp \/ (sys.cnthp = "armed" /\ sys'.cnthp = "due")
    <2>1. CASE CnthpFires
      BY <2>1 DEF CnthpFires, SysOk
    <2>2. CASE GicrWakes
      BY <2>2 DEF GicrWakes, SysOk
    <2> QED
      BY <2>1, <2>2
  <1>4. ASSUME NEW n \in 1..123, NEW k \in 0..31, There(n, k)
        PROVE  There(n, k)' /\ Seen(n, k)' = Seen(n, k)
    <2>1. Stands(n, k)'
      BY <1>2, <1>3, <1>4 DEF There, Stands
    <2>2. ProgramOk(n, OwnX(k), OwnMask(k))'
      BY <1>2, <1>3, <1>4 DEF There, ProgramOk, OwnX, OwnMask
    <2>3. SetUp(n)'
      BY <1>3, <1>4 DEF There, SetUp
    <2>4. HandlerOk(k)'
      BY <1>2, <1>3, <1>4 DEF There, HandlerOk
    <2>5. Timer(k)'
      BY <1>2, <1>3, <1>4 DEF There, Timer
    <2>6. Printed(n)'
      BY <1>2, <1>4 DEF There, Printed, TimedOut
    <2>7. Seen(n, k)' = Seen(n, k)
      BY <1>2, <1>3, HandlerSilent
    <2> QED
      BY <2>1, <2>2, <2>3, <2>4, <2>5, <2>6, <2>7 DEF There
  <1>5. Booting => Booting'
    BY <1>2, <1>3 DEF Booting
  <1> QED
    BY <1>1, <1>3, <1>4, <1>5

-----------------------------------------------------------------------------
(* The loads, stores and moves, which the launcher sees.                   *)

\* What is in x0 at a store to the data register is a number.
LEMMA ByteTyped ==
  \A n \in PUTS \ {144} : Byte(n) \in Int
  BY DEF Byte, PUTS, HELLO, GIC_INIT, TIMEOUT, PPI_ON, LR0_LOADED, BANNER, GOT_IRQ, DONE, UNEXPECTED, CR, LF

\* A load of the flag register into x2 changes nothing else.
LEMMA Loads ==
  ASSUME NEW i, i = Uart("ldr", 2, UARTFR), NEW xs \in RegisterFile, NEW pl
  PROVE  /\ Accessed(i, xs, pl).dev = pl
         /\ Accessed(i, xs, pl).x[0] = xs[0] /\ Accessed(i, xs, pl).x[1] = xs[1]
         /\ Accessed(i, xs, pl).x[19] = xs[19]
  <1>1. i.op = "ldr" /\ i.rt = 2 /\ i.mode = "scaled"
    BY DEF Uart
  <1>2. {0, 1, 19} \subseteq DOMAIN xs
    BY Stage4Assumption DEF RegisterFile
  <1>3. ~Indexed(i)
    BY <1>1 DEF Indexed
  <1> QED
    BY <1>1, <1>2, <1>3 DEF Accessed

\* A store from x0 leaves the registers alone and writes to the device register
\* at its offset.
LEMMA Stores ==
  ASSUME NEW off \in {UARTDR, UARTICR} \cup STORED, NEW i, i = Uart("str", 0, off),
         NEW xs \in RegisterFile, xs[1] = PL011_BASE, NEW pl
  PROVE  /\ Accessed(i, xs, pl).x = xs
         /\ Accessed(i, xs, pl).dev = pl011_write(pl, off, Masked(xs[0], 2))
  <1>1. i.op = "str" /\ i.rt = 0 /\ i.mode = "scaled" /\ i.size = 2 /\ i.rn = 1 /\ i.imm = off \div 4
    BY DEF Uart
  <1>2. off \in Int /\ (off \div 4) * 4 = off
    BY DEF STORED, UARTDR, UARTICR, UARTCR, UARTLCR_H, UARTIBRD, UARTFBRD, UARTIMSC
  <1>3. Address(i, xs) = PL011_BASE + off
    <2>1. Address(i, xs) = xs[1] + (off \div 4) * 2^2
      BY <1>1 DEF Address
    <2>2. 2^2 = 4
      OBVIOUS
    <2> QED
      BY <1>2, <2>1, <2>2 DEF PL011_BASE
  <1>4. Address(i, xs) - PL011_BASE = off
    BY <1>2, <1>3 DEF PL011_BASE
  <1>5. ~Indexed(i)
    BY <1>1 DEF Indexed
  <1>6. Accessed(i, xs, pl).x = xs
    BY <1>1, <1>5 DEF Accessed, RegisterFile
  <1>7. Accessed(i, xs, pl).dev = pl011_write(pl, off, Masked(xs[0], 2))
    BY <1>1, <1>4 DEF Accessed
  <1> QED
    BY <1>6, <1>7

\* Only a store to the data register prints.
LEMMA PrintsOnly ==
  ASSUME NEW pl \in Device, NEW v
  PROVE  /\ pl011_write(pl, UARTDR, v).out = Append(pl.out, v % BYTE)
         /\ \A off \in {UARTICR} \cup STORED : pl011_write(pl, off, v).out = pl.out
  <1>1. pl011_write(pl, UARTDR, v).out = Append(pl.out, v % BYTE)
    <2>1. UARTDR \notin STORED /\ UARTDR # UARTICR
      BY DEF STORED, UARTDR, UARTICR, UARTCR, UARTLCR_H, UARTIBRD, UARTFBRD, UARTIMSC
    <2>2. pl011_write(pl, UARTDR, v) = [pl EXCEPT !.out = Append(@, v % BYTE)]
      BY <2>1 DEF pl011_write
    <2> QED
      BY <2>2 DEF Device
  <1>2. ASSUME NEW off \in {UARTICR} \cup STORED
        PROVE  pl011_write(pl, off, v).out = pl.out
    <2>1. off # UARTDR /\ UARTICR \notin STORED
      BY DEF STORED, UARTDR, UARTICR, UARTCR, UARTLCR_H, UARTIBRD, UARTFBRD, UARTIMSC
    <2>2. CASE off \in STORED
      BY <2>1, <2>2 DEF pl011_write, Device
    <2>3. CASE off = UARTICR
      BY <2>1, <2>3 DEF pl011_write, Device
    <2> QED
      BY <2>2, <2>3
  <1> QED
    BY <1>1, <1>2

\* A step of the program over a word that sets nothing up and prints nothing.
LEMMA PlainStep ==
  ASSUME NEW n \in 1..122, There(n, 0), n \notin SAYS,
         n \notin {76, 77, 78, 79, 92, 93, 94, 103, 104, 107, 117},
         pc' = pc + 4, dev'.out = dev.out, sys' = sys,
         x' \in RegisterFile, x'[1] = PL011_BASE, x'[19] = x[19], n + 1 \in PUTS => x'[0] = Byte(n + 1)
  PROVE  Moved(n, 0)
  <1>1. ProgramOk(n + 1, x', sys'.masked)
    BY DEF There, ProgramOk, OwnX, OwnMask
  <1>2. SetUp(n + 1)'
    BY DEF There, SetUp
  <1>3. n \notin {19, 23, 27, 31, 35, 39, 43, 50, 67, 93}
    BY DEF SAYS
  <1>4. There(n + 1, 0)' /\ Seen(n + 1, 0)' = Seen(n, 0)
    BY <1>1, <1>2, <1>3, ProgramStep
  <1>5. n + 1 \in 1..123 /\ 0 \in 0..31
    OBVIOUS
  <1> QED
    BY <1>4, <1>5 DEF Moved

\* A step of the handler between SAVE_CTX and RESTORE_CTX that prints nothing.
LEMMA NextStep ==
  ASSUME NEW n \in 1..123, NEW k \in {10, 11, 13, 15, 19, 21, 23, 25}, There(n, k), pc = Addr(126 + k),
         pc' = pc + 4, dev'.out = dev.out, sys' = sys,
         x' \in RegisterFile, x'[1] = PL011_BASE, x'[19] = x[19],
         k \in {13, 21, 25} => x'[0] = Byte(126 + k + 1)
  PROVE  Moved(n, k)
  <1>1. pc' = Addr(126 + (k + 1))
    <2>1. pc' = Addr(126 + k + 1)
      BY AddrStep
    <2> QED
      BY <2>1
  <1>2. k \in 1..31 \ EDGES /\ k + 1 \in 1..31 \ EDGES /\ k + 1 \in 0..31
    BY DEF EDGES
  <1>3. Printed(n)'
    BY DEF There, Printed, TimedOut
  <1>4. HandlerOk(k + 1)'
    BY DEF There, HandlerOk
  <1>5. Timer(k + 1)'
    BY DEF There, Timer
  <1>6. There(n, k + 1)'
    BY <1>1, <1>2, <1>3, <1>4, <1>5, HandlerStep
  <1>7. Seen(n, k + 1)' = Seen(n, k)
    BY HandlerSilent DEF Missing, HOLDS
  <1> QED
    BY <1>2, <1>6, <1>7 DEF Moved

\* Where moves are, and where they go.
LEMMA MovKeeps ==
  ASSUME NEW n \in 1..123, NEW k \in 0..31, There(n, k), Lists(W(n, k)), pc = Addr(W(n, k)),
         ram[pc] = Image[W(n, k)], ram[pc].op = "mov", x \in RegisterFile,
         x' = [x EXCEPT ![ram[pc].rd] = ram[pc].val], pc' = pc + 4, dev' = dev, sys' = sys
  PROVE  Moved(n, k)
  <1> DEFINE w == W(n, k)
  <1>1. 19 \in REGS /\ 1 \in REGS /\ 0 \in REGS
    BY Stage4Assumption
  <1>2. \/ w + 1 \in PUTS \ {112, 114, 144} /\ ram[pc] = MovTo(0, Byte(w + 1))
        \/ w \in {1, 98, 106, 136} /\ ram[pc] = MovTo(1, PL011_BASE)
        \/ w \in {2, 4, 6, 8, 10, 12, 14} /\ \E v \in {0, 3, 26, \h70, \h301, \h7ff} : ram[pc] = MovTo(0, v)
    <2>1. ~SysWord(w)
      BY SysIs
    <2> QED
      BY <2>1, Ops DEF Lists, PlainWord
  <1>3. k = 0 => w = n /\ w <= 123
    BY DEF W
  <1>4. k # 0 => w = 126 + k /\ w >= 127
    BY DEF W
  <1> HIDE DEF w
  <1>5. CASE k = 0
    <2>1. n \notin SAYS \cup {76, 77, 78, 79, 92, 93, 94, 103, 104, 107, 117, 123}
      BY <1>2, <1>3, <1>5 DEF SAYS, PUTS
    <2>2. x' \in RegisterFile /\ x'[1] = PL011_BASE /\ x'[19] = x[19]
      <3>1. n = 1 \/ x[1] = PL011_BASE
        BY <1>5 DEF There, ProgramOk, OwnX
      <3>2. ASSUME NEW v \in Int, ram[pc] = MovTo(0, v), n # 1
            PROVE  x' \in RegisterFile /\ x'[1] = PL011_BASE /\ x'[19] = x[19]
        BY <1>1, <3>1, <3>2, Ops DEF RegisterFile
      <3>3. ASSUME ram[pc] = MovTo(1, PL011_BASE)
            PROVE  x' \in RegisterFile /\ x'[1] = PL011_BASE /\ x'[19] = x[19]
        BY <1>1, <3>3, Ops DEF RegisterFile, PL011_BASE
      <3>4. w + 1 \in PUTS \ {112, 114, 144} => Byte(w + 1) \in Int
        BY ByteTyped
      <3>5. n = 1 => w + 1 \notin PUTS
        BY <1>3, <1>5 DEF PUTS
      <3>6. CASE \E v \in Int : ram[pc] = MovTo(0, v) /\ n # 1
        BY <3>2, <3>6
      <3>7. CASE ram[pc] = MovTo(1, PL011_BASE)
        BY <3>3, <3>7
      <3>8. {0, 3, 26, \h70, \h301, \h7ff} \subseteq Int
        OBVIOUS
      <3> QED
        BY <1>2, <1>3, <1>5, <3>4, <3>5, <3>6, <3>7, <3>8
    <2>3. n + 1 \in PUTS => x'[0] = Byte(n + 1)
      <3>1. n + 1 \in PUTS => ram[pc] = MovTo(0, Byte(n + 1))
        BY <1>2, <1>3, <1>5 DEF PUTS
      <3> QED
        BY <1>1, <3>1, Ops DEF RegisterFile
    <2>4. n \in 1..122
      BY <2>1
    <2> QED
      BY <1>5, <2>1, <2>2, <2>3, <2>4, PlainStep
  <1>6. CASE k # 0
    <2>1. k \in {10, 13, 21, 25} /\ pc = Addr(126 + k)
      BY <1>2, <1>4, <1>6 DEF PUTS, W
    <2>2. \/ k = 10 /\ ram[pc] = MovTo(1, PL011_BASE)
          \/ k \in {13, 21, 25} /\ ram[pc] = MovTo(0, Byte(126 + k + 1)) /\ Byte(126 + k + 1) \in Int
      <3>1. k = 10 => ram[pc] = MovTo(1, PL011_BASE)
        BY <1>2, <1>4, <1>6 DEF PUTS
      <3>2. k # 10 => ram[pc] = MovTo(0, Byte(126 + k + 1))
        BY <1>2, <1>4, <1>6, <2>1
      <3>3. k # 10 => Byte(126 + k + 1) \in Int
        BY <2>1, ByteTyped DEF PUTS
      <3> QED
        BY <2>1, <3>1, <3>2, <3>3
    <2>3. k # 10 => x[1] = PL011_BASE
      BY <2>1 DEF There, HandlerOk
    <2>4. /\ x' \in RegisterFile /\ x'[1] = PL011_BASE /\ x'[19] = x[19]
          /\ k \in {13, 21, 25} => x'[0] = Byte(126 + k + 1)
      BY <1>1, <2>2, <2>3, Ops DEF RegisterFile, PL011_BASE
    <2> QED
      BY <2>1, <2>4, NextStep
  <1> QED
    BY <1>5, <1>6

\* Where loads and stores are.
LEMMA IsAccessWord ==
  ASSUME NEW w, Lists(w), Image[w].op \in {"ldr", "str"}
  PROVE  \/ w \in POLLS /\ Image[w] = Uart("ldr", 2, UARTFR)
         \/ w \in PUTS /\ Image[w] = Uart("str", 0, UARTDR)
         \/ /\ w \in {3, 5, 7, 9, 11, 13, 15}
            /\ \E reg \in STORED \cup {UARTICR} : Image[w] = Uart("str", 0, reg)
  <1>1. ~SysWord(w)
    BY SysIs
  <1>2. PlainWord(w)
    BY <1>1 DEF Lists
  <1> QED
    BY <1>2, Ops DEF PlainWord

\* The bytes of the program, as far as the time-out line matters.
LEMMA PrintedSays ==
  ASSUME NEW n \in SAYS, Printed(n), dev.out \in Seq(Int), dev'.out = Append(dev.out, Byte(n))
  PROVE  Printed(n + 1)'
  <1>1. /\ Len(dev'.out) = Len(dev.out) + 1 /\ Len(dev.out) \in Nat
        /\ \A i \in 1..Len(dev.out) : dev'.out[i] = dev.out[i]
        /\ dev'.out[Len(dev.out) + 1] = Byte(n)
    <2>1. Byte(n) \in Int
      <3>1. n \in PUTS \ {144}
        BY DEF SAYS, PUTS
      <3> QED
        BY <3>1, ByteTyped
    <2> QED
      BY <2>1
  <1>2. TimedOut => TimedOut'
    BY <1>1 DEF TimedOut
  <1>3. CASE n \in {19, 23, 27, 31, 35, 39, 43}
    BY <1>1, <1>3 DEF Printed, Passed
  <1>4. CASE n = 50
    <2>1. Len(dev.out) = 7
      BY <1>4 DEF Printed, Passed
    <2>2. Byte(n) = TIMEOUT
      BY <1>4 DEF Byte
    <2>3. TimedOut'
      BY <1>1, <2>1, <2>2 DEF TimedOut
    <2> QED
      BY <1>4, <2>3 DEF Printed
  <1>5. CASE n \in {54, 58}
    BY <1>2, <1>5 DEF Printed
  <1>6. CASE n >= 67
    <2>1. Len(dev.out) >= 7
      BY <1>6 DEF Printed, TimedOut, SAYS
    <2> QED
      BY <1>1, <1>6, <2>1 DEF Printed, SAYS
  <1> QED
    BY <1>3, <1>4, <1>5, <1>6 DEF SAYS

\* The program prints a byte.
LEMMA SayKeeps ==
  ASSUME NEW n \in SAYS, There(n, 0), SysOk, dev \in Device,
         pc' = pc + 4, x' = x, sys' = sys, dev'.out = Append(dev.out, Byte(n))
  PROVE  There(n + 1, 0)' /\ n \in 1..122
  <1>1. n \in 19..121 /\ n \notin {76, 77, 78, 79, 92, 93, 94, 103, 104, 107, 117} /\ n + 1 \notin PUTS
    BY DEF SAYS, PUTS
  <1>2. pc = Addr(n) /\ sys.el = IF n >= 94 THEN 1 ELSE 2
    BY DEF There, Stands
  <1>3. Stands(n + 1, 0)'
    <2>1. pc' = Addr(n + 1)
      BY <1>1, <1>2, AddrStep
    <2>2. sys'.el = IF n + 1 >= 94 THEN 1 ELSE 2
      BY <1>1, <1>2
    <2> QED
      BY <2>1, <2>2 DEF Stands
  <1>4. ProgramOk(n + 1, OwnX(0), OwnMask(0))'
    <2>1. ProgramOk(n, x, sys.masked)
      BY DEF There, OwnX, OwnMask
    <2>2. ProgramOk(n + 1, x, sys.masked)
      BY <1>1, <2>1 DEF ProgramOk
    <2> QED
      BY <2>2 DEF ProgramOk, OwnX, OwnMask
  <1>5. SetUp(n + 1)'
    BY <1>1 DEF There, SetUp
  <1>6. HandlerOk(0)' /\ Timer(0)'
    BY IdleKept DEF There
  <1>7. Printed(n + 1)'
    BY PrintedSays DEF There, Device
  <1> QED
    BY <1>1, <1>3, <1>4, <1>5, <1>6, <1>7 DEF There

\* The handler prints a byte.
LEMMA NoticeKeeps ==
  ASSUME NEW n \in 1..123, NEW k \in {14, 18, 22, 26}, There(n, k), dev \in Device, pc = Addr(126 + k),
         pc' = pc + 4, x' = x, sys' = sys, NEW v \in Int, dev'.out = Append(dev.out, v)
  PROVE  There(n, k + 1)'
  <1>1. pc' = Addr(126 + (k + 1))
    <2>1. pc' = Addr(126 + k + 1)
      BY AddrStep
    <2> QED
      BY <2>1
  <1>2. k \in 1..31 \ EDGES /\ k + 1 \in 1..31 \ EDGES
    BY DEF EDGES
  <1>3. Printed(n)'
    <2>1. n >= 94
      BY DEF There, Stands
    <2>2. Len(dev'.out) = Len(dev.out) + 1 /\ Len(dev.out) \in Nat
      BY DEF Device
    <2> QED
      BY <2>1, <2>2 DEF There, Printed
  <1>4. HandlerOk(k + 1)'
    <2>1. HandlerOk(k)
      BY DEF There
    <2>2. HandlerOk(k + 1)
      BY <2>1 DEF HandlerOk
    <2> QED
      BY <2>2 DEF HandlerOk
  <1>5. Timer(k + 1)'
    <2>1. Timer(k)
      BY DEF There
    <2>2. k + 1 \notin 3..7
      OBVIOUS
    <2>3. Timer(k + 1)
      BY <2>1, <2>2 DEF Timer
    <2> QED
      BY <2>3 DEF Timer
  <1> QED
    BY <1>1, <1>2, <1>3, <1>4, <1>5, HandlerStep

=============================================================================
