---------------------------- MODULE Stage4Proofs ----------------------------
(***************************************************************************)
(* Stage4, for every memory layout and set of interrupts left by reset:    *)
(* the invariant of all its steps, the launcher's included, and what       *)
(* follows.  The EL2 handler never returns to the guest with an interrupt  *)
(* active, and what the program and the handler print is what Console      *)
(* allows: the text, byte by byte and in order, with whole notices         *)
(* between.                                                                *)
(***************************************************************************)
EXTENDS Stage4Text, Stage4Code, HvfProofs

-----------------------------------------------------------------------------
(* The invariant.                                                          *)

\* The launcher's invariant and types, the system registers' types, the file
\* loaded, and either no word has run or the program and the handler are at
\* words whose conditions hold.
Stage4Inv == LauncherInv /\ Typed /\ SysOk /\ Loaded /\ (Booting \/ Running)

\* load_elf_into (hvf_main.c:114-142) has put the image where the linker script
\* has it.
LEMMA Memory ==
  ASSUME LauncherInv, Loaded, host \in {"loop", "guest", "exit"}, NEW m \in 1..157, pc = Addr(m)
  PROVE  pc \in RAM /\ ram[pc] = Image[m]
  <1>1. Len(Image) = 157
    BY ImageLayout DEF Piece
  <1>2. 157 <= RAM_WORDS
    BY <1>1, Stage4Assumption
  <1>3. pc \in RAM
    <2>1. m - 1 \in 0..(RAM_WORDS - 1)
      BY <1>2, RamAddress
    <2> QED
      BY <2>1, RamAddress DEF Addr
  <1>4. elf \in ELFS /\ seg \in Nat /\ seg - 1 = Len(elf.ph) /\ Len(elf.ph) \in Nat
    BY ElfAssumption DEF LauncherInv, Shape, Loaded
  <1>5. PICK k \in 1..(seg - 1) :
          /\ Covers(elf.ph[k], pc) /\ Word(elf.ph[k], pc) = Image[m]
          /\ \A j \in (k + 1)..(seg - 1) : ~Covers(elf.ph[j], pc)
    <2>1. m \in 1..Len(Image)
      BY <1>1
    <2>2. \E k \in 1..Len(elf.ph) :
            /\ Covers(elf.ph[k], Addr(m)) /\ Word(elf.ph[k], Addr(m)) = Image[m]
            /\ \A j \in (k + 1)..Len(elf.ph) : ~Covers(elf.ph[j], Addr(m))
      BY <1>4, <2>1, Stage4Assumption, Zenon
    <2> QED
      BY <1>4, <2>2
  <1>6. PICK n \in 1..(seg - 1) :
          /\ Covers(elf.ph[n], pc) /\ ram[pc] = Word(elf.ph[n], pc)
          /\ \A j \in (n + 1)..(seg - 1) : ~Covers(elf.ph[j], pc)
    BY <1>3, <1>5 DEF LauncherInv, ImageLoaded
  <1>7. n = k
    <2>1. ~(n < k) /\ ~(k < n)
      BY <1>4, <1>5, <1>6
    <2> QED
      BY <1>4, <2>1
  <1> QED
    BY <1>3, <1>5, <1>6, <1>7

\* The vCPU is always at a word of the listing.
LEMMA Here ==
  ASSUME Stage4Inv, host \in {"loop", "guest", "exit"}
  PROVE  \E n \in 1..123, k \in 0..31 :
           /\ There(n, k) /\ pc = Addr(W(n, k)) /\ W(n, k) \in 1..157
           /\ pc \in RAM /\ ram[pc] = Image[W(n, k)] /\ Lists(W(n, k))
  <1>1. PICK n \in 1..123, k \in 0..31 : There(n, k)
    BY DEF Stage4Inv, Booting, Running
  <1>2. pc = Addr(W(n, k)) /\ W(n, k) \in 1..157
    BY <1>1 DEF There, Stands, W
  <1>3. pc \in RAM /\ ram[pc] = Image[W(n, k)] /\ Lists(W(n, k))
    BY <1>2, Memory, Listing DEF Stage4Inv
  <1> QED
    BY <1>1, <1>2, <1>3

\* handle_data_abort's access: a poll, a set-up of the UART, or a byte.
LEMMA AccessKeeps ==
  ASSUME NEW n \in 1..123, NEW k \in 0..31, There(n, k), SysOk, Lists(W(n, k)), pc = Addr(W(n, k)),
         ram[pc] = Image[W(n, k)], ram[pc] \in Access, x \in RegisterFile, dev \in Device,
         x' = Accessed(ram[pc], x, dev).x, dev' = Accessed(ram[pc], x, dev).dev,
         pc' = pc + 4, sys' = sys
  PROVE  (dev'.out = dev.out /\ Moved(n, k)) \/ \E v : Emits(n, k, v)
  <1> DEFINE w == W(n, k)
             i == ram[pc]
  <1>1. \/ w \in POLLS /\ i = Uart("ldr", 2, UARTFR)
        \/ w \in PUTS /\ i = Uart("str", 0, UARTDR)
        \/ /\ w \in {3, 5, 7, 9, 11, 13, 15}
           /\ \E reg \in STORED \cup {UARTICR} : i = Uart("str", 0, reg)
    <2>1. i.op \in {"ldr", "str"}
      BY AccessFields
    <2> QED
      BY <2>1, IsAccessWord
  <1>2. k = 0 => w = n /\ w <= 123
    BY DEF W
  <1>3. k # 0 => w = 126 + k /\ w >= 127
    BY DEF W
  <1>4. pc = Addr(w)
    OBVIOUS
  <1>5. x' \in RegisterFile
    BY AccessedType
  <1> HIDE DEF w
  <1>6. CASE w \in POLLS /\ i = Uart("ldr", 2, UARTFR)
    <2>1. dev' = dev /\ x'[0] = x[0] /\ x'[1] = x[1] /\ x'[19] = x[19]
      BY <1>6, Loads
    <2>2. CASE k = 0
      <3>1. n \in 16..88 /\ n \notin SAYS /\ n + 1 \notin PUTS /\ n \notin {76, 77, 78, 79}
        BY <1>2, <1>6, <2>2 DEF POLLS, SAYS, PUTS
      <3>2. x'[1] = PL011_BASE
        BY <2>1, <2>2, <3>1 DEF There, ProgramOk, OwnX
      <3>3. Moved(n, 0)
        BY <1>5, <2>1, <2>2, <3>1, <3>2, PlainStep
      <3> QED
        BY <2>1, <2>2, <3>3
    <2>3. CASE k # 0
      <3>1. k \in {11, 15, 19, 23} /\ pc = Addr(126 + k)
        BY <1>3, <1>4, <1>6, <2>3 DEF POLLS
      <3>2. x'[1] = PL011_BASE
        BY <2>1, <3>1 DEF There, HandlerOk
      <3>3. Moved(n, k)
        <4>1. k \in {10, 11, 13, 15, 19, 21, 23, 25} /\ k \notin {13, 21, 25} /\ dev'.out = dev.out
          BY <2>1, <3>1
        <4> QED
          BY <1>5, <2>1, <3>1, <3>2, <4>1, NextStep
      <3> QED
        BY <2>1, <3>3
    <2> QED
      BY <2>2, <2>3
  <1>7. CASE w \in {3, 5, 7, 9, 11, 13, 15} /\ \E reg \in STORED \cup {UARTICR} : i = Uart("str", 0, reg)
    <2>1. k = 0 /\ n \in {3, 5, 7, 9, 11, 13, 15}
      BY <1>2, <1>3, <1>7
    <2>2. x[1] = PL011_BASE
      BY <2>1 DEF There, ProgramOk, OwnX
    <2>3. x' = x /\ dev'.out = dev.out
      <3>1. PICK reg \in STORED \cup {UARTICR} : i = Uart("str", 0, reg)
        BY <1>7
      <3>2. x' = x /\ dev' = pl011_write(dev, reg, Masked(x[0], 2))
        BY <2>2, <3>1, Stores
      <3>3. \A v : pl011_write(dev, reg, v).out = dev.out
        BY <3>1, PrintsOnly
      <3> QED
        BY <3>2, <3>3, Zenon
    <2>4. n \in 1..122 /\ n \notin SAYS /\ n + 1 \notin PUTS /\ n \notin {76, 77, 78, 79, 92, 93, 94, 103, 104, 107, 117}
      BY <2>1 DEF SAYS, PUTS
    <2>5. Moved(n, 0)
      BY <2>1, <2>2, <2>3, <2>4, PlainStep
    <2> QED
      BY <2>1, <2>3, <2>5
  <1>8. CASE w \in PUTS /\ i = Uart("str", 0, UARTDR)
    <2>1. x[1] = PL011_BASE
      <3>1. CASE k = 0
        <4>1. n >= 2
          BY <1>2, <1>8, <3>1 DEF PUTS
        <4> QED
          BY <3>1, <4>1 DEF There, ProgramOk, OwnX
      <3>2. CASE k # 0
        <4>1. k \in 11..26
          BY <1>3, <1>8, <3>2 DEF PUTS
        <4> QED
          BY <4>1 DEF There, HandlerOk
      <3> QED
        BY <3>1, <3>2
    <2> DEFINE v == Masked(x[0], 2) % BYTE
    <2>2. x' = x /\ dev'.out = Append(dev.out, v)
      BY <1>8, <2>1, Stores, PrintsOnly
    <2>3. CASE k = 0
      <3>1. n \in SAYS /\ n \in PUTS \ {144}
        BY <1>2, <1>8, <2>3 DEF PUTS, SAYS
      <3>2. v = Byte(n)
        <4>1. x[0] = Byte(n)
          BY <2>3, <3>1 DEF There, ProgramOk, OwnX
        <4> QED
          BY <3>1, <4>1, ByteSmall
      <3> HIDE DEF v
      <3>3. There(n + 1, 0)'
        BY <2>2, <2>3, <3>1, <3>2, SayKeeps
      <3> QED
        BY <2>2, <2>3, <3>1, <3>2, <3>3 DEF Emits
    <2>4. CASE k # 0
      <3>1. k \in {14, 18, 22, 26} /\ pc = Addr(126 + k)
        BY <1>3, <1>4, <1>8, <2>4 DEF PUTS
      <3>2. CASE k \in {14, 22, 26}
        <4>1. v = Byte(126 + k) /\ v \in Int
          <5>1. x[0] = Byte(126 + k) /\ 126 + k \in PUTS \ {144}
            BY <3>2 DEF There, HandlerOk, PUTS
          <5> QED
            BY <5>1, ByteSmall
        <4> HIDE DEF v
        <4>2. There(n, k + 1)'
          BY <2>2, <3>1, <4>1, NoticeKeeps
        <4> QED
          BY <2>2, <3>2, <4>1, <4>2 DEF Emits
      <3>3. CASE k = 18
        <4>1. x[0] = x[19] /\ x[19] \in STRAY
          BY <3>3 DEF There, HandlerOk
        <4>2. v = x[19] % BYTE /\ v \in Int
          <5>1. x[19] \in Int /\ x[19] >= 0 /\ x[19] < 1020
            BY <4>1, StrayFacts
          <5>2. Masked(x[0], 2) = x[19]
            BY <4>1, <5>1, SmallMasked
          <5>3. BYTE \in Nat /\ BYTE > 0
            BY ByteAssumption
          <5> QED
            BY <5>1, <5>2, <5>3
        <4> HIDE DEF v
        <4>3. There(n, 18 + 1)'
          BY <2>2, <3>1, <3>3, <4>2, NoticeKeeps
        <4> QED
          BY <2>2, <3>3, <4>2, <4>3 DEF Emits
      <3> QED
        BY <3>1, <3>2, <3>3
    <2> QED
      BY <2>3, <2>4
  <1> QED
    BY <1>1, <1>6, <1>7, <1>8

-----------------------------------------------------------------------------
(* All steps.                                                              *)

\* A step of the vCPU that the launcher does not see keeps the launcher's
\* invariant.
LEMMA UnseenKeeps ==
  ASSUME LauncherInv, Typed, Loaded, host = "guest",
         UNCHANGED <<host, boot, dev, exit_info, kicker>>,
         x' \in RegisterFile, pc' \in Int, pending' \in BOOLEAN
  PROVE  LauncherInv' /\ Typed' /\ Loaded'
  <1>1. x' = [r \in REGS |-> x'[r]]
    BY DEF RegisterFile
  <1>2. Shape' /\ ImageLoaded'
    BY <1>1, BootKept DEF LauncherInv
  <1>3. Idle' /\ AbortIsCurrent' /\ StopsOnlyWhenStuck'
    BY DEF LauncherInv, Idle, AbortIsCurrent, StopsOnlyWhenStuck
  <1>4. LoadsInBounds'
    BY DEF LoadsInBounds
  <1>5. Typed'
    BY DEF Typed
  <1>6. Loaded'
    BY DEF Loaded, boot
  <1> QED
    BY <1>2, <1>3, <1>4, <1>5, <1>6 DEF LauncherInv

\* Wherever a step leads, the PC is an address.
LEMMA MovedAddress ==
  ASSUME NEW n, NEW k, Moved(n, k)
  PROVE  pc' \in Int
  <1>1. PICK m, j : m \in 1..123 /\ j \in 0..31 /\ There(m, j)'
    BY DEF Moved
  <1> DEFINE w == IF j = 0 THEN m ELSE 126 + j
  <1>2. w \in Int /\ pc' = Addr(w)
    BY <1>1 DEF There, Stands
  <1> QED
    BY <1>2, AddrStep

\* Instructions and exceptions, which the vCPU carries out without an exit.
LEMMA VcpuKeeps ==
  ASSUME Stage4Inv, Instruction \/ TakePirq \/ TakeVirq
  PROVE  Stage4Inv' /\ Shows
  <1>1. /\ host = "guest" /\ UNCHANGED <<host, boot, dev, exit_info, kicker>>
        /\ pending' \in {FALSE, pending}
    BY DEF Instruction, TakePirq, TakeVirq, Take, Goes, SysWrite, Branch, Spin, Acknowledge, Complete,
           Move, SAVE_CTX, RESTORE_CTX, Eret, At, Fetched
  <1>2. LauncherInv /\ Typed /\ SysOk /\ Loaded
    BY DEF Stage4Inv
  <1>3. x \in RegisterFile /\ pc \in Int /\ pending' \in BOOLEAN
    BY <1>1, <1>2 DEF Typed
  <1>4. PICK n \in 1..123, k \in 0..31 :
           /\ There(n, k) /\ pc = Addr(W(n, k)) /\ W(n, k) \in 1..157
           /\ pc \in RAM /\ ram[pc] = Image[W(n, k)] /\ Lists(W(n, k))
    BY <1>1, Here
  <1>5. SysOk' /\ Moved(n, k) /\ x' \in RegisterFile
    <2>1. CASE SysWrite
      <3>1. WriteWord(W(n, k))
        BY <1>4, <2>1, IsWrite DEF SysWrite, At, Fetched
      <3>2. x' = x
        BY <2>1 DEF SysWrite, Goes
      <3> QED
        BY <1>2, <1>3, <1>4, <2>1, <3>1, <3>2, WriteKeeps, EntriesAt
    <2>2. CASE Branch
      <3>1. x' = x
        BY <2>2 DEF Branch
      <3> QED
        BY <1>2, <1>3, <1>4, <2>2, <3>1, BranchKeeps
    <2>3. CASE Spin
      <3>1. x' = x
        BY <2>3 DEF Spin
      <3> QED
        BY <1>2, <1>3, <1>4, <2>3, <3>1, SpinKeeps
    <2>4. CASE Acknowledge
      BY <1>2, <1>3, <1>4, <2>4, AcknowledgeKeeps
    <2>5. CASE Complete
      <3>1. x' = x
        BY <2>5 DEF Complete, Goes
      <3> QED
        BY <1>2, <1>3, <1>4, <2>5, <3>1, CompleteKeeps
    <2>6. CASE Move
      BY <1>2, <1>3, <1>4, <2>6, MoveKeeps
    <2>7. CASE SAVE_CTX
      <3>1. x' = x
        BY <2>7 DEF SAVE_CTX, Goes
      <3> QED
        BY <1>2, <1>3, <1>4, <2>7, <3>1, SaveKeeps
    <2>8. CASE RESTORE_CTX
      BY <1>2, <1>3, <1>4, <2>8, RestoreKeeps
    <2>9. CASE Eret
      <3>1. x' = x
        BY <2>9 DEF Eret
      <3> QED
        BY <1>2, <1>3, <1>4, <2>9, <3>1, EretKeeps
    <2>10. CASE TakePirq
      <3>1. x' = x
        BY <2>10 DEF TakePirq, Take
      <3> QED
        BY <1>2, <1>3, <1>4, <2>10, <3>1, TakePirqKeeps, EntriesAt
    <2>11. CASE TakeVirq
      <3>1. x' = x
        BY <2>11 DEF TakeVirq, Take
      <3> QED
        BY <1>2, <1>3, <1>4, <2>11, <3>1, TakeVirqKeeps
    <2> QED
      BY <2>1, <2>2, <2>3, <2>4, <2>5, <2>6, <2>7, <2>8, <2>9, <2>10, <2>11 DEF Instruction
  <1>6. LauncherInv' /\ Typed' /\ Loaded'
    BY <1>1, <1>2, <1>3, <1>5, MovedAddress, UnseenKeeps
  <1>7. Running'
    BY <1>1, <1>5 DEF Running, Moved
  <1>8. Shows
    BY <1>1, <1>4, <1>5 DEF Shows, Quiet
  <1> QED
    BY <1>5, <1>6, <1>7, <1>8 DEF Stage4Inv

\* The place stays when nothing that it is about changes.
LEMMA PlaceKept ==
  ASSUME UNCHANGED <<x, pc, dev, sys>>
  PROVE  /\ \A n \in 1..123, k \in 0..31 : There(n, k) => There(n, k)' /\ Seen(n, k)' = Seen(n, k)
         /\ SysOk => SysOk'
  <1> SUFFICES ASSUME NEW n \in 1..123, NEW k \in 0..31, There(n, k)
               PROVE  There(n, k)' /\ Seen(n, k)' = Seen(n, k)
    BY DEF SysOk
  <1>1. TimedOut' <=> TimedOut
    BY DEF TimedOut
  <1>2. Stands(n, k)' /\ SetUp(n)'
    BY DEF There, Stands, SetUp
  <1>3. HandlerOk(k)' /\ Timer(k)'
    BY DEF There, HandlerOk, Timer
  <1>4. Printed(n)'
    BY <1>1 DEF There, Printed
  <1>5. ProgramOk(n, OwnX(k), OwnMask(k))'
    BY DEF There, ProgramOk, OwnX, OwnMask
  <1>6. Said(n)' = Said(n) /\ Due(k)' = Due(k) /\ Intid(k)' = Intid(k)
    BY <1>1 DEF Said, Due, Intid
  <1> QED
    BY <1>2, <1>3, <1>4, <1>5, <1>6 DEF There, Seen

\* What main and the kicker thread do in the loop moves nothing of the guest.
LEMMA HostKeeps ==
  ASSUME Running \/ Booting, UNCHANGED <<x, pc, dev, sys>>,
         Running => host' \in {"loop", "guest", "exit", "stopped"},
         Booting => host' \in {"start", "load", "stopped", "undefined"}
  PROVE  (Running \/ Booting)' /\ Shows
  <1>1. CASE Running
    <2>1. PICK n \in 1..123, k \in 0..31 : There(n, k)
      BY <1>1 DEF Running
    <2>2. There(n, k)' /\ Seen(n, k)' = Seen(n, k)
      BY <2>1, PlaceKept
    <2>3. Moved(n, k)
      BY <2>2 DEF Moved
    <2> QED
      BY <1>1, <2>1, <2>2, <2>3 DEF Running, Shows, Quiet
  <1>2. CASE Booting
    <2>1. Booting'
      BY <1>2 DEF Booting
    <2> QED
      BY <1>2, <2>1 DEF Shows, Quiet
  <1> QED
    BY <1>1, <1>2

\* The vCPU starts at the entry point (hvf_main.c:467-472).
LEMMA EntryKeeps ==
  ASSUME Booting, SysOk, x \in RegisterFile, UNCHANGED <<x, dev, sys>>, pc' = Addr(1)
  PROVE  There(1, 0)'
  <1>1. Stands(1, 0)' /\ SetUp(1)'
    BY DEF Booting, Stands, SetUp
  <1>2. ProgramOk(1, OwnX(0), OwnMask(0))'
    BY DEF Booting, SysOk, ProgramOk, OwnX, OwnMask, PUTS
  <1>3. HandlerOk(0)' /\ Timer(0)'
    BY DEF Booting, HandlerOk, Timer
  <1>4. Printed(1)'
    BY DEF Booting, Printed, Passed
  <1> QED
    BY <1>1, <1>2, <1>3, <1>4 DEF There

\* main up to its loop.
LEMMA SetupKeeps ==
  ASSUME Stage4Inv, Setup, UNCHANGED sys
  PROVE  Loaded' /\ (Running \/ Booting)' /\ Shows
  <1>1. Running \/ Booting
    BY DEF Stage4Inv
  <1>2. Loaded /\ Shape /\ SysOk /\ x \in RegisterFile
    BY DEF Stage4Inv, LauncherInv, Typed
  <1>3. CASE Stop
    <2>1. Loaded'
      BY <1>2, <1>3 DEF Stop, Loaded, boot
    <2> QED
      BY <1>1, <1>3, <2>1, HostKeeps DEF Stop
  <1>4. CASE Start /\ ~Stop
    <2>1. host = "start" /\ host' = "load" /\ UNCHANGED <<boot, x, pc, dev>>
      BY <1>4 DEF Start
    <2>2. Loaded' /\ ~Running
      BY <1>2, <2>1 DEF Loaded, boot, Running
    <2> QED
      BY <1>1, <2>1, <2>2, HostKeeps
  <1>5. CASE LoadSegment /\ ~Stop /\ ~Overrun
    <2>1. /\ host = "load" /\ seg <= Len(elf.ph) /\ seg' = seg + 1
          /\ UNCHANGED <<host, elf, x, pc, dev>>
      BY <1>5 DEF LoadSegment
    <2>2. Len(elf.ph) \in Nat /\ seg \in Nat
      BY <1>2, ElfAssumption DEF Shape
    <2>3. Loaded' /\ ~Running
      BY <2>1, <2>2 DEF Loaded, Running
    <2> QED
      BY <1>1, <2>1, <2>3, HostKeeps
  <1>6. CASE CreateVcpu /\ ~Stop
    <2>1. /\ host = "load" /\ seg > Len(elf.ph) /\ host' = "loop"
          /\ pc' = IF elf.entry = 0 THEN HYP_ENTRY ELSE elf.entry
          /\ UNCHANGED <<boot, x, dev>>
      BY <1>6 DEF CreateVcpu
    <2>2. Loaded' /\ ~Running
      BY <1>2, <2>1 DEF Loaded, boot, Running
    <2>3. pc' = Addr(1)
      BY <1>2, <2>1, Stage4Assumption, LayoutAssumption DEF Shape, Addr
    <2>4. There(1, 0)'
      BY <1>1, <1>2, <2>1, <2>2, <2>3, EntryKeeps
    <2>5. Running'
      <3>1. 1 \in 1..123 /\ 0 \in 0..31
        OBVIOUS
      <3> QED
        BY <2>1, <2>4, <3>1 DEF Running
    <2>6. Quiet
      BY <1>1, <2>1, <2>2, <2>4 DEF Quiet
    <2> QED
      BY <2>2, <2>5, <2>6 DEF Shows
  <1>7. CASE LoadSegment /\ Overrun
    <2>1. /\ host = "load" /\ host' = "undefined" /\ UNCHANGED <<elf, seg, x, pc, dev>>
      BY <1>7 DEF LoadSegment, Overrun, boot
    <2>2. Loaded' /\ ~Running
      BY <1>2, <2>1 DEF Loaded, Running
    <2> QED
      BY <1>1, <2>1, <2>2, HostKeeps
  <1> QED
    BY <1>3, <1>4, <1>5, <1>6, <1>7 DEF Setup

\* The loop of main, the kicker thread, and the instructions the launcher sees.
LEMMA LoopKeeps ==
  ASSUME Stage4Inv, Launcher, ~Setup, UNCHANGED sys
  PROVE  Loaded' /\ (Running \/ Booting)' /\ Shows
  <1>1. Running \/ Booting
    BY DEF Stage4Inv
  <1>2. LauncherInv /\ Loaded /\ SysOk /\ x \in RegisterFile /\ dev \in Device
    BY DEF Stage4Inv, Typed
  <1>3. ASSUME host \in {"loop", "guest", "exit"}, host' \in {"loop", "guest", "exit", "stopped"}, UNCHANGED boot
        PROVE  Loaded' /\ ~Booting /\ Running
    BY <1>1, <1>2, <1>3 DEF Loaded, boot, Booting
  <1>4. CASE \/ Run \/ Kick \/ Canceled \/ VtimerActivated
             \/ \E isv \in BOOLEAN : Abort(isv)
             \/ Resume \/ Unhandled
    <2>1. /\ host \in {"loop", "guest", "exit"} /\ host' \in {"loop", "guest", "exit", "stopped"}
          /\ UNCHANGED <<boot, x, pc, dev>>
      BY <1>4 DEF Run, Kick, Canceled, VtimerActivated, Abort, Leave, Resume, Unhandled, Stop
    <2> QED
      BY <1>3, <2>1, HostKeeps
  <1>5. ASSUME Mov \/ DataAbort
        PROVE  Loaded' /\ (Running \/ Booting)' /\ Shows
    <2>1. /\ host \in {"loop", "guest", "exit"} /\ host' \in {"loop", "guest", "exit"}
          /\ pc' = pc + 4 /\ UNCHANGED boot
      BY <1>5 DEF Mov, Fetched, DataAbort, InDataAbort
    <2>2. PICK n \in 1..123, k \in 0..31 :
             /\ There(n, k) /\ pc = Addr(W(n, k)) /\ W(n, k) \in 1..157
             /\ pc \in RAM /\ ram[pc] = Image[W(n, k)] /\ Lists(W(n, k))
      BY <2>1, Here
    <2>3. CASE Mov
      <3>1. ram[pc].op = "mov" /\ dev' = dev /\ x' = [x EXCEPT ![ram[pc].rd] = ram[pc].val]
        BY <2>3 DEF Mov, Fetched
      <3>2. Moved(n, k)
        BY <1>2, <2>1, <2>2, <3>1, MovKeeps
      <3>3. Running'
        BY <2>1, <3>2 DEF Running, Moved
      <3> QED
        BY <1>3, <2>1, <2>2, <3>1, <3>2, <3>3 DEF Shows, Quiet
    <2>4. CASE DataAbort
      <3>1. /\ ram[pc] \in Access
            /\ x' = Accessed(ram[pc], x, dev).x /\ dev' = Accessed(ram[pc], x, dev).dev
        BY <1>2, <2>4, HandledIsAccessed
      <3>2. (dev'.out = dev.out /\ Moved(n, k)) \/ \E v : Emits(n, k, v)
        BY <1>2, <2>1, <2>2, <3>1, AccessKeeps
      <3>3. \E m \in 1..123, j \in 0..31 : There(m, j)'
        <4>1. CASE Moved(n, k)
          BY <4>1 DEF Moved
        <4>2. ASSUME NEW v, Emits(n, k, v)
              PROVE  \E m \in 1..123, j \in 0..31 : There(m, j)'
          <5>1. \/ n \in SAYS /\ There(n + 1, 0)'
                \/ k \in {14, 22, 26} /\ There(n, k + 1)'
                \/ There(n, 19)'
            BY <4>2 DEF Emits
          <5>2. n \in SAYS => n + 1 \in 1..123
            BY DEF SAYS
          <5>3. k \in {14, 22, 26} => k + 1 \in 0..31
            OBVIOUS
          <5>4. 19 \in 0..31 /\ 0 \in 0..31
            OBVIOUS
          <5> QED
            BY <5>1, <5>2, <5>3, <5>4, Zenon
        <4> QED
          BY <3>2, <4>1, <4>2
      <3>4. Running'
        BY <2>1, <3>3 DEF Running
      <3> QED
        BY <1>3, <2>1, <2>2, <3>2, <3>4 DEF Shows, Quiet
    <2> QED
      BY <1>5, <2>3, <2>4
  <1> QED
    BY <1>4, <1>5 DEF Launcher, Guest, HandleExit

\* Every step keeps the invariant, and is to the console what it may be.
LEMMA Stage4Step ==
  ASSUME Stage4Inv, [Stage4Next]_stage4_vars
  PROVE  Stage4Inv' /\ Shows
  <1>1. CASE Launcher /\ UNCHANGED sys
    <2>1. LauncherInv' /\ Typed'
      BY <1>1, NextInv, NextTyped DEF Next, Stage4Inv
    <2>2. SysOk'
      BY <1>1 DEF Stage4Inv, SysOk
    <2> QED
      BY <1>1, <2>1, <2>2, SetupKeeps, LoopKeeps DEF Stage4Inv
  <1>2. CASE Instruction \/ TakePirq \/ TakeVirq
    BY <1>2, VcpuKeeps
  <1>3. ASSUME UNCHANGED vars, SysOk', sys'.pend = sys.pend, Booting => Booting', dev' = dev,
               \A n \in 1..123, k \in 0..31 : There(n, k) => There(n, k)' /\ Seen(n, k)' = Seen(n, k)
        PROVE  Stage4Inv' /\ Shows
    <2>1. LauncherInv' /\ Typed'
      BY <1>3, NextInv, NextTyped DEF Stage4Inv
    <2>2. Loaded' /\ host' = host
      BY <1>3 DEF Stage4Inv, Loaded, vars, boot
    <2>3. CASE Running
      <3>1. PICK n \in 1..123, k \in 0..31 : There(n, k)
        BY <2>3 DEF Running
      <3>2. There(n, k)' /\ Seen(n, k)' = Seen(n, k)
        BY <1>3, <3>1
      <3>3. Moved(n, k)
        BY <3>2 DEF Moved
      <3> QED
        BY <1>3, <2>1, <2>2, <2>3, <3>1, <3>2, <3>3 DEF Running, Shows, Quiet, Stage4Inv
    <2>4. CASE Booting
      BY <1>3, <2>1, <2>2, <2>4 DEF Shows, Quiet, Stage4Inv
    <2> QED
      BY <2>3, <2>4 DEF Stage4Inv
  <1>4. CASE CnthpFires \/ GicrWakes
    <2>1. /\ SysOk' /\ UNCHANGED vars /\ (Booting => Booting')
          /\ \A n \in 1..123, k \in 0..31 : There(n, k) => There(n, k)' /\ Seen(n, k)' = Seen(n, k)
      BY <1>4, TimeKeeps DEF Stage4Inv
    <2>2. sys'.pend = sys.pend
      BY <1>4 DEF CnthpFires, GicrWakes, Stage4Inv, SysOk
    <2>3. dev' = dev
      BY <2>1 DEF vars
    <2> QED
      BY <1>3, <2>1, <2>2, <2>3
  <1>5. CASE UNCHANGED stage4_vars
    <2>1. UNCHANGED vars /\ sys' = sys
      BY <1>5 DEF stage4_vars
    <2>2. UNCHANGED <<host, x, pc, dev, sys>>
      BY <2>1 DEF vars
    <2>3. Booting => Booting'
      BY <2>2 DEF Booting
    <2>4. SysOk' /\ \A n \in 1..123, k \in 0..31 : There(n, k) => There(n, k)' /\ Seen(n, k)' = Seen(n, k)
      BY <2>2, PlaceKept DEF Stage4Inv
    <2> QED
      BY <1>3, <2>1, <2>2, <2>3, <2>4
  <1> QED
    BY <1>1, <1>2, <1>4, <1>5 DEF Stage4Next

\* Reset.
LEMMA Stage4InitInv ==
  Stage4Init => Stage4Inv
  <1> SUFFICES ASSUME Stage4Init PROVE Stage4Inv
    OBVIOUS
  <1>1. LauncherInv /\ Typed
    BY InitInv, InitTyped DEF Stage4Init
  <1>2. host = "start" /\ pc = 0 /\ dev = pl011 /\ seg = 1 /\ elf \in ELFS /\ x = [r \in REGS |-> 0]
    BY DEF Stage4Init, Init
  <1>3. Loaded
    <2>1. Len(elf.ph) \in Nat
      BY <1>2, ElfAssumption
    <2> QED
      BY <1>2, <2>1 DEF Loaded
  <1>4. PICK cnthp \in {"off", "armed"}, stray \in SUBSET STRAY :
    sys = [el |-> 2, masked |-> TRUE, imo |-> FALSE, vbar |-> 0,
           elr |-> [e \in {1, 2} |-> 0], spsr |-> [e \in {1, 2} |-> TRUE],
           on |-> {}, waker |-> "asleep", spins |-> 0,
           enabled |-> stray, pend |-> stray, active |-> {},
           lr0 |-> "invalid", cnthp |-> cnthp, count |-> 0,
           frame |-> NoFrame, stack |-> x]
    BY DEF Stage4Init, SysInit
  <1>5. SysOk
    <2>1. stray \in SUBSET Int
      BY StrayFacts
    <2>2. x \in RegisterFile
      BY <1>2 DEF RegisterFile
    <2>3. NoFrame \in [elr : Int, spsr : BOOLEAN, x : RegisterFile]
      BY DEF NoFrame, RegisterFile
    <2> HIDE DEF NoFrame
    <2> DEFINE elr == [e \in {1, 2} |-> 0]
               spsr == [e \in {1, 2} |-> TRUE]
    <2>4. elr \in [{1, 2} -> Int] /\ spsr \in [{1, 2} -> BOOLEAN]
      OBVIOUS
    <2>5. sys = [el |-> 2, masked |-> TRUE, imo |-> FALSE, vbar |-> 0, elr |-> elr, spsr |-> spsr,
                 on |-> {}, waker |-> "asleep", spins |-> 0,
                 enabled |-> stray, pend |-> stray, active |-> {},
                 lr0 |-> "invalid", cnthp |-> cnthp, count |-> 0, frame |-> NoFrame, stack |-> x]
      BY <1>4
    <2> HIDE DEF elr, spsr
    <2> QED
      BY <2>1, <2>2, <2>3, <2>4, <2>5 DEF SysOk
  <1>6. Booting
    BY <1>2, <1>4 DEF Booting, pl011
  <1> QED
    BY <1>1, <1>3, <1>5, <1>6 DEF Stage4Inv

\* The invariant.
THEOREM Stage4Invariant ==
  Stage4Spec => []Stage4Inv
  <1>1. Stage4Inv /\ [Stage4Next]_stage4_vars => Stage4Inv'
    BY Stage4Step
  <1> QED
    BY <1>1, Stage4InitInv, PTL DEF Stage4Spec

\* The EL2 handler returns to the guest only when what it acknowledged is
\* completed.
THEOREM HandlerCompletes ==
  Stage4Spec => []NothingLeftActive
  <1>1. Stage4Inv => NothingLeftActive
    <2> SUFFICES ASSUME Stage4Inv, sys.el = 1
                 PROVE  sys.active = {} /\ sys.count <= 1 /\ (sys.count = 1 => sys.cnthp = "off")
      BY DEF NothingLeftActive
    <2>1. Running
      BY DEF Stage4Inv, Booting
    <2>2. PICK n \in 1..123, k \in 0..31 : There(n, k)
      BY <2>1 DEF Running
    <2>3. k = 0
      BY <2>2 DEF There, Stands
    <2> QED
      BY <2>2, <2>3 DEF There, HandlerOk, Timer
  <1> QED
    BY <1>1, Stage4Invariant, PTL

-----------------------------------------------------------------------------
(* The console.                                                            *)

\* Every step is one of the console's, or none.
LEMMA ConsoleStep ==
  ASSUME Stage4Inv, Shows
  PROVE  [Uart0!Next]_(Uart0!vars)
  <1>1. CASE Quiet
    BY <1>1, QuietStutters
  <1>2. ASSUME NEW n \in 1..123, NEW k \in 0..31, NEW v, There(n, k), Emits(n, k, v)
        PROVE  Uart0!Next
    <2>1. dev \in Device /\ dev'.out = Append(dev.out, v) /\ x' = x /\ sys' = sys
      BY <1>2 DEF Stage4Inv, Typed, Emits
    <2>2. CASE k = 0 /\ n \in SAYS /\ v = Byte(n) /\ There(n + 1, 0)'
      BY <1>2, <2>1, <2>2, SayRefines DEF Uart0!Next
    <2>3. CASE k = 14 /\ v = Byte(126 + k) /\ There(n, k + 1)'
      <3>1. v = UNEXPECTED /\ There(n, 14) /\ There(n, 15)'
        BY <1>2, <2>3, Bytes
      <3> QED
        BY <2>1, <3>1, BeginRefines DEF Uart0!Next
    <2>4. CASE k \in {22, 26} /\ v = Byte(126 + k) /\ There(n, k + 1)'
      <3>1. k \in {18, 22, 26} /\ v = IF k = 18 THEN x[19] % BYTE ELSE Byte(126 + k)
        BY <2>4
      <3> QED
        BY <1>2, <2>1, <2>4, <3>1, ContinueRefines DEF Uart0!Next
    <2>5. CASE k = 18 /\ v = x[19] % BYTE /\ There(n, 19)'
      <3>1. There(n, k + 1)' /\ k \in {18, 22, 26} /\ v = IF k = 18 THEN x[19] % BYTE ELSE Byte(126 + k)
        BY <2>5
      <3> QED
        BY <1>2, <2>1, <3>1, ContinueRefines DEF Uart0!Next
    <2> QED
      BY <1>2, <2>2, <2>3, <2>4, <2>5 DEF Emits
  <1> QED
    BY <1>1, <1>2 DEF Shows

\* Before the launcher starts the console is in its initial state.
LEMMA ConsoleInit ==
  Stage4Init => Uart0!Init
  <1> SUFFICES ASSUME Stage4Init PROVE Uart0!Init
    OBVIOUS
  <1>1. dev.out = <<>> /\ host = "start"
    BY DEF Stage4Init, Init, pl011
  <1>2. Booting
    BY <1>1, Stage4InitInv DEF Stage4Inv, Running
  <1>3. Handler = 0 /\ Program \in Int /\ Program <= 1 /\ ~TimedOut
    BY <1>2, BootPlace
  <1>4. TextSaid(Prints(TimedOut), Program) = 0
    <2>1. Prints(TimedOut) = Prints(FALSE)
      BY <1>3, TextIs
    <2>2. TextSaid(Prints(FALSE), Program) = 0
      BY <1>3, NothingSaid
    <2> QED
      BY <2>1, <2>2
  <1>5. Expected(TimedOut) \in {Expected(timeout) : timeout \in BOOLEAN}
    <2>1. Expected(TimedOut) = Expected(FALSE)
      BY <1>3, TextIs
    <2> QED
      BY <2>1
  <1>6. NoticeRest(Handler, x[19]) = <<>>
    BY <1>3 DEF NoticeRest
  <1>7. NoticesDue(Handler) \subseteq DOMAIN [intid \in STRAY |-> Notice(intid)]
    BY <1>2, <1>3 DEF NoticesDue, Booting
  <1> QED
    BY <1>1, <1>4, <1>5, <1>6, <1>7 DEF Uart0!Init

\* The console.
THEOREM ConsoleCorrect ==
  Stage4Spec => ConsoleSpec
  <1>1. Stage4Inv /\ [Stage4Next]_stage4_vars => [Uart0!Next]_(Uart0!vars)
    BY Stage4Step, ConsoleStep
  <1> QED
    BY <1>1, ConsoleInit, Stage4Invariant, PTL DEF Stage4Spec, ConsoleSpec, Uart0!Spec

\* It holds at the start.
LEMMA ConsoleShowsInit ==
  ASSUME Uart0!Init
  PROVE  ConsoleShows
  <1> DEFINE out == dev.out
             text == Expected(TimedOut)
             said == TextSaid(Prints(TimedOut), Program)
             rest == NoticeRest(Handler, x[19])
             due == NoticesDue(Handler)
  <1>1. /\ out = <<>> /\ rest = <<>> /\ text \in {Expected(timeout) : timeout \in BOOLEAN} /\ said = 0
        /\ due \subseteq DOMAIN [intid \in STRAY |-> Notice(intid)]
    BY Zenon DEF Uart0!Init
  <1> HIDE DEF out, text, said, rest, due
  <1>2. Len(text) \in Nat
    BY <1>1, TextBytes
  <1>3. Mixed(out, text, said, <<>>, said, 0)
    BY <1>1, <1>2 DEF Mixed
  <1>4. Shown(out, text, said, rest, due)
    BY <1>1, <1>3 DEF Shown
  <1> QED
    BY <1>4, Zenon DEF ConsoleShows, out, text, said, rest, due

\* With one interrupt left pending by reset at most, every byte of the run is
\* one of a transcript (uart.c, hvf_main.c:287-345, gic_v3.c:216-234,
\* vectors.S's SAVE_CTX and RESTORE_CTX).  ConsoleCorrect is about any number.
THEOREM TranscriptCorrect ==
  (\A i, j \in STRAY : i = j) => (Stage4Spec => []Transcript)
  <1> SUFFICES ASSUME \A i, j \in STRAY : i = j
               PROVE  Stage4Spec => []Transcript
    OBVIOUS
  <1>1. ConsoleShows => Transcript
    BY ShownIs, Zenon DEF ConsoleShows, Transcript
  <1>2. ConsoleShows /\ [Uart0!Next]_(Uart0!vars) => ConsoleShows'
    BY ConsoleShowsNext
  <1>3. Uart0!Init => ConsoleShows
    BY ConsoleShowsInit
  <1> QED
    BY <1>1, <1>2, <1>3, ConsoleCorrect, PTL DEF ConsoleSpec, Uart0!Spec

=============================================================================
