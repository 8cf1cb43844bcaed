---------------------------- MODULE Stage4Places ----------------------------
(***************************************************************************)
(* Where Stage4 is, and what holds there: the words of the image by what   *)
(* they are, the conditions on the state with the program at word n and    *)
(* the EL2 handler at word k, and what the console can tell of a step.     *)
(***************************************************************************)
EXTENDS Stage4

-----------------------------------------------------------------------------
(* The words.                                                              *)

\* The words that poll UARTFR and those that store a byte to UARTDR: uart_putc,
\* uart_put_hex, and the guest's stores, which do not poll.
POLLS == {16, 20, 24, 28, 32, 36, 40, 47, 51, 55, 64, 68, 72, 80, 84, 88, 137, 141, 145, 149}
PUTS == {19, 23, 27, 31, 35, 39, 43, 50, 54, 58, 67, 71, 75, 83, 87, 91,
         100, 102, 110, 112, 114, 116, 119, 121, 140, 144, 148, 152}

\* The byte that is in x0 at a store to the data register, x19 aside.
Byte(n) ==
  CASE n = 19 -> HELLO
    [] n \in {23, 112} -> 50
    [] n \in {27, 39, 54, 71, 87, 148} -> CR
    [] n \in {31, 43, 58, 75, 91, 102, 116, 121, 152} -> LF
    [] n = 35 -> GIC_INIT
    [] n = 50 -> TIMEOUT
    [] n = 67 -> PPI_ON
    [] n = 83 -> LR0_LOADED
    [] n = 100 -> BANNER
    [] n = 110 -> GOT_IRQ
    [] n = 114 -> 97
    [] n = 119 -> DONE
    [] n = 140 -> UNEXPECTED

\* The system instructions, by the action that carries them out.
WriteWord(n) ==
  \/ n \in {44, 95} /\ Image[n] = Sys("icc_sre", 0)
  \/ n = 45 /\ Image[n] = Sys("waker", 0)
  \/ n = 59 /\ Image[n] = Sys("gicd_ctlr", 0)
  \/ n \in {60, 77} /\ Image[n] = Sys("ich_hcr", 0)
  \/ n \in {61, 96} /\ Image[n] = Sys("icc_pmr", 0)
  \/ n \in {62, 97} /\ Image[n] = Sys("icc_igrpen1", 0)
  \/ n = 63 /\ Image[n] = Sys("enable_ppi", IRQ_HTIMER_PPI)
  \/ n = 76 /\ Image[n] = Sys("hcr_imo", 0)
  \/ n = 78 /\ Image[n] = Sys("ich_vmcr", 0)
  \/ n = 79 /\ Image[n] = Sys("ich_lr0", VINTID)
  \/ n = 92 /\ Image[n] = Sys("elr_el2", 0)
  \/ n = 94 /\ Image[n] = Sys("vbar_el1", 0)
  \/ n = 103 /\ Image[n] = Sys("daifclr", 0)
  \/ n = 122 /\ Image[n] = Sys("daifset", 0)
  \/ n = 131 /\ Image[n] = Sys("cnthp_disable", 0)
  \/ n = 133 /\ Image[n] = Sys("count", 0)
PollWord(n) == n \in {p + 1 : p \in POLLS} /\ Image[n] = Sys("tbnz_txff", 0)
BranchWord(n) ==
  \/ n = 108 /\ Image[n] = Sys("b_eq_1023", 15)
  \/ n = 129 /\ Image[n] = Sys("b_hs_1020", 26)
  \/ n = 130 /\ Image[n] = Sys("b_ne_26", 5)
MoveWord(n) ==
  \/ n = 105 /\ Image[n] = Sys("push", 0)
  \/ n = 111 /\ Image[n] = Sys("nibble", 16)
  \/ n = 113 /\ Image[n] = Sys("nibble", 1)
  \/ n = 125 /\ Image[n] = Sys("pop", 0)
  \/ n = 143 /\ Image[n] = Sys("mov_x0_x19", 0)
OtherWord(n) ==
  \/ n = 46 /\ Image[n] = Sys("spin", 12)
  \/ n \in {107, 128} /\ Image[n] = Sys("icc_iar1", 0)
  \/ n \in {117, 124, 132, 153} /\ Image[n] = Sys("icc_eoir1", 0)
  \/ n = 127 /\ Image[n] = Sys("save_ctx", 0)
  \/ n \in {134, 154, 156} /\ Image[n] = Sys("restore_ctx", 0)
  \/ n \in {93, 126, 135, 155, 157} /\ Image[n] = Sys("eret", 0)
SysWord(n) == WriteWord(n) \/ PollWord(n) \/ BranchWord(n) \/ MoveWord(n) \/ OtherWord(n)

\* The others.
PlainWord(n) ==
  \/ n \in POLLS /\ Image[n] = Uart("ldr", 2, UARTFR)
  \/ n \in PUTS /\ Image[n] = Uart("str", 0, UARTDR)
  \/ n + 1 \in PUTS \ {112, 114, 144} /\ Image[n] = MovTo(0, Byte(n + 1))
  \/ n \in {1, 98, 106, 136} /\ Image[n] = MovTo(1, PL011_BASE)
  \/ n \in {2, 4, 6, 8, 10, 12, 14} /\ \E v \in {0, 3, 26, \h70, \h301, \h7ff} : Image[n] = MovTo(0, v)
  \/ n \in {3, 5, 7, 9, 11, 13, 15} /\ \E reg \in STORED \cup {UARTICR} : Image[n] = Uart("str", 0, reg)
  \/ n \in {104, 123} /\ Image[n] = Wfe

Lists(n) == SysWord(n) \/ PlainWord(n)

-----------------------------------------------------------------------------
(* The places.                                                             *)

\* The word at the PC.
W(n, k) == IF k = 0 THEN n ELSE 126 + k

\* The words at which the guest and the two vectors begin.
Entries ==
  /\ GUEST_V3_START = Addr(94) /\ GUEST_V3_VECTORS = Addr(105)
  /\ VECTOR_EL2 = Addr(127)

\* The handler's words at which ELR_EL2, and not the frame, has the return
\* address.
EDGES == {1, 9, 29, 31}

\* The program is at word n; the handler is at its word k, or does not run.
Stands(n, k) ==
  /\ pc = Addr(IF k = 0 THEN n ELSE 126 + k)
  /\ k # 0 => n >= 94 /\ (IF k \in EDGES THEN sys.elr[2] ELSE sys.frame.elr) = Addr(n)
  /\ sys.el = IF k = 0 /\ n >= 94 THEN 1 ELSE 2

\* The program's registers and interrupt mask, wherever they are.
OwnX(k) == IF k \in {0} \cup EDGES THEN x ELSE sys.frame.x
OwnMask(k) == IF k = 0 THEN sys.masked ELSE IF k \in EDGES THEN sys.spsr[2] ELSE sys.frame.spsr

\* What the program has set up when it is at word n.
ProgramOk(n, xs, masked) ==
  /\ xs \in RegisterFile
  /\ n >= 2 => xs[1] = PL011_BASE
  /\ n >= 108 => xs[19] = VINTID
  /\ n \in PUTS => xs[0] = Byte(n)
  /\ masked <=> n # 104

SetUp(n) ==
  /\ n = 93 => sys.elr[2] = Addr(94) /\ sys.spsr[2]
  /\ n >= 77 => sys.imo
  /\ n >= 78 => "ich_hcr" \in sys.on
  /\ n >= 79 => VIRTUAL \subseteq sys.on
  /\ n >= 95 => sys.vbar = Addr(105)
  /\ sys.lr0 = IF n \in 80..107 THEN "pending" ELSE IF n \in 108..117 THEN "active" ELSE "invalid"

\* What the handler has in hand at its word k.
HandlerOk(k) ==
  /\ sys.active = IF k \in (3..6) \cup (10..27) /\ x[19] # SPURIOUS THEN {x[19]} ELSE {}
  /\ k = 3 => x[19] \in STRAY \cup {IRQ_HTIMER_PPI, SPURIOUS}
  /\ k = 4 => x[19] \in STRAY \cup {IRQ_HTIMER_PPI}
  /\ k \in {5, 6} => x[19] = IRQ_HTIMER_PPI
  /\ k \in 10..27 => x[19] \in STRAY
  /\ k \in (3..6) \cup (10..27) => x[19] \notin sys.pend
  /\ k \in 11..26 => x[1] = PL011_BASE
  /\ k \in {14, 22, 26} => x[0] = Byte(126 + k)
  /\ k = 18 => x[0] = x[19]

Timer(k) ==
  /\ sys.pend \subseteq STRAY /\ sys.enabled \subseteq STRAY \cup {IRQ_HTIMER_PPI}
  /\ sys.count \in {0, 1} /\ (sys.count = 1 => sys.cnthp = "off")
  /\ k \in 3..5 /\ x[19] = IRQ_HTIMER_PPI => sys.cnthp = "due" /\ sys.count = 0
  /\ k \in {6, 7} => sys.cnthp = "off" /\ sys.count = 0

\* How much is printed, as far as the time-out line matters.
Passed(n, p) == IF n > p THEN 1 ELSE 0
Printed(n) ==
  /\ n <= 50 => Len(dev.out) = Passed(n, 19) + Passed(n, 23) + Passed(n, 27) + Passed(n, 31)
                                 + Passed(n, 35) + Passed(n, 39) + Passed(n, 43)
  /\ n \in 51..58 => TimedOut
  /\ n \in 59..67 => TimedOut \/ Len(dev.out) = 7
  /\ n >= 68 => Len(dev.out) >= 8

There(n, k) ==
  /\ Stands(n, k) /\ ProgramOk(n, OwnX(k), OwnMask(k)) /\ SetUp(n)
  /\ HandlerOk(k) /\ Timer(k) /\ Printed(n)

Running ==
  /\ host \in {"loop", "guest", "exit", "stopped"}
  /\ \E n \in 1..123, k \in 0..31 : There(n, k)

Booting ==
  /\ host \in {"start", "load", "stopped", "undefined"}
  /\ pc = 0 /\ dev.out = <<>>
  /\ sys.el = 2 /\ sys.masked /\ sys.lr0 = "invalid"
  /\ sys.active = {} /\ sys.count = 0
  /\ sys.pend \subseteq STRAY /\ sys.enabled \subseteq STRAY

\* What the console can tell of where the program and the handler are: the
\* bytes of the program so far, the bytes that a notice lacks, and the
\* interrupts that get none until now.
SAYS == {19, 23, 27, 31, 35, 39, 43, 50, 54, 58, 67, 71, 75, 83, 87, 91,
         100, 102, 110, 112, 114, 116, 119, 121}
Said(n) == {p \in SAYS : p < n /\ (TimedOut \/ p \notin {50, 54, 58})}
Missing(k) == IF k \in 15..18 THEN 3 ELSE IF k \in 19..22 THEN 2 ELSE IF k \in 23..26 THEN 1 ELSE 0
Intid(k) == IF k \in 15..18 THEN x[19] ELSE 0
HOLDS == {3, 4} \cup 10..14
Due(k) == sys.pend \cup (IF k \in HOLDS THEN {x[19]} \cap STRAY ELSE {})
Seen(n, k) == <<Said(n), Missing(k), Intid(k), Due(k)>>

\* A step that it cannot tell from none.
Moved(n, k) ==
  \E m, j : m \in 1..123 /\ j \in 0..31 /\ There(m, j)' /\ Seen(m, j)' = Seen(n, k)

\* The system registers and the GIC.
SysOk ==
  sys \in [el : {1, 2}, masked : BOOLEAN, imo : BOOLEAN, vbar : Int,
           elr : [{1, 2} -> Int], spsr : [{1, 2} -> BOOLEAN],
           on : SUBSET (PHYSICAL \cup VIRTUAL), waker : {"asleep", "waking", "awake"}, spins : Int,
           enabled : SUBSET Int, pend : SUBSET Int, active : SUBSET Int,
           lr0 : {"invalid", "pending", "active"}, cnthp : {"off", "armed", "due"}, count : Int,
           frame : [elr : Int, spsr : BOOLEAN, x : RegisterFile], stack : RegisterFile]

Loaded ==
  /\ seg <= Len(elf.ph) + 1
  /\ host \in {"loop", "guest", "exit"} => seg > Len(elf.ph)

\* What the vCPU prints: with the program at word n and the handler at word k,
\* v goes to the console.
Emits(n, k, v) ==
  /\ dev'.out = Append(dev.out, v) /\ x' = x /\ sys' = sys
  /\ \/ k = 0 /\ n \in SAYS /\ v = Byte(n) /\ There(n + 1, 0)'
     \/ k \in {14, 22, 26} /\ v = Byte(126 + k) /\ There(n, k + 1)'
     \/ k = 18 /\ v = x[19] % BYTE /\ There(n, 19)'

\* What a step is to the console.
Quiet ==
  /\ dev'.out = dev.out
  /\ \/ Booting /\ (Booting \/ There(1, 0))' /\ sys'.pend = sys.pend
     \/ \E n \in 1..123, k \in 0..31 : There(n, k) /\ Moved(n, k)
Shows ==
  \/ Quiet
  \/ \E n \in 1..123, k \in 0..31 : \E v : There(n, k) /\ Emits(n, k, v)

=============================================================================
