------------------------------- MODULE Stage4 -------------------------------
(***************************************************************************)
(* The HVF build (HOST_IF=hvf, GIC_VERSION=3) from reset to the end of its *)
(* Stage 4, run by the launcher: kmain sets the UART and the GIC up,       *)
(* gic_v3.c loads a list register with virtual interrupt 42 and enters the *)
(* EL1 guest of guest_v3.S, which takes the interrupt, reports it and      *)
(* halts.  Meanwhile every pass of the launcher's loop pends an IRQ, which *)
(* goes to the EL2 vector as soon as the guest runs.                       *)
(*                                                                         *)
(* The code is a sequence of words in guest memory, as the sources have    *)
(* it; printed texts are shrunk to one byte before the line end.  A "sys"  *)
(* word is an instruction, or an access to the GIC that HVF carries out    *)
(* itself, that the launcher does not see.                                 *)
(***************************************************************************)
EXTENDS HvfLauncher

CONSTANTS MAX_SPINS,   \* the polls of GICR_WAKER before the time-out: 1000000
          STRAY        \* interrupts that reset may leave enabled and pending

IRQ_HTIMER_PPI == 26
SPURIOUS == 1023
VINTID == 42

VARIABLE sys           \* the system registers and the GIC, see SysInit

stage4_vars == <<vars, sys>>

-----------------------------------------------------------------------------
(* The texts, one byte each, and what is printed with them.                *)
LF == 10
CR == 13
HELLO == 65
GIC_INIT == 66
TIMEOUT == 67
PPI_ON == 68
LR0_LOADED == 69
BANNER == 70
GOT_IRQ == 71
DONE == 72
UNEXPECTED == 73

-----------------------------------------------------------------------------
(* The code.                                                               *)
MovTo(rd, val) == [op |-> "mov", rd |-> rd, val |-> val]
Sys(do, arg) == [op |-> "sys", do |-> do, arg |-> arg]
Wfe == [op |-> "wfe"]
Uart(op, rt, off) == [op |-> op, size |-> 2, mode |-> "scaled", rt |-> rt, rn |-> 1, imm |-> off \div 4]

uart_putc(c) ==
  <<Uart("ldr", 2, UARTFR), Sys("tbnz_txff", 0), MovTo(0, c), Uart("str", 0, UARTDR)>>

\* A loop is unrolled: the words of a pass behind those of the pass before.
Unrolled(passes) ==
  LET upto[n \in 1..Len(passes)] == IF n = 1 THEN passes[n] ELSE upto[n - 1] \o passes[n]
  IN upto[Len(passes)]

uart_puts(s) ==
  Unrolled([n \in DOMAIN s |->
                IF s[n] = LF THEN uart_putc(CR) \o uart_putc(LF) ELSE uart_putc(s[n])])

\* A number is one byte, too.
uart_put_hex ==
  <<Uart("ldr", 2, UARTFR), Sys("tbnz_txff", 0), Sys("mov_x0_x19", 0), Uart("str", 0, UARTDR)>>

uart_write(reg, val) == <<MovTo(0, val), Uart("str", 0, reg)>>
uart_init ==
  uart_write(UARTCR, 0) \o uart_write(UARTICR, \h7ff) \o uart_write(UARTIBRD, 26)
    \o uart_write(UARTFBRD, 3) \o uart_write(UARTLCR_H, \h70) \o uart_write(UARTIMSC, 0)
    \o uart_write(UARTCR, \h301)

\* Poll until the redistributor is awake, or give up after MAX_SPINS polls with
\* a message and go on all the same.
wake_redistributor ==
  LET timeout == uart_puts(<<TIMEOUT, LF>>)
  IN <<Sys("waker", 0), Sys("spin", Len(timeout))>> \o timeout

enable_ppi(intid) == Sys("enable_ppi", intid)      \* its priority, group and enable bit
cnthp_disable == Sys("cnthp_disable", 0)

\* LR0 gets the value of make_lr: the interrupt, pending.
write_ich_lr0_el2(intid) == Sys("ich_lr0", intid)

gic_init_el2 ==
  uart_puts(<<GIC_INIT, LF>>) \o <<Sys("icc_sre", 0)>> \o wake_redistributor
    \o <<Sys("gicd_ctlr", 0), Sys("ich_hcr", 0), Sys("icc_pmr", 0), Sys("icc_igrpen1", 0),
         enable_ppi(IRQ_HTIMER_PPI)>>
    \o uart_puts(<<PPI_ON, LF>>)

stage4_eret_to_guest ==
  <<Sys("hcr_imo", 0), Sys("ich_hcr", 0), Sys("ich_vmcr", 0), write_ich_lr0_el2(VINTID)>>
    \o uart_puts(<<LR0_LOADED, LF>>) \o <<Sys("elr_el2", 0), Sys("eret", 0)>>

kmain ==
  <<MovTo(1, PL011_BASE)>> \o uart_init \o uart_puts(<<HELLO>>) \o uart_putc(50) \o uart_puts(<<LF>>)
    \o gic_init_el2 \o stage4_eret_to_guest

\* Mutant: an unexpected interrupt is reported and not completed.
gic_handle_physical_irqNoEoi ==
  LET done == <<Sys("restore_ctx", 0), Sys("eret", 0)>>
      timer == <<cnthp_disable, Sys("icc_eoir1", 0), Sys("count", 0)>> \o done
      other == <<MovTo(1, PL011_BASE)>> \o uart_puts(<<UNEXPECTED>>) \o uart_put_hex
                 \o uart_puts(<<LF>>) \o done
  IN <<Sys("save_ctx", 0), Sys("icc_iar1", 0), Sys("b_hs_1020", Len(timer) + Len(other) + 1),
       Sys("b_ne_26", Len(timer))>>
       \o timer \o other \o done

\* The EL2 vector: handle_exception and gic_handle_physical_irq, between
\* SAVE_CTX and RESTORE_CTX.
gic_handle_physical_irq ==
  LET done == <<Sys("restore_ctx", 0), Sys("eret", 0)>>
      timer == <<cnthp_disable, Sys("icc_eoir1", 0), Sys("count", 0)>> \o done
      other == <<MovTo(1, PL011_BASE)>> \o uart_puts(<<UNEXPECTED>>) \o uart_put_hex
                 \o uart_puts(<<LF>>) \o <<Sys("icc_eoir1", 0)>> \o done
  IN <<Sys("save_ctx", 0), Sys("icc_iar1", 0), Sys("b_hs_1020", Len(timer) + Len(other) + 1), Sys("b_ne_26", Len(timer))>>
       \o timer \o other \o done

\* guest_v3_puts neither polls nor adds a carriage return.
guest_v3_puts(s) == Unrolled([n \in DOMAIN s |-> uart_write(UARTDR, s[n])])

guest_v3_start ==
  <<Sys("vbar_el1", 0), Sys("icc_sre", 0), Sys("icc_pmr", 0), Sys("icc_igrpen1", 0),
    MovTo(1, PL011_BASE)>>
    \o guest_v3_puts(<<BANNER, LF>>) \o <<Sys("daifclr", 0), Wfe>>

guest_v3_irq_entry ==
  LET real == guest_v3_puts(<<GOT_IRQ>>)
                \o <<Sys("nibble", 16), Uart("str", 0, UARTDR), Sys("nibble", 1), Uart("str", 0, UARTDR)>>
                \o guest_v3_puts(<<LF>>) \o <<Sys("icc_eoir1", 0)>>
                \o guest_v3_puts(<<DONE, LF>>) \o <<Sys("daifset", 0), Wfe>>
  IN <<Sys("push", 0), MovTo(1, PL011_BASE), Sys("icc_iar1", 0), Sys("b_eq_1023", Len(real))>> \o real
       \o <<Sys("icc_eoir1", 0), Sys("pop", 0), Sys("eret", 0)>>

\* Where the parts are in memory.
GUEST_V3_START == RAM_BASE + 4 * Len(kmain)
GUEST_V3_VECTORS == GUEST_V3_START + 4 * Len(guest_v3_start)
VECTOR_EL2 == GUEST_V3_VECTORS + 4 * Len(guest_v3_irq_entry)
Image ==
  kmain \o guest_v3_start \o guest_v3_irq_entry \o gic_handle_physical_irq

\* The address of a word of the image, and back.
Addr(n) == RAM_BASE + 4 * (n - 1)
Index(a) == (a - RAM_BASE) \div 4 + 1

\* The file puts the image where the linker script has it, at the start of
\* memory, and it fits; reset leaves the timer's interrupt to the hypervisor,
\* and the INTIDs from 1020 on are not interrupts.
ASSUME Stage4Assumption ==
  /\ RAM_BASE > 0 /\ Len(Image) <= RAM_WORDS
  /\ {0, 1, 2, 19} \subseteq REGS /\ BYTE > 97
  /\ STRAY \subseteq 0..1019 \ {IRQ_HTIMER_PPI}
  /\ \A e \in ELFS :
       /\ e.entry = RAM_BASE
       /\ \A n \in 1..Len(Image) : \E k \in 1..Len(e.ph) :
            /\ Covers(e.ph[k], Addr(n)) /\ Word(e.ph[k], Addr(n)) = Image[n]
            /\ \A j \in (k + 1)..Len(e.ph) : ~Covers(e.ph[j], Addr(n))

-----------------------------------------------------------------------------
(* The machine, which is external.  PSTATE.I is set at reset and stays set *)
(* at EL2.  What reset leaves in CNTHP_CTL_EL2 is unknown, and so is which *)
(* other interrupts are enabled and pending.                               *)

\* Everything an interrupt needs to be signalled, physical and virtual.
PHYSICAL == {"icc_sre", "gicd_ctlr", "icc_pmr", "icc_igrpen1"}
VIRTUAL == {"ich_hcr", "icv_pmr", "icv_igrpen1"}

NoFrame == [elr |-> 0, spsr |-> TRUE, x |-> [r \in REGS |-> 0]]

SysInit ==
  \E cnthp \in {"off", "armed"}, stray \in SUBSET STRAY :
    sys = [el |-> 2, masked |-> TRUE, imo |-> FALSE, vbar |-> 0,
           elr |-> [e \in {1, 2} |-> 0], spsr |-> [e \in {1, 2} |-> TRUE],
           on |-> {}, waker |-> "asleep", spins |-> 0,
           enabled |-> stray, pend |-> stray, active |-> {},
           lr0 |-> "invalid", cnthp |-> cnthp, count |-> 0,
           frame |-> NoFrame, stack |-> x]

\* The instruction at the PC, when the vCPU runs.
At(do) == Fetched({"sys"}) /\ ram[pc].do \in do

Goes(to, new) ==
  /\ pc' = to
  /\ sys' = new
  /\ UNCHANGED <<host, boot, dev, exit_info, kicker>>

\* Interrupts the distributor, redistributor and CPU interface have for EL2.
Signalled ==
  IF PHYSICAL \subseteq sys.on /\ sys.waker = "awake"
    THEN (sys.enabled \cap (sys.pend \cup (IF sys.cnthp = "due" THEN {IRQ_HTIMER_PPI} ELSE {})))
           \ sys.active
    ELSE {}
VirtualSignalled == sys.imo /\ VIRTUAL \subseteq sys.on /\ sys.lr0 = "pending"

\* An EL1 access to ICC registers is one to the virtual interface under IMO.
IsVirtual == sys.el = 1 /\ sys.imo

\* System registers and GIC registers that are written once and only read by
\* the hardware.
SysWrite ==
  LET i == ram[pc]
      Set(name) == [sys EXCEPT !.on = @ \cup {name}]
  IN /\ At({"icc_sre", "gicd_ctlr", "ich_hcr", "icc_pmr", "icc_igrpen1", "hcr_imo", "ich_vmcr", "ich_lr0",
            "waker", "enable_ppi", "cnthp_disable", "count", "elr_el2", "vbar_el1", "daifclr", "daifset"})
     /\ Goes(pc + 4,
          CASE i.do \in {"icc_sre", "gicd_ctlr", "ich_hcr"} -> Set(i.do)
            [] i.do = "icc_pmr" -> Set(IF IsVirtual THEN "icv_pmr" ELSE "icc_pmr")
            [] i.do = "icc_igrpen1" -> Set(IF IsVirtual THEN "icv_igrpen1" ELSE "icc_igrpen1")
            [] i.do = "ich_vmcr" -> [sys EXCEPT !.on = @ \cup {"icv_pmr", "icv_igrpen1"}]
            [] i.do = "hcr_imo" -> [sys EXCEPT !.imo = TRUE]
            [] i.do = "ich_lr0" -> [sys EXCEPT !.lr0 = "pending"]
            [] i.do = "waker" -> [sys EXCEPT !.waker = "waking"]
            [] i.do = "enable_ppi" -> [sys EXCEPT !.enabled = @ \cup {i.arg}]
            [] i.do = "cnthp_disable" -> [sys EXCEPT !.cnthp = "off"]
            [] i.do = "count" -> [sys EXCEPT !.count = @ + 1]
            [] i.do = "elr_el2" -> [sys EXCEPT !.elr[2] = GUEST_V3_START, !.spsr[2] = TRUE]
            [] i.do = "vbar_el1" -> [sys EXCEPT !.vbar = GUEST_V3_VECTORS]
            [] i.do = "daifclr" -> [sys EXCEPT !.masked = FALSE]
            [] i.do = "daifset" -> [sys EXCEPT !.masked = TRUE])
     /\ UNCHANGED x

\* Branches, over i.arg words or back to the word before.
Branch ==
  LET i == ram[pc]
      over == pc + 4 * (i.arg + 1)
      If(taken, to) == Goes(IF taken THEN to ELSE pc + 4, sys)
  IN /\ \/ At({"tbnz_txff"}) /\ If(5 \in BitsOf(x[2]), pc - 4)
        \/ At({"b_hs_1020"}) /\ If(x[19] >= 1020, over)
        \/ At({"b_ne_26"}) /\ If(x[19] # IRQ_HTIMER_PPI, over)
        \/ At({"b_eq_1023"}) /\ If(x[19] = SPURIOUS, over)
     /\ UNCHANGED x

\* Mutant: it polls until the redistributor is awake.
SpinForever ==
  /\ At({"spin"})
  /\ Goes(IF sys.waker = "awake" THEN pc + 4 * (ram[pc].arg + 1) ELSE pc, sys)
  /\ UNCHANGED x

\* One poll of GICR_WAKER.
Spin ==
  /\ At({"spin"})
  /\ \/ sys.waker = "awake" /\ Goes(pc + 4 * (ram[pc].arg + 1), [sys EXCEPT !.spins = 0])
     \/ sys.waker # "awake" /\ sys.spins + 1 > MAX_SPINS /\ Goes(pc + 4, [sys EXCEPT !.spins = 0])
     \/ sys.waker # "awake" /\ sys.spins + 1 <= MAX_SPINS /\ Goes(pc, [sys EXCEPT !.spins = @ + 1])
  /\ UNCHANGED x

\* Acknowledge: the virtual interface's list register, or one of the physical
\* interrupts; 1023 when there is none.
Acknowledge ==
  LET Returns(intid, new) == Goes(pc + 4, new) /\ x' = [x EXCEPT ![19] = intid] IN
  /\ At({"icc_iar1"})
  /\ \/ IsVirtual /\ VirtualSignalled /\ Returns(VINTID, [sys EXCEPT !.lr0 = "active"])
     \/ ~IsVirtual /\ \E intid \in Signalled :
          Returns(intid, [sys EXCEPT !.active = @ \cup {intid}, !.pend = @ \ {intid}])
     \/ ~(IF IsVirtual THEN VirtualSignalled ELSE Signalled # {}) /\ Returns(SPURIOUS, sys)

Complete ==
  /\ At({"icc_eoir1"})
  /\ Goes(pc + 4, IF IsVirtual
                    THEN [sys EXCEPT !.lr0 = IF x[19] = VINTID /\ @ = "active" THEN "invalid" ELSE @]
                    ELSE [sys EXCEPT !.active = @ \ {x[19]}])
  /\ UNCHANGED x

\* Register moves: a hex digit of the INTID, the INTID, the guest's stack.
Move ==
  LET i == ram[pc]
      digit == ((x[19] % 256) \div i.arg) % 16
  IN /\ At({"nibble", "mov_x0_x19", "push", "pop"})
     /\ Goes(pc + 4, IF i.do = "push" THEN [sys EXCEPT !.stack = x] ELSE sys)
     /\ x' = CASE i.do = "nibble" -> [x EXCEPT ![0] = IF digit > 9 THEN digit + 87 ELSE digit + 48]
               [] i.do = "mov_x0_x19" -> [x EXCEPT ![0] = x[19]]
               [] i.do = "pop" -> [r \in REGS |-> IF r <= 3 THEN sys.stack[r] ELSE x[r]]
               [] i.do = "push" -> x

\* Mutant: the return address is that of the instruction behind the interrupted one.
SAVE_CTXBehind ==
  /\ At({"save_ctx"})
  /\ Goes(pc + 4, [sys EXCEPT !.frame = [elr |-> sys.elr[2] + 4, spsr |-> sys.spsr[2], x |-> x]])
  /\ UNCHANGED x

SAVE_CTX ==
  /\ At({"save_ctx"})
  /\ Goes(pc + 4, [sys EXCEPT !.frame = [elr |-> sys.elr[2], spsr |-> sys.spsr[2], x |-> x]])
  /\ UNCHANGED x

\* Mutant: only the registers that a call may clobber are restored.
RESTORE_CTXCallerSaved ==
  /\ At({"restore_ctx"})
  /\ Goes(pc + 4, [sys EXCEPT !.elr[2] = sys.frame.elr, !.spsr[2] = sys.frame.spsr, !.frame = NoFrame])
  /\ x' = [r \in REGS |-> IF r < 19 THEN sys.frame.x[r] ELSE x[r]]

RESTORE_CTX ==
  /\ At({"restore_ctx"})
  /\ Goes(pc + 4, [sys EXCEPT !.elr[2] = sys.frame.elr, !.spsr[2] = sys.frame.spsr,
                             !.frame = NoFrame])
  /\ x' = sys.frame.x

\* Exception return, always to EL1.  The frame that is popped and the return
\* state that is used are dead and forgotten.
Eret ==
  /\ At({"eret"})
  /\ Goes(sys.elr[sys.el], [sys EXCEPT !.el = 1, !.masked = sys.spsr[sys.el],
                                    !.elr[sys.el] = 0, !.spsr[sys.el] = TRUE])
  /\ UNCHANGED x

\* An interrupt to exception level e.
Take(e, vector) ==
  /\ host = "guest" /\ sys.el = 1
  /\ Goes(vector, [sys EXCEPT !.el = e, !.masked = TRUE, !.elr[e] = pc, !.spsr[e] = sys.masked])
  /\ UNCHANGED x

\* The IRQ that the launcher pended.  Under IMO EL1 cannot mask it.  The vCPU
\* takes it once in a run.
TakePirq == pending /\ sys.imo /\ pending' = FALSE /\ Take(2, VECTOR_EL2)

TakeVirq == VirtualSignalled /\ ~sys.masked /\ UNCHANGED pending /\ Take(1, sys.vbar)

\* Time passes: the timer, if reset left it running, and the redistributor,
\* if it ever wakes.
CnthpFires ==
  /\ sys.cnthp = "armed" /\ sys' = [sys EXCEPT !.cnthp = "due"]
  /\ UNCHANGED vars
GicrWakes ==
  /\ sys.waker = "waking" /\ sys' = [sys EXCEPT !.waker = "awake"]
  /\ UNCHANGED vars

-----------------------------------------------------------------------------
Instruction ==
  /\ \/ SysWrite \/ Branch \/ Spin \/ Acknowledge \/ Complete
     \/ Move \/ SAVE_CTX \/ RESTORE_CTX \/ Eret
  /\ UNCHANGED pending

Stage4Init == Init /\ SysInit

Stage4Next ==
  \/ Launcher /\ UNCHANGED sys
  \/ Instruction
  \/ TakePirq \/ TakeVirq
  \/ CnthpFires \/ GicrWakes

\* The fairness of the launcher; the kicker thread's, which never ends; and
\* the vCPU's, for each kind of interrupt and for the instructions of EL1 and
\* of EL2: the handler of a pended IRQ is over long before the next kick, so
\* the guest gets its share of a run, too.  Neither the timer nor the
\* redistributor has to do anything.
Stage4Fairness ==
  /\ WF_stage4_vars(Setup /\ UNCHANGED sys)
  /\ WF_stage4_vars(Run /\ UNCHANGED sys)
  /\ WF_stage4_vars(HandleExit /\ UNCHANGED sys)
  /\ WF_stage4_vars(Kick /\ UNCHANGED sys)
  /\ WF_stage4_vars(Canceled /\ UNCHANGED sys)
  /\ \A e \in {1, 2} : SF_stage4_vars(sys.el = e /\ ((Guest /\ UNCHANGED sys) \/ Instruction))
  /\ SF_stage4_vars(TakePirq)
  /\ SF_stage4_vars(TakeVirq)

Stage4Spec == Stage4Init /\ [][Stage4Next]_stage4_vars /\ Stage4Fairness

-----------------------------------------------------------------------------
(* Properties.                                                             *)

Line(text) == text \o <<CR, LF>>
Notice(intid) == <<UNEXPECTED, intid % BYTE, CR, LF>>

\* All that the run may print: the lines of kmain and gic_v3.c in order, the
\* time-out line if there was one, then the guest's, with bare line feeds.
Expected(timeout) ==
  Line(<<HELLO, 50>>) \o Line(<<GIC_INIT>>) \o (IF timeout THEN Line(<<TIMEOUT>>) ELSE <<>>)
    \o Line(<<PPI_ON>>) \o Line(<<LR0_LOADED>>)
    \o <<BANNER, LF, GOT_IRQ, 50, 97, LF, DONE, LF>>
Noticed(t) ==
  {SubSeq(t, 1, n) \o Notice(intid) \o SubSeq(t, n + 1, Len(t)) : n \in 0..Len(t), intid \in STRAY}
Transcripts ==
  LET plain == {Expected(timeout) : timeout \in BOOLEAN}
  IN plain \cup UNION {Noticed(t) : t \in plain}

\* The time-out line is on the console, or begun.
TimedOut == Len(dev.out) >= 8 /\ dev.out[8] = TIMEOUT

\* What reaches the console is one of these texts, to the byte: no exit, kick,
\* pended IRQ or timer interrupt, at whatever instruction it comes, loses,
\* repeats or alters a byte, and a notice of the EL2 handler is never torn
\* (uart.c, hvf_main.c:287-345, vectors.S's SAVE_CTX and RESTORE_CTX).
Transcript ==
  \E t \in Transcripts : Len(dev.out) <= Len(t) /\ dev.out = SubSeq(t, 1, Len(dev.out))

\* The EL2 handler returns to the guest only when what it acknowledged is
\* completed, and a timer that fired is off for good
\* (gic_handle_physical_irq, gic_v3.c:216-234).
NothingLeftActive ==
  sys.el = 1 => sys.active = {} /\ sys.count <= 1 /\ (sys.count = 1 => sys.cnthp = "off")

Finished == dev.out \in Transcripts /\ sys.lr0 = "invalid"

\* Stage 4 completes, the virtual interrupt acknowledged, reported and
\* completed, even if the redistributor never wakes, unless HVF refuses to set
\* the virtual machine up (gic_v3.c:74-86 and 152-194, guest_v3.S).
Stage4Completes == <>(Finished \/ (host = "stopped" /\ exit_info = NoExit))

\* A timer interrupt that the GIC has for EL2 is served, although nothing but
\* the launcher's unconditional pend tells the vCPU of it and the guest may
\* be waiting in wfe: the kicker thread sees to that (hvf_main.c:379-403, 496).
TimerServed == (IRQ_HTIMER_PPI \in Signalled) ~> (sys.cnthp = "off" \/ host = "stopped")

=============================================================================
