---------------------------- MODULE HvfLauncher ----------------------------
(***************************************************************************)
(* host/hvf_main.c, the macOS launcher: it loads the hypervisor's ELF file *)
(* into guest memory, starts one virtual CPU at EL2 and then loops: pend   *)
(* the IRQ, run, handle the exit.  A second thread, kicker_thread, forces  *)
(* an exit every 100 ms.  Hypervisor.framework itself and the instructions *)
(* the virtual CPU executes are external.                                  *)
(*                                                                         *)
(* The virtual CPU executes the words of ram: "mov" and the loads and      *)
(* stores of Aarch64, "smc", a call that HVF hands to the launcher, and    *)
(* "wfe", the wait at the end of a program.  What happens inside the vCPU  *)
(* without the launcher ("sys") is described by Stage4.                    *)
(***************************************************************************)
EXTENDS HvfMmio

CONSTANTS RAM_BASE,    \* GUEST_RAM_BASE
          RAM_WORDS,   \* GUEST_RAM_SIZE in words of four bytes
          HYP_ENTRY,   \* HYP_ENTRY_IPA, the entry when the file names none
          REGS,        \* the general registers that programs use
          ELFS,        \* the files the launcher may be started with
          UINT64,      \* 2^64: dst_pa + p_memsz is computed modulo this
          GICD_SIZE,   \* the sizes of the GIC's two windows, which HVF chooses
          GICR_SIZE

RAM == {RAM_BASE + 4 * n : n \in 0..(RAM_WORDS - 1)}
RAM_END == RAM_BASE + 4 * RAM_WORDS
ZERO == [op |-> "udf"]

\* Where a program header puts its segment.
Dest(ph) == IF ph.paddr # 0 THEN ph.paddr ELSE ph.vaddr

\* What programs are made of.  No compiler emits a load or store with
\* write-back of its own base register, whose result the architecture leaves
\* open, and the stack pointer never points at the device.
Access ==
  {i \in [op : {"ldr", "str"}, size : 0..3, mode : IMMEDIATE \cup OTHER_MODES,
          rt : REGS \cup {31}, rn : REGS, imm : -256..4095] :
     /\ i.mode \in {"scaled", "signed", "simd"} => i.imm >= 0
     /\ i.mode \notin {"scaled", "signed", "simd"} => i.imm <= 255
     /\ Indexed(i) => i.rt # i.rn}
Plain ==
  [op : {"mov"}, rd : REGS, val : Nat] \cup [op : {"sys"}, do : STRING, arg : Nat]
    \cup [op : {"smc", "wfe", "udf"}]

\* A program header: 64-bit fields, and the p_filesz bytes at p_offset.  Sizes
\* are counted in words and segments start at one; otherwise any header will
\* do, one with more data than p_memsz or one that ends beyond 2^64 included.
Header(ph) ==
  /\ ph.paddr \in 0..(UINT64 - 1) /\ ph.vaddr \in 0..(UINT64 - 1)
  /\ ph.memsz \in Nat /\ 4 * ph.memsz < UINT64
  /\ ph.data \in Seq(Access \cup Plain)
  /\ (Dest(ph) - RAM_BASE) % 4 = 0

\* GICD_BASE_IPA and GICR_BASE_IPA, the GIC's windows, and memory: HVF serves
\* these itself.
GICD_BASE_IPA == \h08000000
GICR_BASE_IPA == \h080A0000
Within(a, base, size) == a >= base /\ a < base + size
Backed(a) ==
  \/ Within(a, RAM_BASE, 4 * RAM_WORDS)
  \/ Within(a, GICD_BASE_IPA, GICD_SIZE)
  \/ Within(a, GICR_BASE_IPA, GICR_SIZE)

ASSUME LayoutAssumption ==
  /\ RAM_BASE \in Nat /\ RAM_WORDS \in Nat /\ HYP_ENTRY \in RAM
  /\ UINT64 \in Nat /\ RAM_END < UINT64
  /\ REGS \subseteq 0..30

\* HVF's windows and memory leave the PL011's page free.
ASSUME WindowAssumption ==
  /\ GICD_SIZE \in Nat /\ GICD_BASE_IPA + GICD_SIZE <= PL011_BASE
  /\ GICR_SIZE \in Nat /\ GICR_BASE_IPA + GICR_SIZE <= PL011_BASE
  /\ PL011_BASE + PL011_SIZE <= RAM_BASE

ASSUME ElfAssumption ==
  \A e \in ELFS :
    /\ e.valid \in BOOLEAN /\ e.entry \in 0..(UINT64 - 1)
    /\ DOMAIN e.ph = 1..Len(e.ph) /\ Len(e.ph) \in Nat
    /\ \A n \in 1..Len(e.ph) : Header(e.ph[n])

VARIABLES
  host,        \* where main is: "start", "load", "loop", "guest" (in hv_vcpu_run), "exit", "stopped",
               \* or "undefined", when load_elf_into has left guest memory
  elf, seg,    \* the file, and the next program header to load
  ram, x, pc,  \* guest memory, general registers, program counter
  dev,         \* the emulated PL011
  exit_info,   \* why hv_vcpu_run returned, until that is handled
  pending,     \* the vCPU's pending IRQ, hv_vcpu_set_pending_interrupt
  kicker       \* the kicker thread: "armed", "fired" (hv_vcpus_exit was called and has not
               \* forced an exit yet) or "asleep" (the exit came, the next 100 ms began)

boot == <<elf, seg, ram>>
vars == <<host, boot, x, pc, dev, exit_info, pending, kicker>>

NoAbort == [ec |-> 0, ipa |-> 0, isv |-> FALSE, sas |-> 0, srt |-> 0, wnr |-> FALSE]
Exit(reason, esr) == [reason |-> reason, esr |-> esr]
NoExit == Exit("none", NoAbort)

Init ==
  /\ host = "start"
  /\ elf \in ELFS /\ seg = 1
  /\ ram = [a \in RAM |-> ZERO]
  /\ x = [r \in REGS |-> 0] /\ pc = 0
  /\ dev = pl011
  /\ exit_info = NoExit
  /\ pending = FALSE /\ kicker = "armed"

-----------------------------------------------------------------------------
(* main, up to its loop.                                                   *)

\* Everything that ends the process: a failed HVF call, a file that is
\* refused, an exit that is not handled.
Stop ==
  /\ host' = "stopped"
  /\ UNCHANGED <<boot, x, pc, dev, exit_info, pending, kicker>>

\* The probe for EL2, the VM, its memory and GIC, and the ELF header.
Start ==
  /\ host = "start"
  /\ \/ Stop
     \/ /\ elf.valid
        /\ host' = "load"
        /\ UNCHANGED <<boot, x, pc, dev, exit_info, pending, kicker>>

\* Where memcpy ends, and where memset does if it is called at all.
FileEnd(ph) == Dest(ph) + 4 * Len(ph.data)
MemEnd(ph) == Dest(ph) + 4 * ph.memsz

\* The bytes a segment is written to: p_filesz of them, and up to p_memsz.
Covers(ph, a) == ph.type = "load" /\ a >= Dest(ph) /\ (a < FileEnd(ph) \/ a < MemEnd(ph))
InBounds(ph) == FileEnd(ph) <= RAM_END /\ MemEnd(ph) <= RAM_END

\* Mutant: the check is on the bytes in the file.
FitsFilesz(ph) == Dest(ph) >= RAM_BASE /\ FileEnd(ph) <= RAM_END

\* The check of load_elf_into: on p_memsz, in 64 bits.
Fits(ph) == Dest(ph) >= RAM_BASE /\ MemEnd(ph) % UINT64 <= RAM_END

\* memcpy or memset runs past the end of guest memory.  What the process does
\* then is undefined; nothing is said of it from here on.
Overrun ==
  /\ host' = "undefined"
  /\ UNCHANGED <<boot, x, pc, dev, exit_info, pending, kicker>>

\* The word a segment puts at an address: its data, then the zeroed tail.
Word(ph, a) == IF a < FileEnd(ph) THEN ph.data[(a - Dest(ph)) \div 4 + 1] ELSE ZERO

\* Mutant: the tail of a segment is not cleared.
LoadSegmentNoBss ==
  /\ host = "load" /\ seg <= Len(elf.ph)
  /\ LET ph == elf.ph[seg] IN
     \/ ph.type = "load" /\ ~Fits(ph) /\ Stop
     \/ ph.type = "load" /\ Fits(ph) /\ ~InBounds(ph) /\ Overrun
     \/ /\ ph.type = "load" => Fits(ph) /\ InBounds(ph)
        /\ ram' = [a \in RAM |-> IF Covers(ph, a) /\ a < FileEnd(ph) THEN Word(ph, a) ELSE ram[a]]
        /\ seg' = seg + 1
        /\ UNCHANGED <<host, elf, x, pc, dev, exit_info, pending, kicker>>

\* One iteration of load_elf_into's loop.
LoadSegment ==
  /\ host = "load" /\ seg <= Len(elf.ph)
  /\ LET ph == elf.ph[seg] IN
     \/ ph.type = "load" /\ ~Fits(ph) /\ Stop
     \/ ph.type = "load" /\ Fits(ph) /\ ~InBounds(ph) /\ Overrun
     \/ /\ ph.type = "load" => Fits(ph) /\ InBounds(ph)
        /\ ram' = [a \in RAM |-> IF Covers(ph, a) THEN Word(ph, a) ELSE ram[a]]
        /\ seg' = seg + 1
        /\ UNCHANGED <<host, elf, x, pc, dev, exit_info, pending, kicker>>

\* The vCPU, its MPIDR and registers, and the kicker thread.
CreateVcpu ==
  /\ host = "load" /\ seg > Len(elf.ph)
  /\ \/ Stop
     \/ /\ host' = "loop"
        /\ pc' = IF elf.entry = 0 THEN HYP_ENTRY ELSE elf.entry
        /\ UNCHANGED <<boot, x, dev, exit_info, pending, kicker>>

-----------------------------------------------------------------------------
(* The loop, and the thread beside it.                                     *)

\* Mutant: the kicker thread returns after its first kick.
RunKickedOnce ==
  /\ host = "loop"
  /\ IF kicker = "fired"
       THEN /\ host' = "exit" /\ exit_info' = Exit("canceled", NoAbort)
            /\ pending' = FALSE /\ kicker' = "asleep"
       ELSE /\ host' = "guest" /\ UNCHANGED <<exit_info, kicker>>
            /\ pending' = TRUE
  /\ UNCHANGED <<boot, x, pc, dev>>

\* Pend the IRQ and enter hv_vcpu_run, which returns at once if an exit was
\* asked for in between.  The kicker's 100 ms are over at some time after the
\* vCPU has entered the guest again: a pass of the loop takes microseconds.
Run ==
  /\ host = "loop"
  /\ IF kicker = "fired"
       THEN /\ host' = "exit" /\ exit_info' = Exit("canceled", NoAbort)
            /\ pending' = FALSE /\ kicker' = "asleep"
       ELSE /\ host' = "guest" /\ UNCHANGED exit_info
            /\ pending' = TRUE /\ kicker' = "armed"
  /\ UNCHANGED <<boot, x, pc, dev>>

\* kicker_thread, which runs beside main from CreateVcpu on.
Kick ==
  /\ host \in {"loop", "guest", "exit"} /\ kicker = "armed"
  /\ kicker' = "fired"
  /\ UNCHANGED <<host, boot, x, pc, dev, exit_info, pending>>

\* hv_vcpu_run returns; the pending IRQ does not outlive the run.
Leave(info) ==
  /\ host = "guest"
  /\ host' = "exit"
  /\ exit_info' = info
  /\ pending' = FALSE
  /\ UNCHANGED <<boot, x, pc, dev>>

Canceled == kicker = "fired" /\ kicker' = "asleep" /\ Leave(Exit("canceled", NoAbort))
VtimerActivated == Leave(Exit("vtimer", NoAbort)) /\ UNCHANGED kicker

\* hv_vcpu_run fails, or gives a reason that main does not know.
UnknownExit == Leave(Exit("unknown", NoAbort)) /\ UNCHANGED kicker

\* The instruction at the PC, if the vCPU can fetch one.
Fetched(ops) == host = "guest" /\ pc \in RAM /\ ram[pc].op \in ops

Mov ==
  /\ Fetched({"mov"})
  /\ x' = [x EXCEPT ![ram[pc].rd] = ram[pc].val]
  /\ pc' = pc + 4
  /\ UNCHANGED <<host, boot, dev, exit_info, pending, kicker>>

\* An access that HVF does not serve itself faults.  A syndrome is valid at
\* most for the forms without write-back; HVF may leave it out for those too.
\* Accesses to memory and to the GIC do not exit; programs make them in "sys"
\* words.
Syndrome(i, isv) ==
  [ec |-> 36, ipa |-> Address(i, x), isv |-> isv,
   sas |-> IF isv THEN i.size ELSE 0, srt |-> IF isv THEN i.rt ELSE 0,
   wnr |-> isv /\ i.op = "str"]

Abort(isv) ==
  LET i == ram[pc] IN
  /\ Fetched({"ldr", "str"})
  /\ ~Backed(Address(i, x))
  /\ isv => i.mode \in IMMEDIATE /\ ~Indexed(i)
  /\ Leave(Exit("exception", Syndrome(i, isv)))
  /\ UNCHANGED kicker

Smc ==
  /\ Fetched({"smc"})
  /\ Leave(Exit("exception", [NoAbort EXCEPT !.ec = 23]))
  /\ UNCHANGED kicker

\* The program has run out of memory, or the file's entry is outside it.
InstructionAbort ==
  /\ pc \notin RAM
  /\ Leave(Exit("exception", [NoAbort EXCEPT !.ec = 32]))
  /\ UNCHANGED kicker

\* Can handle_data_abort find out what the access was, and is it the PL011's?
Understood(esr) ==
  /\ esr.isv \/ (pc \in RAM /\ Decodes(Encode(ram[pc])))
  /\ in_pl011_range(esr.ipa)

\* What the access does to the registers and the device.
Emulation(esr) ==
  LET d == IF esr.isv THEN FromSyndrome(esr) ELSE decode_ldst(Encode(ram[pc]))
  IN Emulated(d, esr.ipa - PL011_BASE, x, dev)

InDataAbort == host = "exit" /\ exit_info.reason = "exception" /\ exit_info.esr.ec \in {36, 37}

\* A data abort that is handled: the access, its write-back and the step over
\* the instruction.
DataAbort ==
  LET m == Emulation(exit_info.esr) IN
  /\ InDataAbort /\ Understood(exit_info.esr)
  /\ host' = "loop"
  /\ x' = m.x /\ dev' = m.dev
  /\ pc' = pc + 4 /\ exit_info' = NoExit
  /\ UNCHANGED <<boot, pending, kicker>>

\* One of the HVF calls on the way fails, which ends the process: before the
\* device is accessed, or behind that, with the registers or the PC still to be
\* written.  The guest's registers end with the process.
DataAbortFails ==
  LET esr == exit_info.esr IN
  /\ InDataAbort
  /\ \/ (esr.isv => Understood(esr)) /\ UNCHANGED dev
     \/ Understood(esr) /\ dev' = Emulation(esr).dev
  /\ host' = "stopped" /\ exit_info' = Exit("failed", NoAbort)
  /\ UNCHANGED <<boot, x, pc, pending, kicker>>

Resume ==
  /\ host = "exit" /\ exit_info.reason \in {"canceled", "vtimer"}
  /\ host' = "loop" /\ exit_info' = NoExit
  /\ UNCHANGED <<boot, x, pc, dev, pending, kicker>>

\* dump_state and out.
Unhandled ==
  /\ host = "exit"
  /\ \/ exit_info.reason = "unknown"
     \/ /\ exit_info.reason = "exception"
        /\ ~(InDataAbort /\ Understood(exit_info.esr))
  /\ Stop

-----------------------------------------------------------------------------
Guest == Mov \/ \E isv \in BOOLEAN : Abort(isv)
Setup == Start \/ LoadSegment \/ CreateVcpu
HandleExit == DataAbort \/ Resume \/ Unhandled

\* The launcher with an HVF that has no surprises for it.
Launcher == Setup \/ Run \/ Kick \/ Canceled \/ VtimerActivated \/ Guest \/ HandleExit

Next == Launcher \/ Smc \/ InstructionAbort \/ UnknownExit \/ DataAbortFails

Spec == Init /\ [][Next]_vars

\* main keeps running, and so does the vCPU: it has 100 ms between two kicks,
\* so it executes an instruction in some run if it is in the guest again and
\* again.
Fairness ==
  /\ WF_vars(Setup) /\ WF_vars(Run) /\ WF_vars(HandleExit)
  /\ SF_vars(Guest)

FairSpec == Spec /\ Fairness

-----------------------------------------------------------------------------
(* Properties.                                                             *)

\* The general registers, and the device, which never raises an interrupt.
RegisterFile == [REGS -> Int]
Device == [reg : [STORED -> Int], ris : {{}}, out : Seq(Int)]

\* Every variable has its type.  In particular the zero register is never one
\* that is written (write_gpr, hvf_main.c:204-207): where HVF numbers X0 to X30,
\* the next register is the PC.
TypeOK ==
  /\ host \in {"start", "load", "loop", "guest", "exit", "stopped", "undefined"}
  /\ elf \in ELFS /\ seg \in Nat
  /\ ram \in [RAM -> Access \cup Plain]
  /\ x \in RegisterFile /\ pc \in Int
  /\ dev \in Device
  /\ exit_info.reason \in {"none", "canceled", "vtimer", "unknown", "failed", "exception"}
  /\ pending \in BOOLEAN /\ kicker \in {"armed", "fired", "asleep"}

\* The header of a segment as a linker writes it: no more data than memory, and
\* it ends below 2^64.  The code checks neither.
Linked(ph) == Len(ph.data) <= ph.memsz /\ MemEnd(ph) < UINT64

\* load_elf_into leaves guest memory only for a header that no linker writes:
\* for any other, its one check keeps both the copy and the cleared tail inside
\* (hvf_main.c:128-138).
LoadsInBounds == host = "undefined" => ~Linked(elf.ph[seg])

\* Guest memory is what the file says: every word belongs to the last of the
\* segments loaded so far that writes it, its data first, all of it, and zeroes
\* from there to p_memsz, and is zero if none does (load_elf_into,
\* hvf_main.c:125-141).
ImageLoaded ==
  \A a \in RAM :
    \/ /\ ram[a] = ZERO
       /\ \A n \in 1..(seg - 1) : ~Covers(elf.ph[n], a)
    \/ \E n \in 1..(seg - 1) :
         /\ Covers(elf.ph[n], a)
         /\ ram[a] = Word(elf.ph[n], a)
         /\ \A k \in (n + 1)..(seg - 1) : ~Covers(elf.ph[k], a)

=============================================================================
