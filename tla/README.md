# Verification of the AArch64 EL2 hypervisor

TLA+ models of the hypervisor in `src/`, TLC runs that check them on small
instances, and TLAPS proofs of the central properties for every instance. Two
builds are modelled: the GICv2 build for QEMU `virt`, and the GICv3 build with the
macOS launcher that runs it under Hypervisor.framework. `PROJECT.json` lists components, runs, mutants, the map from
definitions to source lines, findings, hazards and theorems.

## 1. The system

**GICv2 build.** One physical CPU. EL2 owns the physical interrupt controller and two timers and
runs up to `NVCPU` guests (1 by default, 2 in the "Stage 7" layout): vCPU 0 is
Linux, vCPU 1 the bare-metal guest of `guest.c`. EL2 runs with interrupts masked.

| Part | State | Operations that change it | What makes it hard |
|---|---|---|---|
| Physical IRQ handling, `gic.c` | GICD registers, active interrupts at the CPU interface, PL011 mask | `gic_init_el2`; `gic_handle_physical_irq`: tick, guest timer, console, other | SPI 33 is left active until a guest completes it; priorities decide what can preempt it |
| Virtual GIC, `vgic.c` | per vCPU `vgic_t`; the one live `HCR_EL2.VI` | `vgic_inject`, `vgic_forward_spi`, `vgic_ack_all`, IAR read, EOIR write, stored registers, distributor forwarding; every access ends in two reassertions | one bit and one active slot stand for per-vCPU bitmaps; guests write the real distributor |
| Scheduler, `sched.c` | `current`, `vcpus[]`, CNTHP, live CNTV and EL1 registers | `sched_start`, `sched_tick` (`save_vcpu`, `load_vcpu`), `arm_hyp_timer_ms` | a switch at any point of a guest's interrupt handling; table walks between two register writes |
| Exit dispatch, `exceptions.c` | trap frame, exit ring | `handle_hvc`, `handle_psci`, `handle_wfi`, `handle_sysreg`, `handle_stage2_abort`, `dump_and_halt` | ELR is advanced by each handler for itself; the ring wraps; `handle_wfi` reads the controller twice |
| Stage 2, `stage2.c` | four tables per VM | `stage2_global_init`, `stage2_alloc_vm` | indices by shifts, three levels, a hole that has to trap |
| Bare-metal guest, `guest.c`, `guest_vectors.S` | its timer, where it is | entry, interrupt handler, `HVC_IRQ_DONE` | completes interrupts it has never looked at |
| Linux (external) | the same | acknowledges, services, completes; writes GICD; masks the PL011 | not under EL2's control |

Interactions: a physical interrupt enters through `handle_exception`, is
acknowledged in `gic.c`, pended in the running vCPU's `vgic_t`, raises `VI`, is
acknowledged by that guest through an emulated register (a stage-2 abort back
into EL2) or by HVC, and only then, for SPI 33, completed at the real controller.
The tick may replace the running vCPU between any two of these.

**GICv3 build and HVF launcher.** A host process with two threads around one
virtual CPU.

| Part | State | Operations that change it | What makes it hard |
|---|---|---|---|
| Launcher, `host/hvf_main.c` | guest memory, the vCPU's registers, the exit it handles, the pending IRQ | ELF loading; the loop (pend, run, handle the exit); `handle_data_abort`; `kicker_thread` | an access is decoded from the instruction, done, written back and stepped over in separate calls; exits come at any instruction |
| PL011 emulation, `hvf_main.c` | stored registers, interrupt status, output | reads, writes | access sizes, registers without storage |
| EL2 code, `kmain.c`, `uart.c`, `gic_v3.c`, `vectors.S` | GIC, system registers, list register 0, trap frame | initialisation, `stage4_eret_to_guest`, `gic_handle_physical_irq` | an IRQ is pended on every run, mostly with no interrupt behind it |
| EL1 guest, `guest_v3.S` | its own registers and stack | entry, interrupt handler | it shares the UART with the EL2 handler that interrupts it |

The EL2 code prints through the emulated PL011, so every byte is a data abort; the
loop pends an IRQ before every run, which EL2 takes as soon as it has entered the
guest; the kicker ends a run in which nothing else would.

## 2. Modules

| Module | Models | State and actions |
|---|---|---|
| `Gic` | the distributor and CPU interface as EL2 uses them (external), `gic_init_el2`, the reassertions, `handle_wfi`'s word writes | `gicd`, `phys_active`; operators on a distributor |
| `Vgic` | `vgic.c` | `vgics`, `vi`; one operator per function or register |
| `Sched` | `sched.c`, a switch as one step | `current`, `vcpus`, `cntv`, `cnthp` |
| `Hypervisor` | the composition with guests, UART and time | one action per handler arm, per guest step and per device event |
| `VirtualCpus` | abstract: what guests are promised, a line and a timer each | implemented by `Hypervisor` (`PrivateSpec`) |
| `VcpuSwitch` | `save_vcpu`/`load_vcpu` register by register, with the table walker | `regs`, `vcpus`, `tlb`, `step` |
| `ExitRing`, `Exceptions` | exit ring; dispatch, hypercalls, PSCI, aborts as seen in the trap frame | `exit_ring*`, `tf`, `vcpus`, `retired`, `halted` |
| `Stage2` | tables and walk | `s2`, `access` |
| `Pl011` | the launcher's PL011 | operators on the device |
| `Aarch64` | loads and stores: encoding, addressing, effect (external) | operators |
| `HvfMmio` | `decode_ldst`, the syndrome path, the emulated access | operators |
| `HvfLauncher` | `main`, `load_elf_into`, `handle_data_abort`, `kicker_thread`; HVF itself is external | `host`, `ram`, `x`, `pc`, `dev`, `exit_info`, `pending`, `kicker` |
| `NativeMachine`, `LauncherView` | abstract: a machine with a PL011 on its bus; the mapping from `HvfLauncher` (`NativeSpec`) | `power`, memory, registers, device |
| `Stage4` | the GICv3 build as words in guest memory, executed by `HvfLauncher` | adds `sys`: the GIC and the system registers |
| `Console`, `Stage4Console` | abstract: a text with whole notices in it; the mapping from `Stage4` (`ConsoleSpec`) | `out`, `text`, `said`, `rest`, `due` |
| `MC*` | instances for TLC | |
| `HypervisorProofs`, `VcpuSwitchProofs`, `ExceptionsProofs`, `Stage2Proofs`, `HvfProofs` | theorems | |
| `Stage4Places`, `Stage4Text`, `Stage4Code`, `Stage4Proofs` | conditions at each word of the image, lemmas on the words and on single steps, theorems | |

Abstractions. A handler is one action, because EL2 masks interrupts and devices
are only observed through the controller; `handle_wfi` reads GICC_HPPIR and then
GICC_IAR, so it is two (`el2 = "wfi"` in between). A timer is off, armed or due.
The PL011 FIFO is empty or not. `pending_mask` is a set of INTIDs. Registers that
a switch only carries along are grouped. Addresses in `Stage2` are page numbers.
In `Exceptions` an address is a count of instructions. `exit_history`, `view`,
`retired`, `psci_told`, `psci_got` and `deadline` are history variables: the code does not have them.
An A64 instruction is a record in `HvfLauncher` and a pair of 16-bit halves where
`decode_ldst` looks at its bits. Memory is words. A text printed by the GICv3 build
is one byte and its line end; the carriage return that `uart_puts` adds and
`guest_v3_puts` does not is kept. A byte has `BYTE` values, 128 in the runs to keep a
64-bit datum within TLC's integers.
Definitions whose names extend a mapped one and whose comment begins with
"Mutant:" are faulty variants, used only to show that a property can fail.

Not in the models: FP/SIMD, CNTKCTL_EL1 and CSSELR_EL1, which `save_vcpu` does
not save; guest writes to GICD_ISACTIVER, ICACTIVER, ISPENDR and IGROUPR, which
`vgic_mmio` forwards like the others (`DeferredEoi` would not survive a guest that
clears or sets the active bit of SPI 33); printed text. `sched.c:26-32` describes a QEMU timer fault for `NVCPU=2`; the model's
timers work as the architecture says.

External assumptions about Hypervisor.framework, taken from how the launcher
relies on it: a pended IRQ is taken at most once in a run and does not outlive it
(comment at the pend, `hvf_main.c`); `hv_vcpus_exit` between two runs makes the next
one return at once; an exit for the virtual timer may come at any time; a
syndrome with ISV set is only given for forms without write-back. The result of
`hv_vcpu_set_pending_interrupt` is not looked at by the code; the model has it succeed.
Accesses to guest memory and to the GIC's windows are HVF's and do not exit: in a
program they are "sys" words, and `Abort` is about other addresses only. An HVF call
may fail during set-up, in `hv_vcpu_run` and anywhere in the handling of a data abort
(`DataAbortFails`): the process ends. `NativeMachine` promises what the comment on
`ldst_decoded_t` does, loads and stores with an immediate on the PL011's page; a real
machine has more forms (`Supported`). A segment that leaves guest memory ends the
model's behaviour in `host = "undefined"`; segments that are not word-aligned, and a
`p_offset` beyond the file, are not in the model.

## 3. Runs

Passing runs:

| Run | Instance | Shows |
|---|---|---|
| `Core` | Linux + bare guest, INTIDs 26, 27, 33, Linux's GICD writes | `VirqMatchesPending`, `DeferredEoi`, `DeferredEoiIsComing`, `ActiveSlotIsExact`, `TickStaysOn`, `LinuxTimerKept`; `PrivateSpec`: a switch is invisible to line and timer |
| `OneCpu` | Linux alone, GICD writes of every modelled kind to PPI 26 and SPI 33 (`GICD_CTLR = 0`, PPI 26 at priority 255 included) and a GICC write, one-CPU GIC, an SGI | `ConsoleKept`: input is drained by the poll of `handle_wfi` alone, unless it has wedged the interface or the distributor is off; `TickReturns`: a tick that is due is taken, except then and at the masked priority |
| `Live` | two vCPUs, tick priority lowered at will | `EveryVcpuRuns`, `InputIsDrained`, `PendingIsTaken` |
| `Switch` | two vCPUs, walks at every point | `TlbIsOwn`, `RegistersKept`, `NeverMixed` |
| `Exits` | two vCPUs, ring of 2, 4 exits, every PSCI function called and asked about | `DumpIsHistory`, `ResumesBehindTrap`, `DumpStartsWithFault`; `FeaturesMatchCalls`: PSCI_FEATURES says yes exactly of functions that are not refused |
| `Stage2` | two VMs, pages around every boundary | `AccessFollowsLayout`, `GicIsEmulated`, `PrivateIsPrivate` |
| `Launcher` | 512 programs with one device access each and 8 special ones, 12 file layouts, exits of all kinds, failing HVF calls | `LoadsInBounds`: the check of `load_elf_into` is enough for any header a linker writes; `ImageLoaded`, `StopsOnlyWhenStuck`; `NativeSpec`: the guest cannot tell emulation from a device, and gets on |
| `Stage4` | the GICv3 build from the ELF file to its last line, kicks and pended IRQs everywhere | `Transcript`: the console output to the byte; `ConsoleSpec`: each byte of it comes from its place in the program or from the notice in hand; `NothingLeftActive`; `Stage4Completes` even if the redistributor never wakes; `TimerServed` by the pend and the kicker |

`TypeOK` is an invariant of the runs `OneCpu`, `Switch`, `Exits`, `Stage2` and `Launcher`.

Runs that show the code and a comment disagree (details in `findings`):

| Run | The comment | What happens |
|---|---|---|
| `WfiStrayAck` | `vgic.h:11-13` PPIs are completed inline | a timer due between HPPIR and IAR is acknowledged and never completed |
| `TickShadow` | `sched.c:90` CNTHP fires every slice | with PPI 26 lowered to 0xA0, SPI 33 active for a switched-out vCPU blocks the tick for good. In the trace SPI 33 comes as an interrupt, the path that the repository's `README.md:248` calls unreliable; the poll forwards it in the same way |
| `ConsoleLost` | `vgic.c:37-38` Linux never loses console RX | the bare guest can hold SPI 33 through every slice of Linux. The trace uses the interrupt path that the repository's `README.md:248` calls unreliable; the poll it recommends cannot help, since SPI 33 is active whenever Linux polls |
| `BareTimerLost` | `guest.c:13-15` a timer that fires is taken | `HVC_IRQ_DONE` drops a timer interrupt that arrived after the rearm. The model has no clock: in real time the guest has to be held up for its 100 ms period between the two, of which a slice of the other vCPU is 50 ms and the rest is up to the host under QEMU |

Other comments that the models contradict, without a run of their own:

* `sched.c:63` calls `ticks` the "vtimer interrupts taken by this guest";
  `guest_irq_handler` counts a forwarded SPI 33 as well.
* `sched.c:174` says the flush of `load_vcpu` is for the *outgoing* VMID. VTTBR_EL2
  already holds the incoming one, which is flushed; `TlbIsOwn` shows that this is
  the flush that is needed (its mutant is the one the comment describes).
* `vgic.h:36` says ELR should be advanced if `vgic_mmio` returns 1;
  `exceptions.c:321-322` advances it also for 0, an access without syndrome.
* `stage2.h:9-10` and `stage2.c:10` put the private page at 0x50000000, which is in
  the RAM block every VM maps; the code maps it at 0x0A000000.
* `stage2.c:8-9` lists the GIC pages as mapped, and the repository's `README.md:228-230`
  says the guest reaches the distributor directly; both windows are unmapped
  (`stage2.c:89`) and emulated.
* `exceptions.c:302` says "clear SGI pending"; GICD_ICPENDR0 does not clear SGIs on a
  GICv2, so they stay (`wfi_gicd`).
* PSCI_FEATURES reports SYSTEM_RESET as implemented (`exceptions.c:99`); a call only
  halts (`exceptions.c:112-113`).
* `sched.c:21-22` says one vCPU leaves the tick disabled; `sched_start` arms it.
* `exceptions.c:300-301` say that `handle_wfi`'s words set the target and priority of
  INTID 33; the byte that is set is INTID 34's (`WfiTarget`, `WfiPrio`).
* `gic_v3.c:8-10` says the launcher reads ICC_HPPIR1_EL1 and pends an IRQ if anything
  is present; `hvf_main.c:496` pends one before every run.
* `hvf_main.c:13-20` and the text of `dump_state` say the GIC is not there yet; it is
  created before memory is loaded. `README.md:150` of the repository says the same.
* The PL011's flag register reads 0, which the comment calls "TX empty, RX empty";
  RXFE is then 0, so a reader would take the FIFO to hold data. Nothing reads.
* `vectors.S:9-10` says the stage-2 handler always halts; it resumes the guest.

### Bounds

Two vCPUs are what the code builds, and a round robin of two has every pair of
owner and non-owner. `INTIDS` holds the three interrupts EL2 knows; `OneCpu` adds an
SGI. Its GICD writes include PPI 26 at priority 255, which GICC_PMR masks, its GICC
write a value with bits that `vgic_mmio` does not store. INTID 34, whose byte lane
`handle_wfi` hits, is in no run: what matters is that 33's own lane is cleared. The FIFO as a bit loses nothing, as
only its being empty matters to the line. `PROMPT_IRQ = FALSE` in `Core`
lets a guest take any number of steps before a signalled interrupt is taken;
`TRUE` in `OneCpu` and `Live`, which check liveness, is the hardware's behaviour. The
passing runs have the ITARGETSR of a one-CPU GIC (`ITargetsWritable = FALSE`); the
safety invariants are proved for both values, and `TickShadow` uses `TRUE`. `ARM_PC` restricts where
Linux programs its timer, to keep the liveness graphs small. `Live` has no Linux
timer; the bare guest's is always there. A ring of 2 wraps twice in 4 exits; the
theorems are about any ring and any number of exits. `Stage2` runs on boundary
pages only, its theorems are about all 2^20.

`Launcher` starts from each program separately. A program makes one access: both
directions, all four sizes, a general register and XZR, each form at both ends of
its immediate, on a register with and without storage, one that is computed and one
that is write-only; forms and addresses the launcher refuses; SMC; running off the
end of memory. A second access, a fixed read, shows what the first left behind. The
file layouts have a header that is not loaded, a zeroed tail over earlier data,
overlapping segments, a missing physical address, a missing entry point, an entry
outside memory, segments one word too low and too long, more data than memory inside
guest memory and beyond it, and a size that wraps. `UINT64` is shrunk to stay within
TLC's integers; it is above the end of memory, which is all that the check's
arithmetic can tell. The theorems are about any program and any file with
word-aligned segments. `Stage4` is the whole program, so nothing is cut but the length of its texts
and the polls of GICR_WAKER (`MAX_SPINS` = 2 for 1000000: awake before, between and
never). `STRAY` is one interrupt that reset may leave pending; CNTHP may be off or
running at reset.

Deadlock is checked everywhere except in `Exits`, where PSCI and fatal exits stop
the machine and `MAX_EXITS` ends the behaviour, and in `Launcher` and `Stage4`, where
the process may end.

### Fairness

Weak fairness of `TickDue`, `VtimerDue` (time passes), of `HandleWfiIar`, and of
`PhysIrq` for the interrupts other than SPI 33 (the CPU executes). Strong fairness,
per vCPU, of taking a virtual interrupt, of progressing through its handler, of its
timer's interrupt in its slices, and of WFI in a Linux guest: a vCPU runs in slices,
so these are enabled again and again rather than for ever, and a slice of 50 ms is
long enough for each. Nothing is assumed of SPI 33 as an interrupt (`Pl011Irq`): the
repository's `README.md:248` and `exceptions.c:294-297` say that it cannot be relied
on, and that the poll at WFI is what delivers input ("Linux's idle path hits WFI
constantly", `exceptions.c:287`). No fairness is assumed of GICD writes,
of input, or of a guest programming its timer.

In the launcher the host thread gets on (weak fairness of set-up, run and exit
handling), the kicker keeps kicking, and the vCPU executes an instruction if it is in
the guest again and again: it has 100 ms between two kicks. `Stage4` asks this for
EL1 and for EL2 separately (strong fairness), since the handler of a pended IRQ is
over long before the next kick, and for each kind of interrupt. Nothing is asked of
CNTHP, of the redistributor, or of HVF's own timer exits.

The liveness properties exempt two states, `Wedged` (run `WfiStrayAck`) and
`TickShadowed` (run `TickShadow`), from which nothing recovers. A guest that
clears GICD_CTLR is in `OneCpu`, where `ConsoleKept` and `TickReturns` exempt the time
until it sets it again: nothing in EL2 reasserts it. `TickReturns` exempts PPI 26 at
priority 255, too.

## 4. What is proved

For any `NVCPU`, any interrupts containing 26, 27 and 33, any choice of Linux and
bare guests and any set of the modelled GICD writes (`GicdWrites`; assumptions `IntidAssumption`,
`NvcpuAssumption`, `GuestAssumption`):

* `TypeCorrect`: `Spec => []TypeOK`.
* `VirqCorrect`: `VI`, live or saved, says whether the bitmap is empty. Inductive
  together with `TypeOK`. Steps that touch neither are one lemma (`VirqQuiet`),
  and the tick is the case that needs both halves of the saved context.
* `DeferredEoiCorrect`: SPI 33 is active exactly when one vCPU owes its EOI. Not
  inductive from the EOIs alone: that no second vCPU comes to owe it rests on
  the controller, which does not return an interrupt that is active, so a
  forward happens only when nobody owes one.
* `TickCorrect`: the enable bit of PPI 26 and CNTHP stay set. A guest can still stop
  the tick through GICD_CTLR or a priority; `TickReturns` and the run `TickShadow` are
  about that.
* `ActiveSlotCorrect` and `EoiIsComingCorrect`: proved together as
  `SlotInv`, inductive over `TypeOK` and `DeferredEoi`. The slot is needed for the EOI:
  a guest that is in its handler for SPI 33 completes *that* interrupt because the
  slot and `irqstat` agree. Steps that only pend are one lemma (`SlotPends`).
* `TimerCorrect`: `LinuxTimerKept` is inductive over `TypeOK` alone; the tick is
  `TickMovesTimers`, which needs that the next vCPU is another one.
* `ImplementsPrivate`: `Spec => PrivateSpec`. With
  `VirqMatchesPending` before and after a step, a vCPU's line is a function of its
  bitmap (`LineIsMask`), so each step only has to be matched on bitmaps, timers and
  the owner of SPI 33. `DeferredEoi` gives that a forward finds no owner.

For any number of vCPUs (`VcpuSwitchProofs`):

* `RegistersCorrect`, `NeverMixedCorrect`, `TlbCorrect`, `SwitchTypes`. The inductive `SwitchInv`
  adds that at each point of `LoadOrder` the registers already written are the
  incoming guest's (`Loaded`), that stage 1 is off between the two writes of
  SCTLR_EL1 (`OffBetween`), and that a guest leaves with its own VMID and, with
  stage 1 on, its own tables (`Own`). `NeverMixedCorrect` is about the stage-1 registers
  while stage 1 is on; the incoming VMID goes with the outgoing tables for a few
  writes, and `TlbCorrect` shows that what is cached then is flushed.

For any number of vCPUs, any power of two as ring size, any bound on the exits
and any set of PSCI calls (`RingAssumption`, `ExitAssumption`):

* `DumpCorrect`: `RingInv` says that the slot i behind the head holds the i-th
  exit back. The mask arithmetic is in `ModTurn` and `SlotFacts`.
* `ResumeCorrect`: inductive with the types; one lemma (`Resumes`) for the exits
  that retire an instruction, one (`TickResumes`) for the exchange of frames.
* `FaultCorrect`: from the ring and `FaultIsLast`.
* `FeaturesCorrect`: what was told follows `psci_features`, and what a call came to
  follows the cases of `handle_psci`, in any order of questions and calls.
* `ExitTypes`: `Spec => []TypeOK`.

For any number of VMs with distinct private pages (`Stage2Assumption`):

* `WalkFollowsLayout`: the tables give the memory map, on every page.
* `LayoutCorrect`, `GicCorrect`, `PrivateCorrect`: the three invariants, from the
  inductive `S2Inv` (a built VM has exactly `Tables(id)`).
* `Stage2Types`: `Spec => []TypeOK`, with the walk's result typed through the layout.

For any program of A64 loads, stores and moves, any ELF file with word-aligned
segments and 64-bit fields, any memory size and any sequence of exits and failing
calls (`LayoutAssumption`, `WindowAssumption`, `ElfAssumption`, `ByteAssumption`), in
`HvfProofs`:

* `DecodeCorrect`: `decode_ldst` accepts exactly the immediate forms and returns the
  fields they were encoded from. `BitsOfHalves` is the arithmetic of bit fields that
  straddle the halves, `LongForm` and `ShortForm` the two instruction layouts.
* `LauncherInvariant`: `LauncherInv` is inductive. Beside `ImageLoaded`,
  `LoadsInBounds` and `StopsOnlyWhenStuck` it says that memory is well formed (`Shape`), that there is no
  exit to handle unless the host handles one (`Idle`), and that the abort in
  `exit_info` is that of the instruction at the PC with the present registers
  (`AbortIsCurrent`): the launcher reads both again after the exit.
* `BoundsCorrect`, `ImageCorrect`, `GivesUpOnlyWhenStuck`: from `LauncherInv`. The first
  is `LinkedInBounds`: with no more data than memory and no wrap, the one comparison of
  `load_elf_into` bounds the copy and the tail.
* `LauncherTypes`: `Spec => []TypeOK`.
* `ImplementsMachine`: `Spec => Native!Spec`, the safety part of `NativeSpec`. An abort
  is a stutter, the handled abort the whole instruction (`HandledIsAccessed`: decoding
  or syndrome, then emulation, is what the instruction does), and a call that fails
  in the middle is a loss of power with the access done or not (`FailedIsAccessed`).

For the GICv3 build on the launcher, for any memory layout and file that hold the
image, any bound on the polls and any set of interrupts that reset leaves pending
(`Stage4Assumption`), in `Stage4Proofs`:

* `Stage4Invariant`: `Stage4Inv` is inductive. It places the program at one of the 157
  words of the image and the handler at one of its own or nowhere, and says what
  registers, trap frame, GIC and console have to hold there (`Stage4Places`): the
  frame has the interrupted program's registers while the handler runs, x19 the
  interrupt it acknowledged, x0 the byte about to be printed. `Stage4Text` finds
  every word of the image, `Stage4Code` shows what a step at each of them does, and
  the launcher's part is `LauncherInv`.
* `HandlerCompletes`: `NothingLeftActive`.
* `ConsoleCorrect`: `Stage4Spec => ConsoleSpec`. A step prints nothing, the byte of the
  program's word, or the byte of the handler's word.
* `TranscriptCorrect`: `Transcript`, if there is at most one such interrupt: `Transcripts`
  lists the texts with one notice. From `ConsoleCorrect`, by what `Console` can show.

## 5. What is only model-checked

Liveness (fairness and ENABLED are out of the prover's reach): the properties of
`Live`, `ConsoleKept`, `TickReturns`, `Stage4Completes`, `TimerServed`, and the fairness in
`NativeSpec`. Every safety property of a passing run is proved. No module has a
RECURSIVE operator.

## 6. Order of the build

1. `Gic`, `Vgic`, `Sched`, `Hypervisor` with the safety runs.
2. Liveness and the abstract specification `VirtualCpus`.
3. `VcpuSwitch`, `ExitRing`, `Exceptions`, `Stage2`.
4. Proofs of the core, of the switch, of the exits and of `Stage2`.
5. `Pl011`, `Aarch64`, `HvfMmio`, `HvfLauncher` with `NativeMachine`; `Stage4` on top.
6. The interrupt slot, `ImplementsPrivate`, `HvfProofs` and the remaining type theorems.
7. `Console` and the proofs about `Stage4`; odd ELF headers and failing HVF calls in
   `HvfLauncher`.

## 7. Not modelled

* `boot.S` and `linker.ld` beyond the order of the image: straight-line code that runs
  once before there is any state.
* The Linux boot protocol: the image, device tree and initramfs that `sched.c` points
  a vCPU at are data to the hypervisor; `tools/` is a host script.
* `vgic_v3.c` (empty stubs that the GICv3 build does not reach, because `gic_init_el2`
  does not return), `cnthp_arm_ms` (never called), the unused vectors of `guest_v3.S`
  (print and halt).
* What `exceptions.c`, `dump_state` and `guest.c` print, and the copies of registers
  that are made only to be printed.
* Hypervisor.framework and the GICs themselves, beyond what the code relies on.
* `PSCI` after a halt: CPU_OFF of one guest stops EL2 in a `wfe` loop and every other
  guest with it. The model has it (`Exceptions`); no line of the repository promises
  the others anything, so there is nothing to check.
