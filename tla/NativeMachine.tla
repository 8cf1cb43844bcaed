--------------------------- MODULE NativeMachine ---------------------------
(***************************************************************************)
(* What the launcher promises the program it boots: a machine with a PL011 *)
(* on its bus.  Instructions take effect one after the other, a device     *)
(* access like any other, whole and once; the machine may lose power       *)
(* between two of them, or in the middle of an access when the device has  *)
(* just seen it.  HvfLauncher implements this with data aborts, emulation  *)
(* and exits at any time.                                                  *)
(***************************************************************************)
EXTENDS Aarch64

CONSTANTS RAM,         \* the addresses of the words of memory
          REGS,        \* the general registers that programs use
          ZERO         \* a word of zeroes

VARIABLES power,       \* "off", "on" or "lost"
          ram, x, pc, dev

vars == <<power, ram, x, pc, dev>>

Init ==
  /\ power = "off"
  /\ ram = [a \in RAM |-> ZERO]
  /\ x = [r \in REGS |-> 0]
  /\ pc = 0
  /\ dev = pl011

\* The program is put into memory before the first instruction.
Load ==
  /\ power = "off"
  /\ UNCHANGED <<power, x, pc, dev>>

PowerOn ==
  /\ power = "off"
  /\ power' = "on"
  /\ pc' \in Nat
  /\ UNCHANGED <<ram, x, dev>>

\* The instruction at pc, if it is of a form the launcher promises: its comment
\* on ldst_decoded_t names scaled, unscaled, pre- and post-indexed.  A real
\* machine has register offsets, pairs, sign extension and SIMD as well; there
\* is no promise about those, nor about an access outside the PL011's page.
Supported ==
  LET i == ram[pc] IN
  /\ pc \in RAM
  /\ \/ i.op = "mov"
     \/ IsAccess(i) /\ i.mode \in IMMEDIATE /\ in_pl011_range(Address(i, x))

PowerLost ==
  /\ power' = "lost"
  /\ UNCHANGED <<ram, x, pc>>
  /\ \/ UNCHANGED dev
     \/ /\ power = "on" /\ Supported /\ IsAccess(ram[pc])
        /\ dev' = Accessed(ram[pc], x, dev).dev

Execute ==
  LET i == ram[pc] IN
  /\ power = "on"
  /\ Supported
  /\ IF i.op = "mov"
       THEN x' = [x EXCEPT ![i.rd] = i.val] /\ UNCHANGED dev
       ELSE x' = Accessed(i, x, dev).x /\ dev' = Accessed(i, x, dev).dev
  /\ pc' = pc + 4
  /\ UNCHANGED <<power, ram>>

Next == Load \/ PowerOn \/ PowerLost \/ Execute

Spec == Init /\ [][Next]_vars

\* A machine that stays powered gets on with its program.
FairSpec == Spec /\ WF_vars(Execute)

=============================================================================
