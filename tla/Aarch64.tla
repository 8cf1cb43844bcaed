------------------------------ MODULE Aarch64 ------------------------------
(***************************************************************************)
(* The part of the A64 instruction set that the launcher has to know: the  *)
(* single-register loads and stores, their encoding and what they do.      *)
(* This is the architecture, not the repository's code; it is the          *)
(* reference that decode_ldst and handle_data_abort are compared with.     *)
(*                                                                         *)
(* An access is a record: op "ldr" or "str", size (log2 of its bytes),     *)
(* mode, the registers rt and rn, and imm, the immediate as the assembler  *)
(* writes it (scaled by the size for mode "scaled").                       *)
(***************************************************************************)
EXTENDS Pl011

\* The forms decode_ldst knows, and those it does not.
IMMEDIATE == {"scaled", "unscaled", "post", "pre"}
OTHER_MODES == {"regoff", "unpriv", "pair", "signed", "simd"}

IsAccess(i) == i.op \in {"ldr", "str"}
Indexed(i) == i.mode \in {"post", "pre"}

\* A 32-bit instruction as its two 16-bit halves <<31:16, 15:0>>.
Encode(i) ==
  LET imm9 == i.imm % 512
      opc == IF i.mode = "signed" THEN 2 ELSE IF i.op = "ldr" THEN 1 ELSE 0
      idx == CASE i.mode = "unscaled" -> 0 [] i.mode = "post" -> 1 [] i.mode = "pre" -> 3 [] OTHER -> 2
      group == IF i.mode = "pair" THEN 5 ELSE 7
      fp == IF i.mode = "simd" THEN 1 ELSE 0
      top == i.size * 16384 + group * 2048 + fp * 1024 + opc * 64
      regs == i.rn * 32 + i.rt
  IN IF i.mode \in {"scaled", "signed", "simd"}
       THEN <<top + 256 + i.imm \div 64, (i.imm % 64) * 1024 + regs>>
       ELSE <<top + (IF i.mode = "regoff" THEN 32 ELSE 0) + imm9 \div 16,
              (imm9 % 16) * 4096 + idx * 1024 + regs>>

\* The address an access goes to.
Address(i, x) ==
  x[i.rn] + CASE i.mode = "scaled" -> i.imm * 2^i.size
              [] i.mode \in {"unscaled", "pre"} -> i.imm
              [] OTHER -> 0

\* The registers and the device after a load or store of the device; register
\* 31 is the zero register.
Accessed(i, x, dev) ==
  LET off == Address(i, x) - PL011_BASE
      stored == IF i.rt = 31 THEN 0 ELSE Masked(x[i.rt], i.size)
      loaded == Masked(pl011_read(dev, off), i.size)
  IN [x |-> [r \in DOMAIN x |-> IF i.op = "ldr" /\ r = i.rt THEN loaded
                                ELSE IF Indexed(i) /\ r = i.rn THEN x[r] + i.imm
                                ELSE x[r]],
      dev |-> IF i.op = "str" THEN pl011_write(dev, off, stored) ELSE dev]

=============================================================================
