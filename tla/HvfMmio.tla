------------------------------ MODULE HvfMmio ------------------------------
(***************************************************************************)
(* How the launcher turns a data abort back into a device access           *)
(* (host/hvf_main.c): from the syndrome when it is valid, otherwise from   *)
(* the instruction it fetches at the guest's PC.                           *)
(***************************************************************************)
EXTENDS Aarch64

\* 1 << k.
Pow2(k) == <<1, 2, 4, 8, 16, 32, 64, 128, 256, 512, 1024, 2048, 4096, 8192, 16384, 32768, 65536>>[k + 1]

\* The n bits of an instruction from bit sh upwards, (insn >> sh) & (2^n - 1).
Bits(insn, sh, n) ==
  IF sh >= 16 THEN (insn[1] \div Pow2(sh - 16)) % Pow2(n)
  ELSE ((insn[1] % Pow2(n)) * Pow2(16 - sh) + insn[2] \div Pow2(sh)) % Pow2(n)

\* Mutant: the immediate is not sign-extended.
zext9(v) == v % 512

sext9(v) == IF v % 512 < 256 THEN v % 512 ELSE (v % 512) - 512

\* Mutant: post-indexing is the only write-back.
DecodesPostOnly(insn) ==
  /\ Bits(insn, 26, 4) = 14
  /\ Bits(insn, 22, 2) <= 1
  /\ Bits(insn, 24, 2) = 1 \/ (Bits(insn, 24, 2) = 0 /\ Bits(insn, 21, 1) = 0 /\ Bits(insn, 10, 2) <= 1)

\* Does decode_ldst accept the instruction?
Decodes(insn) ==
  /\ Bits(insn, 26, 4) = 14
  /\ Bits(insn, 22, 2) <= 1
  /\ \/ Bits(insn, 24, 2) = 1
     \/ /\ Bits(insn, 24, 2) = 0
        /\ Bits(insn, 21, 1) = 0
        /\ Bits(insn, 10, 2) # 2

\* What it then puts into *d.
decode_ldst(insn) ==
  LET indexed == Bits(insn, 24, 2) = 0 /\ Bits(insn, 10, 2) # 0
  IN [size |-> Bits(insn, 30, 2),
      rt |-> Bits(insn, 0, 5),
      rn |-> Bits(insn, 5, 5),
      wnr |-> Bits(insn, 22, 2) = 0,
      writeback |-> indexed,
      wb_offset |-> IF indexed THEN sext9(Bits(insn, 12, 9)) ELSE 0]

\* The same from a syndrome with ISV = 1.
FromSyndrome(esr) ==
  [size |-> esr.sas, rt |-> esr.srt, rn |-> 0, wnr |-> esr.wnr, writeback |-> FALSE, wb_offset |-> 0]

read_gpr(x, srt) == IF srt = 31 THEN 0 ELSE x[srt]

\* Mutant: no test for the zero register.
write_gprXzr(x, srt, v) == [r \in DOMAIN x \cup {srt} |-> IF r = srt THEN v ELSE x[r]]

write_gpr(x, srt, v) == IF srt = 31 THEN x ELSE [x EXCEPT ![srt] = v]

\* handle_data_abort's access and its write-back, on the registers and the
\* device.
Emulated(d, off, x, dev) ==
  LET x1 == IF d.wnr THEN x ELSE write_gpr(x, d.rt, Masked(pl011_read(dev, off), d.size))
  IN [x |-> IF d.writeback /\ d.rn # 31 THEN [x1 EXCEPT ![d.rn] = @ + d.wb_offset] ELSE x1,
      dev |-> IF d.wnr THEN pl011_write(dev, off, Masked(read_gpr(x, d.rt), d.size)) ELSE dev]

=============================================================================
