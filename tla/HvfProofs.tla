----------------------------- MODULE HvfProofs -----------------------------
(***************************************************************************)
(* The launcher of HvfLauncher loads what the file says, gives up only     *)
(* when it has to, and implements the machine of NativeMachine, for every  *)
(* program, memory size and set of registers.                              *)
(*                                                                         *)
(* The argument: decode_ldst inverts the encoding of loads and stores      *)
(* (DecodeCorrect); an access decoded right, or told by a valid syndrome,  *)
(* is performed as the architecture says (EmulatedIsAccessed); and the     *)
(* exit main handles is about the instruction at the PC, with the          *)
(* registers it aborted with (AbortIsCurrent, the conjunct of the          *)
(* inductive invariant that ties the two sides of hv_vcpu_run together).   *)
(***************************************************************************)
EXTENDS LauncherView, TLAPS

-----------------------------------------------------------------------------
(* The decoder: decode_ldst inverts the encoding.                          *)

\* The fields of an instruction, read from its two halves.
LEMMA BitsOfHalves ==
  ASSUME NEW h \in Nat, NEW l \in Nat
  PROVE  /\ Bits(<<h, l>>, 30, 2) = (h \div 16384) % 4
         /\ Bits(<<h, l>>, 26, 4) = (h \div 1024) % 16
         /\ Bits(<<h, l>>, 24, 2) = (h \div 256) % 4
         /\ Bits(<<h, l>>, 22, 2) = (h \div 64) % 4
         /\ Bits(<<h, l>>, 21, 1) = (h \div 32) % 2
         /\ Bits(<<h, l>>, 12, 9) = ((h % 512) * 16 + l \div 4096) % 512
         /\ Bits(<<h, l>>, 10, 2) = ((h % 4) * 64 + l \div 1024) % 4
         /\ Bits(<<h, l>>, 5, 5) = ((h % 32) * 2048 + l \div 32) % 32
         /\ Bits(<<h, l>>, 0, 5) = ((h % 32) * 65536 + l) % 32
  BY DEF Bits, Pow2

\* The immediates of the two layouts, and of both.
UIMM12 == 0..4095
SIMM9 == -256..255
IMMEDIATES == -256..4095

\* The two layouts of Encode, with their fields as parameters.
LongWord(size, fp, opc, imm, rn, rt) ==
  <<size * 16384 + 7 * 2048 + fp * 1024 + opc * 64 + 256 + imm \div 64,
    (imm % 64) * 1024 + (rn * 32 + rt)>>
ShortWord(size, group, opc, reg, imm9, idx, rn, rt) ==
  <<size * 16384 + group * 2048 + 0 * 1024 + opc * 64 + reg * 32 + imm9 \div 16,
    (imm9 % 16) * 4096 + idx * 1024 + (rn * 32 + rt)>>

\* Their ranges, and what the decoder reads back.
LongArgs(size, fp, opc, imm, rn, rt) ==
  /\ size \in 0..3 /\ fp \in 0..1 /\ opc \in 0..2
  /\ imm \in UIMM12 /\ rn \in 0..31 /\ rt \in 0..31
LongFields(w, size, fp, opc, rn, rt) ==
  /\ Bits(w, 30, 2) = size
  /\ Bits(w, 26, 4) = 14 + fp
  /\ Bits(w, 24, 2) = 1
  /\ Bits(w, 22, 2) = opc
  /\ Bits(w, 5, 5) = rn
  /\ Bits(w, 0, 5) = rt
ShortArgs(size, group, opc, reg, imm9, idx, rn, rt) ==
  /\ size \in 0..3 /\ group \in {5, 7} /\ opc \in 0..1 /\ reg \in 0..1
  /\ imm9 \in 0..511 /\ idx \in 0..3 /\ rn \in 0..31 /\ rt \in 0..31
ShortFields(w, size, group, opc, reg, imm9, idx, rn, rt) ==
  /\ Bits(w, 30, 2) = size
  /\ Bits(w, 26, 4) = 2 * group
  /\ Bits(w, 24, 2) = 0
  /\ Bits(w, 22, 2) = opc
  /\ Bits(w, 21, 1) = reg
  /\ reg = 0 => Bits(w, 12, 9) = imm9
  /\ Bits(w, 10, 2) = idx
  /\ Bits(w, 5, 5) = rn
  /\ Bits(w, 0, 5) = rt

\* The scaled form: the decoder reads back each field of the layout with a
\* 12-bit immediate (decode_ldst, hvf_main.c:237-262).
LEMMA LongForm ==
  ASSUME NEW size, NEW fp, NEW opc, NEW imm, NEW rn, NEW rt,
         LongArgs(size, fp, opc, imm, rn, rt)
  PROVE  LongFields(LongWord(size, fp, opc, imm, rn, rt), size, fp, opc, rn, rt)
  <1>0. /\ size \in 0..3 /\ fp \in 0..1 /\ opc \in 0..2
        /\ imm \in Int /\ 0 <= imm /\ imm < 4096 /\ rn \in 0..31 /\ rt \in 0..31
    BY DEF LongArgs, UIMM12
  <1> USE <1>0
  <1> DEFINE h == size * 16384 + 7 * 2048 + fp * 1024 + opc * 64 + 256 + imm \div 64
             l == (imm % 64) * 1024 + (rn * 32 + rt)
             q == imm \div 64
             r == imm % 64
  <1>1. q \in 0..63 /\ r \in 0..63
    <2>1. q \in 0..63
      BY SMTT(30)
    <2>2. r \in 0..63
      BY SMT
    <2> QED
      BY <2>1, <2>2
  <1>2. h = size * 16384 + 14336 + fp * 1024 + opc * 64 + 256 + q
    BY SMT
  <1>3. l = r * 1024 + rn * 32 + rt
    BY SMT
  <1> HIDE DEF q, r, h, l
  <1>4. h \in Nat /\ l \in Nat
    BY <1>1, <1>2, <1>3, SMT
  <1>5. (h \div 16384) % 4 = size
    <2>1. h \div 16384 = size
      BY <1>1, <1>2, SMT
    <2> QED
      BY <2>1, SMT
  <1>6. (h \div 1024) % 16 = 14 + fp
    <2>1. h \div 1024 = size * 16 + 14 + fp
      BY <1>1, <1>2, SMT
    <2> QED
      BY <2>1, SMT
  <1>7. (h \div 256) % 4 = 1
    <2>1. h \div 256 = size * 64 + 56 + fp * 4 + 1
      BY <1>1, <1>2, SMT
    <2> QED
      BY <2>1, SMT
  <1>8. (h \div 64) % 4 = opc
    <2>1. h \div 64 = size * 256 + 224 + fp * 16 + opc + 4
      BY <1>1, <1>2, SMT
    <2> QED
      BY <2>1, SMT
  <1>9. ((h % 32) * 2048 + l \div 32) % 32 = rn
    <2>1. l \div 32 = r * 32 + rn
      BY <1>1, <1>3, SMT
    <2> QED
      BY <1>1, <1>4, <2>1, SMT
  <1>10. ((h % 32) * 65536 + l) % 32 = rt
    BY <1>1, <1>3, <1>4, SMT
  <1>11. /\ Bits(<<h, l>>, 30, 2) = (h \div 16384) % 4
         /\ Bits(<<h, l>>, 26, 4) = (h \div 1024) % 16
         /\ Bits(<<h, l>>, 24, 2) = (h \div 256) % 4
         /\ Bits(<<h, l>>, 22, 2) = (h \div 64) % 4
         /\ Bits(<<h, l>>, 5, 5) = ((h % 32) * 2048 + l \div 32) % 32
         /\ Bits(<<h, l>>, 0, 5) = ((h % 32) * 65536 + l) % 32
    BY <1>4, BitsOfHalves, SMT
  <1>13. LongWord(size, fp, opc, imm, rn, rt) = <<h, l>>
    BY DEF h, l, LongWord
  <1> QED
    BY <1>13, <1>5, <1>6, <1>7, <1>8, <1>9, <1>10, <1>11, SMT DEF LongFields

\* The same for the layout with a 9-bit immediate.
LEMMA ShortForm ==
  ASSUME NEW size, NEW group, NEW opc, NEW reg, NEW imm9, NEW idx, NEW rn, NEW rt,
         ShortArgs(size, group, opc, reg, imm9, idx, rn, rt)
  PROVE  ShortFields(ShortWord(size, group, opc, reg, imm9, idx, rn, rt),
                     size, group, opc, reg, imm9, idx, rn, rt)
  <1>0. /\ size \in 0..3 /\ group \in {5, 7} /\ opc \in 0..1 /\ reg \in 0..1
        /\ imm9 \in 0..511 /\ idx \in 0..3 /\ rn \in 0..31 /\ rt \in 0..31
    BY DEF ShortArgs
  <1> USE <1>0
  <1> DEFINE h == size * 16384 + group * 2048 + 0 * 1024 + opc * 64 + reg * 32 + imm9 \div 16
             l == (imm9 % 16) * 4096 + idx * 1024 + (rn * 32 + rt)
             q == imm9 \div 16
             r == imm9 % 16
  <1>1. q \in 0..31 /\ r \in 0..15 /\ imm9 = q * 16 + r
    BY SMT
  <1>2. h = size * 16384 + group * 2048 + opc * 64 + reg * 32 + q
    BY SMT
  <1>3. l = r * 4096 + idx * 1024 + rn * 32 + rt
    BY SMT
  <1> HIDE DEF q, r, h, l
  <1>4. h \in Nat /\ l \in Nat
    BY <1>1, <1>2, <1>3, SMT
  <1>5. (h \div 16384) % 4 = size /\ (h \div 1024) % 16 = 2 * group
    <2>1. h \div 16384 = size /\ h \div 1024 = size * 16 + 2 * group
      BY <1>1, <1>2, SMT
    <2> QED
      BY <2>1, SMT
  <1>6. (h \div 256) % 4 = 0 /\ (h \div 64) % 4 = opc
    BY <1>1, <1>2, SMT
  <1>7. (h \div 32) % 2 = reg
    BY <1>1, <1>2, SMT
  <1>8. reg = 0 => ((h % 512) * 16 + l \div 4096) % 512 = imm9
    <2>1. l \div 4096 = r
      BY <1>1, <1>3, SMT
    <2>2. reg = 0 => h % 512 = opc * 64 + q
      BY <1>1, <1>2, SMT
    <2> QED
      BY <1>1, <2>1, <2>2, SMT
  <1>9. ((h % 4) * 64 + l \div 1024) % 4 = idx
    BY <1>1, <1>3, <1>4, SMT
  <1>10. ((h % 32) * 2048 + l \div 32) % 32 = rn
    BY <1>1, <1>3, <1>4, SMT
  <1>11. ((h % 32) * 65536 + l) % 32 = rt
    BY <1>1, <1>3, <1>4, SMT
  <1>12. /\ Bits(<<h, l>>, 30, 2) = (h \div 16384) % 4
         /\ Bits(<<h, l>>, 26, 4) = (h \div 1024) % 16
         /\ Bits(<<h, l>>, 24, 2) = (h \div 256) % 4
         /\ Bits(<<h, l>>, 22, 2) = (h \div 64) % 4
         /\ Bits(<<h, l>>, 21, 1) = (h \div 32) % 2
         /\ Bits(<<h, l>>, 12, 9) = ((h % 512) * 16 + l \div 4096) % 512
         /\ Bits(<<h, l>>, 10, 2) = ((h % 4) * 64 + l \div 1024) % 4
         /\ Bits(<<h, l>>, 5, 5) = ((h % 32) * 2048 + l \div 32) % 32
         /\ Bits(<<h, l>>, 0, 5) = ((h % 32) * 65536 + l) % 32
    BY <1>4, BitsOfHalves, SMT
  <1>13. ShortWord(size, group, opc, reg, imm9, idx, rn, rt) = <<h, l>>
    BY DEF h, l, ShortWord
  <1> QED
    BY <1>13, <1>5, <1>6, <1>7, <1>8, <1>9, <1>10, <1>11, <1>12, SMT DEF ShortFields

\* What an access of a program is made of.
LEMMA AccessFields ==
  ASSUME NEW i \in Access
  PROVE  /\ i.op \in {"ldr", "str"} /\ i.mode \in IMMEDIATE \cup OTHER_MODES
         /\ i.size \in 0..3 /\ i.rn \in 0..30 /\ i.rt \in 0..31
         /\ i.rn \in REGS /\ i.rt \in REGS \cup {31}
         /\ i.mode \in {"scaled", "signed", "simd"} => i.imm \in UIMM12
         /\ i.mode \notin {"scaled", "signed", "simd"} => i.imm \in SIMM9
         /\ Indexed(i) => i.rt # i.rn
  <1>1. /\ i \in [op : {"ldr", "str"}, size : 0..3, mode : IMMEDIATE \cup OTHER_MODES,
                  rt : REGS \cup {31}, rn : REGS, imm : IMMEDIATES]
        /\ i.mode \in {"scaled", "signed", "simd"} => i.imm >= 0
        /\ i.mode \notin {"scaled", "signed", "simd"} => i.imm <= 255
        /\ Indexed(i) => i.rt # i.rn
    BY DEF Access, IMMEDIATES
  <1>2. /\ i.op \in {"ldr", "str"} /\ i.mode \in IMMEDIATE \cup OTHER_MODES
        /\ i.size \in 0..3 /\ i.rt \in REGS \cup {31} /\ i.rn \in REGS /\ i.imm \in IMMEDIATES
    BY <1>1
  <1>3. ASSUME NEW r \in REGS PROVE r \in 0..30 /\ r \in 0..31
    <2>1. r \in 0..30
      BY LayoutAssumption, SMT
    <2> QED
      BY <2>1, SMT
  <1>4. i.rt \in 0..31
    <2>1. CASE i.rt \in REGS
      BY <1>3, <2>1
    <2>2. CASE i.rt = 31
      BY <2>2, SMT
    <2> QED
      BY <1>2, <2>1, <2>2
  <1> DEFINE k == i.imm
             LONG == {"scaled", "signed", "simd"}
  <1>5. /\ k \in IMMEDIATES
        /\ i.mode \in LONG => k >= 0
        /\ i.mode \notin LONG => k <= 255
    BY <1>1, <1>2
  <1> HIDE DEF k, LONG
  <1>6. k \in Int /\ k >= -256 /\ k <= 4095
    BY <1>5, SMT DEF IMMEDIATES
  <1>7. k >= 0 => k \in UIMM12
    BY <1>6, SMT DEF UIMM12
  <1>8. k <= 255 => k \in SIMM9
    BY <1>6, SMT DEF SIMM9
  <1>9. (i.mode \in LONG => k \in UIMM12) /\ (i.mode \notin LONG => k \in SIMM9)
    BY <1>5, <1>7, <1>8
  <1>10. i.rn \in 0..30
    BY <1>2, <1>3
  <1>11. Indexed(i) => i.rt # i.rn
    BY <1>1
  <1> QED
    BY <1>2, <1>4, <1>9, <1>10, <1>11 DEF k, LONG

\* decode_ldst (hvf_main.c:232-274) inverts the encoding: it accepts exactly
\* the immediate forms, and returns their size, registers, direction and
\* write-back.
THEOREM DecodeCorrect ==
  ASSUME NEW i \in Access
  PROVE  /\ Decodes(Encode(i)) <=> i.mode \in IMMEDIATE
         /\ i.mode \in IMMEDIATE =>
              decode_ldst(Encode(i)) =
                [size |-> i.size, rt |-> i.rt, rn |-> i.rn, wnr |-> i.op = "str",
                 writeback |-> Indexed(i), wb_offset |-> IF Indexed(i) THEN i.imm ELSE 0]
  <1>1. /\ i.op \in {"ldr", "str"} /\ i.mode \in IMMEDIATE \cup OTHER_MODES
        /\ i.size \in 0..3 /\ i.rn \in 0..31 /\ i.rt \in 0..31
    BY AccessFields
  <1> DEFINE opc == IF i.mode = "signed" THEN 2 ELSE IF i.op = "ldr" THEN 1 ELSE 0
             e == Encode(i)
  <1>2. CASE i.mode \in {"scaled", "signed", "simd"}
    <2> DEFINE fp == IF i.mode = "simd" THEN 1 ELSE 0
    <2>1. e = LongWord(i.size, fp, opc, i.imm, i.rn, i.rt)
      BY <1>2 DEF Encode, LongWord
    <2>2. i.imm \in UIMM12 /\ fp \in 0..1 /\ opc \in 0..2
      BY <1>2, AccessFields
    <2> HIDE DEF e
    <2>3. /\ Bits(e, 30, 2) = i.size /\ Bits(e, 26, 4) = 14 + fp /\ Bits(e, 24, 2) = 1
          /\ Bits(e, 22, 2) = opc /\ Bits(e, 5, 5) = i.rn /\ Bits(e, 0, 5) = i.rt
      <3>1. LongArgs(i.size, fp, opc, i.imm, i.rn, i.rt)
        BY <1>1, <2>2 DEF LongArgs
      <3> HIDE DEF fp, opc
      <3>2. LongFields(e, i.size, fp, opc, i.rn, i.rt)
        BY <2>1, <3>1, LongForm, Zenon
      <3> QED
        BY <3>2 DEF LongFields
    <2>4. Decodes(e) <=> i.mode \in IMMEDIATE
      BY <1>1, <1>2, <2>3 DEF Decodes, IMMEDIATE, OTHER_MODES
    <2>5. ASSUME i.mode \in IMMEDIATE
          PROVE  decode_ldst(e) =
                   [size |-> i.size, rt |-> i.rt, rn |-> i.rn, wnr |-> i.op = "str",
                    writeback |-> Indexed(i), wb_offset |-> IF Indexed(i) THEN i.imm ELSE 0]
      <3>1. i.mode = "scaled" /\ (opc = 0 <=> i.op = "str") /\ ~Indexed(i)
        BY <1>1, <1>2, <2>5 DEF IMMEDIATE, Indexed
      <3> HIDE DEF opc
      <3>2. /\ (Bits(e, 22, 2) = 0) = (i.op = "str")
            /\ (Bits(e, 24, 2) = 0 /\ Bits(e, 10, 2) # 0) = FALSE
            /\ Indexed(i) = FALSE
        BY <2>3, <3>1 DEF Indexed
      <3> QED
        BY <2>3, <3>2 DEF decode_ldst
    <2> QED
      BY <2>4, <2>5 DEF e
  <1>3. CASE i.mode \notin {"scaled", "signed", "simd"}
    <2> DEFINE imm9 == i.imm % 512
               idx == IF i.mode = "unscaled" THEN 0 ELSE IF i.mode = "post" THEN 1
                      ELSE IF i.mode = "pre" THEN 3 ELSE 2
               group == IF i.mode = "pair" THEN 5 ELSE 7
               reg == IF i.mode = "regoff" THEN 1 ELSE 0
    <2>1. e = ShortWord(i.size, group, opc, reg, imm9, idx, i.rn, i.rt)
      BY <1>3 DEF Encode, ShortWord
    <2>2. i.imm \in -256..255
      BY <1>3, AccessFields DEF SIMM9
    <2>3. /\ imm9 \in 0..511 /\ idx \in 0..3 /\ group \in {5, 7} /\ reg \in 0..1 /\ opc \in 0..1
          /\ sext9(imm9) = i.imm
      BY <1>3, <2>2 DEF sext9
    <2> HIDE DEF e
    <2>4. /\ Bits(e, 30, 2) = i.size /\ Bits(e, 26, 4) = 2 * group /\ Bits(e, 24, 2) = 0
          /\ Bits(e, 22, 2) = opc /\ Bits(e, 21, 1) = reg /\ (reg = 0 => Bits(e, 12, 9) = imm9)
          /\ Bits(e, 10, 2) = idx /\ Bits(e, 5, 5) = i.rn /\ Bits(e, 0, 5) = i.rt
      <3>1. ShortArgs(i.size, group, opc, reg, imm9, idx, i.rn, i.rt)
        BY <1>1, <2>3 DEF ShortArgs
      <3> HIDE DEF imm9, idx, group, reg, opc
      <3>2. ShortFields(e, i.size, group, opc, reg, imm9, idx, i.rn, i.rt)
        BY <2>1, <3>1, ShortForm, Zenon
      <3> QED
        BY <3>2 DEF ShortFields
    <2>5. Decodes(e) <=> i.mode \in IMMEDIATE
      BY <1>1, <1>3, <2>4 DEF Decodes, IMMEDIATE, OTHER_MODES
    <2>6. ASSUME i.mode \in IMMEDIATE
          PROVE  decode_ldst(e) =
                   [size |-> i.size, rt |-> i.rt, rn |-> i.rn, wnr |-> i.op = "str",
                    writeback |-> Indexed(i), wb_offset |-> IF Indexed(i) THEN i.imm ELSE 0]
      <3>1. /\ i.mode \in {"unscaled", "post", "pre"} /\ reg = 0
            /\ opc = 0 <=> i.op = "str"
            /\ idx # 0 <=> Indexed(i)
        BY <1>1, <1>3, <2>6 DEF IMMEDIATE, Indexed
      <3> HIDE DEF imm9, idx, group, reg, opc
      <3>2. /\ (Bits(e, 22, 2) = 0) = (i.op = "str")
            /\ (Bits(e, 24, 2) = 0 /\ Bits(e, 10, 2) # 0) = Indexed(i)
            /\ sext9(Bits(e, 12, 9)) = i.imm
        BY <2>3, <2>4, <3>1 DEF Indexed
      <3> QED
        BY <2>4, <3>2 DEF decode_ldst
    <2> QED
      BY <2>5, <2>6 DEF e
  <1> QED
    BY <1>2, <1>3

-----------------------------------------------------------------------------
(* The emulation: an access decoded right is performed right.              *)

\* handle_data_abort's access (hvf_main.c:322-343) has the effect the
\* architecture gives the instruction, if it was told what that is.
LEMMA EmulatedIsAccessed ==
  ASSUME NEW i \in Access, NEW xs, NEW pl, NEW d,
         xs = [r \in REGS |-> xs[r]],
         d.size = i.size, d.rt = i.rt, d.wnr <=> i.op = "str",
         d.writeback <=> Indexed(i),
         Indexed(i) => d.rn = i.rn /\ d.wb_offset = i.imm
  PROVE  Emulated(d, Address(i, xs) - PL011_BASE, xs, pl) = Accessed(i, xs, pl)
  <1> DEFINE off == Address(i, xs) - PL011_BASE
             v == Masked(pl011_read(pl, off), i.size)
             x1 == IF d.wnr THEN xs ELSE write_gpr(xs, d.rt, v)
             x2 == IF d.writeback /\ d.rn # 31 THEN [x1 EXCEPT ![d.rn] = @ + d.wb_offset] ELSE x1
             y == [r \in DOMAIN xs |-> IF i.op = "ldr" /\ r = i.rt THEN v
                                       ELSE IF Indexed(i) /\ r = i.rn THEN xs[r] + i.imm
                                       ELSE xs[r]]
  <1>1. /\ i.op \in {"ldr", "str"} /\ i.rn \in REGS /\ i.rt \in REGS \cup {31}
        /\ Indexed(i) => i.rt # i.rn
    BY AccessFields
  <1>2. 31 \notin REGS
    BY LayoutAssumption
  <1>3. i.rn # 31
    BY <1>1, <1>2
  <1> HIDE DEF off, v
  <1>4. DOMAIN xs = REGS
    OBVIOUS
  <1>5. x1 = [r \in REGS |-> IF i.op = "ldr" /\ r = i.rt THEN v ELSE xs[r]]
    BY <1>1, <1>2, <1>4 DEF write_gpr
  <1> HIDE DEF x1
  <1>6. x2 = y
    <2>1. CASE Indexed(i)
      <3>1. x2 = [x1 EXCEPT ![i.rn] = x1[i.rn] + i.imm]
        BY <1>3, <2>1
      <3>2. x1[i.rn] = xs[i.rn]
        BY <1>1, <1>5, <2>1
      <3> HIDE DEF x2
      <3> QED
        BY <1>1, <1>4, <1>5, <2>1, <3>1, <3>2
    <2>2. CASE ~Indexed(i)
      <3>1. x2 = x1
        BY <2>2
      <3> HIDE DEF x2
      <3> QED
        BY <1>4, <1>5, <2>2, <3>1
    <2> QED
      BY <2>1, <2>2
  <1> DEFINE sd == IF d.wnr THEN pl011_write(pl, off, Masked(read_gpr(xs, d.rt), d.size)) ELSE pl
             sa == IF i.op = "str" THEN pl011_write(pl, off, IF i.rt = 31 THEN 0 ELSE Masked(xs[i.rt], i.size)) ELSE pl
  <1>7. sd = sa
    <2>1. Masked(0, i.size) = 0
      BY ByteAssumption DEF Masked
    <2> QED
      BY <2>1 DEF read_gpr
  <1>8. Emulated(d, off, xs, pl) = [x |-> x2, dev |-> sd]
    BY DEF Emulated, v, x1
  <1>9. Accessed(i, xs, pl) = [x |-> y, dev |-> sa]
    BY DEF Accessed, v, off
  <1> QED
    BY <1>6, <1>7, <1>8, <1>9 DEF off

-----------------------------------------------------------------------------
(* The inductive invariant.                                                *)

\* The host is in its loop or behind it only with an exit at hand, memory is
\* words at the addresses of RAM and nowhere else, and an exception that waits
\* for main describes the instruction at the guest's PC: nothing between the
\* abort and handle_data_abort moves the PC, the registers or the memory.
Shape ==
  /\ elf \in ELFS /\ seg \in Nat \ {0}
  /\ ram \in [RAM -> Access \cup Plain]
  /\ x = [r \in REGS |-> x[r]]

Idle == host \in {"start", "load", "loop", "guest"} => exit_info.reason = "none"

AbortIsCurrent ==
  host = "exit" /\ exit_info.reason = "exception" =>
    \/ \E isv \in BOOLEAN :
         /\ pc \in RAM /\ ram[pc] \in Access
         /\ isv => ram[pc].mode \in IMMEDIATE /\ ~Indexed(ram[pc])
         /\ exit_info.esr = Syndrome(ram[pc], isv)
    \/ exit_info.esr.ec = 23 /\ pc \in RAM /\ ram[pc].op = "smc"
    \/ exit_info.esr.ec = 32 /\ pc \notin RAM

LauncherInv ==
  Shape /\ Idle /\ AbortIsCurrent /\ ImageLoaded /\ LoadsInBounds /\ StopsOnlyWhenStuck

\* A program header of a file the launcher may be started with.
LEMMA HeaderOfFile ==
  ASSUME Shape, seg <= Len(elf.ph)
  PROVE  /\ seg \in 1..Len(elf.ph)
         /\ Header(elf.ph[seg])
  BY ElfAssumption DEF Shape

\* The words of guest memory lie four bytes apart.
LEMMA RamAddress ==
  /\ RAM_BASE \in Nat /\ RAM_WORDS \in Nat
  /\ \A a \in RAM : a \in Int
  /\ \A n \in 0..(RAM_WORDS - 1) : RAM_BASE + 4 * n \in RAM
  BY LayoutAssumption DEF RAM

\* load_elf_into's bounds check (hvf_main.c:128-133) keeps a segment, its
\* zeroed tail included, inside guest memory if its header is a linker's.
LEMMA LinkedInBounds ==
  ASSUME NEW ph, Header(ph), Linked(ph), Fits(ph)
  PROVE  InBounds(ph)
  <1> DEFINE e == MemEnd(ph)
  <1>0. Dest(ph) \in Nat /\ Len(ph.data) \in Nat /\ ph.memsz \in Nat
    BY LayoutAssumption DEF Header, Dest
  <1>1. e \in Nat /\ e < UINT64 /\ FileEnd(ph) <= e
    BY <1>0 DEF Linked, MemEnd, FileEnd
  <1> HIDE DEF e
  <1>2. e % UINT64 = e
    BY <1>1, LayoutAssumption
  <1>3. e <= RAM_END
    BY <1>2 DEF Fits, e
  <1> QED
    BY <1>0, <1>1, <1>3, LayoutAssumption DEF InBounds, RAM_END, e, FileEnd

\* A word a segment puts into memory is one of its file, or zero.
LEMMA WordIsWord ==
  ASSUME NEW ph, Header(ph), NEW a \in RAM, Covers(ph, a)
  PROVE  Word(ph, a) \in Access \cup Plain
  <1> DEFINE d == Dest(ph)
  <1>1. /\ d \in Nat /\ a \in Int /\ a >= d /\ Len(ph.data) \in Nat
        /\ ph.data \in Seq(Access \cup Plain)
    BY RamAddress DEF Header, Dest, Covers
  <1> HIDE DEF d
  <1>2. CASE a < FileEnd(ph)
    <2>1. a < d + 4 * Len(ph.data)
      BY <1>2 DEF FileEnd, d
    <2>2. (a - d) \div 4 + 1 \in 1..Len(ph.data)
      BY <1>1, <2>1
    <2>3. ph.data[(a - d) \div 4 + 1] \in Access \cup Plain
      BY <1>1, <2>2
    <2> QED
      BY <1>2, <2>3 DEF Word, d
  <1>3. CASE ~(a < FileEnd(ph))
    BY <1>3 DEF Word, ZERO, Plain
  <1> QED
    BY <1>2, <1>3

\* main starts with a memory of zeroes and no exit.
LEMMA InitInv ==
  Init => LauncherInv
  <1> SUFFICES ASSUME Init PROVE LauncherInv
    OBVIOUS
  <1>1. Shape
    <2>1. ZERO \in Plain
      BY DEF ZERO, Plain
    <2> QED
      BY <2>1 DEF Init, Shape
  <1>2. Idle /\ AbortIsCurrent /\ LoadsInBounds /\ StopsOnlyWhenStuck
    BY DEF Init, Idle, AbortIsCurrent, LoadsInBounds, StopsOnlyWhenStuck, NoExit, Exit
  <1>3. ImageLoaded
    BY DEF Init, ImageLoaded
  <1> QED
    BY <1>1, <1>2, <1>3 DEF LauncherInv

-----------------------------------------------------------------------------
(* The machine of NativeMachine has the same instructions and device.      *)

\* pl011_read is the device of the machine.
LEMMA SameRead ==
  ASSUME NEW pl, NEW off
  PROVE  Native!pl011_read(pl, off) = pl011_read(pl, off)
  <1>1. \A S : Native!ValueOf(S) = ValueOf(S)
    BY DEF Native!ValueOf, ValueOf, Native!BitsOf, BitsOf
  <1>2. \A v : Native!BitsOf(v) = BitsOf(v)
    BY DEF Native!BitsOf, BitsOf
  <1>3. Native!STORED = STORED /\ Native!UARTRIS = UARTRIS /\ Native!UARTMIS = UARTMIS /\ Native!UARTIMSC = UARTIMSC
    BY DEF Native!STORED, STORED, Native!UARTRIS, UARTRIS, Native!UARTMIS, UARTMIS,
           Native!UARTIMSC, UARTIMSC, Native!UARTCR, UARTCR, Native!UARTLCR_H, UARTLCR_H,
           Native!UARTIBRD, UARTIBRD, Native!UARTFBRD, UARTFBRD
  <1> QED
    BY <1>1, <1>2, <1>3 DEF Native!pl011_read, pl011_read

\* So is pl011_write.
LEMMA SameWrite ==
  ASSUME NEW pl, NEW off, NEW v
  PROVE  Native!pl011_write(pl, off, v) = pl011_write(pl, off, v)
  <1>1. \A b : Native!BitsOf(b) = BitsOf(b)
    BY DEF Native!BitsOf, BitsOf
  <1>2. Native!STORED = STORED /\ Native!UARTDR = UARTDR /\ Native!UARTICR = UARTICR
    BY DEF Native!STORED, STORED, Native!UARTDR, UARTDR, Native!UARTICR, UARTICR,
           Native!UARTIMSC, UARTIMSC, Native!UARTCR, UARTCR, Native!UARTLCR_H, UARTLCR_H,
           Native!UARTIBRD, UARTIBRD, Native!UARTFBRD, UARTFBRD
  <1> QED
    BY <1>1, <1>2 DEF Native!pl011_write, pl011_write

\* A load or store does the same in both.
LEMMA SameAccess ==
  ASSUME NEW i, NEW xs, NEW pl
  PROVE  /\ Native!Accessed(i, xs, pl) = Accessed(i, xs, pl)
         /\ Native!Address(i, xs) = Address(i, xs)
  <1>1. Native!Address(i, xs) = Address(i, xs)
    BY DEF Native!Address, Address
  <1>2. Native!PL011_BASE = PL011_BASE
    BY DEF Native!PL011_BASE, PL011_BASE
  <1>3. \A v, s : Native!Masked(v, s) = Masked(v, s)
    BY DEF Native!Masked, Masked
  <1>4. Native!Indexed(i) <=> Indexed(i)
    BY DEF Native!Indexed, Indexed
  <1> QED
    BY <1>1, <1>2, <1>3, <1>4, SameRead, SameWrite DEF Native!Accessed, Accessed

\* What the machine can execute: a plain instruction, or an access of an
\* immediate form to the PL011's page.
LEMMA SameSupported ==
  Native!Supported <=>
    /\ pc \in RAM
    /\ \/ ram[pc].op = "mov"
       \/ /\ ram[pc].op \in {"ldr", "str"} /\ ram[pc].mode \in IMMEDIATE
          /\ in_pl011_range(Address(ram[pc], x))
  <1>1. \A v : Native!in_pl011_range(v) <=> in_pl011_range(v)
    BY DEF Native!in_pl011_range, in_pl011_range, Native!PL011_BASE, PL011_BASE,
           Native!PL011_SIZE, PL011_SIZE
  <1> QED
    BY <1>1, SameAccess DEF Native!Supported, Native!IsAccess, Native!IMMEDIATE, IMMEDIATE

\* handle_data_abort refuses only what the machine cannot execute.
LEMMA UnderstoodIsSupported ==
  ASSUME LauncherInv, host = "exit", exit_info.reason = "exception"
  PROVE  (exit_info.esr.ec \in {36, 37} /\ Understood(exit_info.esr)) <=> Native!Supported
  <1> DEFINE i == ram[pc]
             esr == exit_info.esr
  <1>1. ASSUME NEW isv \in BOOLEAN, pc \in RAM, i \in Access,
               isv => i.mode \in IMMEDIATE /\ ~Indexed(i),
               esr = Syndrome(i, isv)
        PROVE  (esr.ec \in {36, 37} /\ Understood(esr)) <=> Native!Supported
    <2>1. i.op \in {"ldr", "str"}
      BY <1>1, AccessFields
    <2>2. Native!Supported <=> i.mode \in IMMEDIATE /\ in_pl011_range(Address(i, x))
      BY <1>1, <2>1, SameSupported
    <2>3. Decodes(Encode(i)) <=> i.mode \in IMMEDIATE
      BY <1>1, DecodeCorrect
    <2>4. esr.ec = 36 /\ (esr.isv <=> isv) /\ esr.ipa = Address(i, x)
      BY <1>1 DEF Syndrome
    <2>5. Understood(esr) <=> (isv \/ i.mode \in IMMEDIATE) /\ in_pl011_range(Address(i, x))
      BY <1>1, <2>3, <2>4 DEF Understood
    <2> QED
      BY <1>1, <2>2, <2>4, <2>5
  <1>2. ASSUME esr.ec = 23, pc \in RAM, i.op = "smc"
        PROVE  esr.ec \notin {36, 37} /\ ~Native!Supported
    BY <1>2, SameSupported
  <1>3. ASSUME esr.ec = 32, pc \notin RAM
        PROVE  esr.ec \notin {36, 37} /\ ~Native!Supported
    BY <1>3, SameSupported
  <1> QED
    BY <1>1, <1>2, <1>3 DEF LauncherInv, AbortIsCurrent

-----------------------------------------------------------------------------
(* Every step keeps the invariant.                                         *)

\* What main makes of a data abort it understands is the effect of the
\* instruction.
LEMMA EmulationIsAccessed ==
  ASSUME LauncherInv, InDataAbort, Understood(exit_info.esr)
  PROVE  /\ pc \in RAM /\ ram[pc] \in Access /\ Native!Supported
         /\ Emulation(exit_info.esr) = Accessed(ram[pc], x, dev)
  <1> DEFINE i == ram[pc]
             esr == exit_info.esr
             d == IF esr.isv THEN FromSyndrome(esr) ELSE decode_ldst(Encode(ram[pc]))
  <1>1. /\ host = "exit" /\ exit_info.reason = "exception"
        /\ esr.ec \in {36, 37} /\ Understood(esr)
        /\ Emulation(esr) = Emulated(d, esr.ipa - PL011_BASE, x, dev)
    BY DEF InDataAbort, Emulation
  <1>2. Native!Supported
    BY <1>1, UnderstoodIsSupported
  <1>3. PICK isv \in BOOLEAN :
          /\ pc \in RAM /\ i \in Access
          /\ isv => i.mode \in IMMEDIATE /\ ~Indexed(i)
          /\ esr = Syndrome(i, isv)
    BY <1>1 DEF LauncherInv, AbortIsCurrent
  <1>4. esr.ipa = Address(i, x) /\ (esr.isv <=> isv)
    BY <1>3 DEF Syndrome
  <1>5. i.mode \in IMMEDIATE
    <2>1. i.op # "mov"
      BY <1>3, AccessFields
    <2> QED
      BY <1>2, <2>1, SameSupported
  <1>6. /\ d.size = i.size /\ d.rt = i.rt /\ (d.wnr <=> i.op = "str")
        /\ d.writeback <=> Indexed(i)
        /\ Indexed(i) => d.rn = i.rn /\ d.wb_offset = i.imm
    <2>1. CASE isv
      <3>1. esr.sas = i.size /\ esr.srt = i.rt /\ (esr.wnr <=> i.op = "str")
        <4>1. esr.sas = i.size
          BY <1>3, <2>1 DEF Syndrome
        <4>2. esr.srt = i.rt
          BY <1>3, <2>1 DEF Syndrome
        <4>3. Syndrome(i, isv).wnr = (isv /\ i.op = "str")
          BY DEF Syndrome
        <4>4. esr.wnr = Syndrome(i, isv).wnr
          BY <1>3, Zenon
        <4> QED
          BY <2>1, <4>1, <4>2, <4>3, <4>4
      <3>2. d = [size |-> esr.sas, rt |-> esr.srt, rn |-> 0, wnr |-> esr.wnr,
                 writeback |-> FALSE, wb_offset |-> 0]
        BY <1>4, <2>1 DEF FromSyndrome
      <3>3. ~Indexed(i)
        BY <1>3, <2>1
      <3> HIDE DEF d, esr
      <3> QED
        BY <3>1, <3>2, <3>3
    <2>2. CASE ~isv
      <3>1. d = [size |-> i.size, rt |-> i.rt, rn |-> i.rn, wnr |-> i.op = "str",
                 writeback |-> Indexed(i), wb_offset |-> IF Indexed(i) THEN i.imm ELSE 0]
        BY <1>3, <1>4, <1>5, <2>2, DecodeCorrect
      <3> HIDE DEF d
      <3> QED
        BY <3>1
    <2> QED
      BY <2>1, <2>2
  <1>7. x = [r \in REGS |-> x[r]]
    BY DEF LauncherInv, Shape
  <1> HIDE DEF d
  <1>8. Emulated(d, Address(i, x) - PL011_BASE, x, dev) = Accessed(i, x, dev)
    BY <1>3, <1>6, <1>7, EmulatedIsAccessed
  <1> QED
    BY <1>1, <1>2, <1>3, <1>4, <1>8

\* So a data abort that main handles has that effect.
LEMMA HandledIsAccessed ==
  ASSUME LauncherInv, DataAbort
  PROVE  /\ pc \in RAM /\ ram[pc] \in Access /\ Native!Supported
         /\ x' = Accessed(ram[pc], x, dev).x
         /\ dev' = Accessed(ram[pc], x, dev).dev
  <1>1. /\ InDataAbort /\ Understood(exit_info.esr)
        /\ x' = Emulation(exit_info.esr).x /\ dev' = Emulation(exit_info.esr).dev
    BY DEF DataAbort
  <1> QED
    BY <1>1, EmulationIsAccessed

\* When a call on the way fails, the device has seen the instruction's access
\* or nothing.
LEMMA FailedIsAccessed ==
  ASSUME LauncherInv, DataAbortFails
  PROVE  \/ UNCHANGED dev
         \/ /\ pc \in RAM /\ ram[pc] \in Access /\ Native!Supported
            /\ dev' = Accessed(ram[pc], x, dev).dev
  BY EmulationIsAccessed DEF DataAbortFails

\* What does not touch the file and the memory leaves the image alone.
LEMMA BootKept ==
  ASSUME Shape, ImageLoaded, UNCHANGED boot, x' = [r \in REGS |-> x'[r]]
  PROVE  Shape' /\ ImageLoaded'
  <1>1. elf' = elf /\ seg' = seg /\ ram' = ram
    BY DEF boot
  <1>2. Shape'
    BY <1>1 DEF Shape
  <1>3. ImageLoaded'
    BY <1>1 DEF ImageLoaded, Covers, Word, Dest, FileEnd, MemEnd
  <1> QED
    BY <1>2, <1>3

\* ImageLoaded for one word, with n segments loaded.
ImageAt(mem, e, n, a) ==
  \/ /\ mem[a] = ZERO
     /\ \A k \in 1..n : ~Covers(e.ph[k], a)
  \/ \E k \in 1..n :
       /\ Covers(e.ph[k], a)
       /\ mem[a] = Word(e.ph[k], a)
       /\ \A j \in (k + 1)..n : ~Covers(e.ph[j], a)

\* One iteration of load_elf_into keeps memory whole and puts the segment on
\* top of the ones before it.
LEMMA LoadKeeps ==
  ASSUME Shape, ImageLoaded, LoadSegment, host' = host
  PROVE  Shape' /\ ImageLoaded' /\ UNCHANGED <<host, x, pc, dev, exit_info>>
  <1> DEFINE ph == elf.ph[seg]
  <1>1. /\ seg <= Len(elf.ph)
        /\ ram' = [a \in RAM |-> IF Covers(ph, a) THEN Word(ph, a) ELSE ram[a]]
        /\ seg' = seg + 1
        /\ UNCHANGED <<host, elf, x, pc, dev, exit_info>>
    BY DEF LoadSegment, Stop, Overrun
  <1>2. seg \in 1..Len(elf.ph) /\ Header(ph)
    BY <1>1, HeaderOfFile
  <1> HIDE DEF ph
  <1>5. ram' \in [RAM -> Access \cup Plain]
    BY <1>1, <1>2, WordIsWord DEF Shape
  <1>6. Shape'
    BY <1>1, <1>5 DEF Shape
  <1>7. ImageLoaded'
    <2>0. seg \in Nat \ {0} /\ seg' - 1 = seg /\ elf' = elf
      BY <1>1 DEF Shape
    <2> SUFFICES ASSUME NEW a \in RAM
                 PROVE  ImageAt(ram', elf, seg, a)
      <3>1. (\A a \in RAM : ImageAt(ram', elf', seg' - 1, a)) => ImageLoaded'
        BY DEF ImageLoaded, ImageAt, Covers, Word, Dest, FileEnd, MemEnd, ZERO
      <3> QED
        BY <2>0, <3>1
    <2> USE DEF ImageAt
    <2>1. CASE Covers(ph, a)
      <3>1. ram'[a] = Word(ph, a)
        BY <1>1, <2>1
      <3>2. seg \in 1..seg /\ (seg + 1)..seg = {}
        BY <2>0
      <3> QED
        BY <2>1, <3>1, <3>2 DEF ph
    <2>2. CASE ~Covers(ph, a)
      <3>1. ram'[a] = ram[a]
        BY <1>1, <2>2
      <3>2. CASE ram[a] = ZERO /\ \A n \in 1..(seg - 1) : ~Covers(elf.ph[n], a)
        <4>1. \A n \in 1..seg : n \in 1..(seg - 1) \/ n = seg
          BY <2>0
        <4> QED
          BY <2>2, <3>1, <3>2, <4>1 DEF ph
      <3>3. CASE \E n \in 1..(seg - 1) :
                   /\ Covers(elf.ph[n], a)
                   /\ ram[a] = Word(elf.ph[n], a)
                   /\ \A k \in (n + 1)..(seg - 1) : ~Covers(elf.ph[k], a)
        <4>1. PICK n \in 1..(seg - 1) :
                   /\ Covers(elf.ph[n], a)
                   /\ ram[a] = Word(elf.ph[n], a)
                   /\ \A k \in (n + 1)..(seg - 1) : ~Covers(elf.ph[k], a)
          BY <3>3
        <4>2. n \in 1..seg /\ \A k \in (n + 1)..seg : k \in (n + 1)..(seg - 1) \/ k = seg
          BY <2>0
        <4>3. \A k \in (n + 1)..seg : ~Covers(elf.ph[k], a)
          BY <2>2, <4>1, <4>2 DEF ph
        <4> QED
          BY <3>1, <4>1, <4>2, <4>3
      <3> QED
        BY <3>2, <3>3 DEF ImageLoaded
    <2> QED
      BY <2>1, <2>2
  <1> QED
    BY <1>1, <1>6, <1>7

\* Every step of main, of the kicker thread and of the vCPU keeps the
\* invariant.
LEMMA NextInv ==
  LauncherInv /\ [Next]_vars => LauncherInv'
  <1> SUFFICES ASSUME LauncherInv, [Next]_vars PROVE LauncherInv'
    OBVIOUS
  <1>1. Shape /\ Idle /\ AbortIsCurrent /\ ImageLoaded /\ LoadsInBounds /\ StopsOnlyWhenStuck
    BY DEF LauncherInv
  <1>2. x = [r \in REGS |-> x[r]]
    BY <1>1 DEF Shape
  <1>3. ASSUME Stop, exit_info.reason # "none" => exit_info.reason \in {"unknown", "failed"} \/ ~Native!Supported
        PROVE  LauncherInv'
    <2>1. Shape' /\ ImageLoaded'
      BY <1>1, <1>2, <1>3, BootKept DEF Stop, boot
    <2>2. Idle' /\ AbortIsCurrent' /\ LoadsInBounds'
      BY <1>3 DEF Stop, Idle, AbortIsCurrent, LoadsInBounds
    <2>3. Native!Supported' <=> Native!Supported
      BY <1>3 DEF Stop, boot, Native!Supported, Native!IsAccess, Native!in_pl011_range, Native!Address
    <2>4. StopsOnlyWhenStuck'
      BY <1>3, <2>3 DEF Stop, StopsOnlyWhenStuck
    <2> QED
      BY <2>1, <2>2, <2>4 DEF LauncherInv
  <1>4. ASSUME UNCHANGED boot, x' = [r \in REGS |-> x'[r]],
               host' \notin {"stopped", "undefined"}, Idle', AbortIsCurrent'
        PROVE  LauncherInv'
    <2>1. Shape' /\ ImageLoaded'
      BY <1>1, <1>4, BootKept
    <2>2. StopsOnlyWhenStuck' /\ LoadsInBounds'
      BY <1>4 DEF StopsOnlyWhenStuck, LoadsInBounds
    <2> QED
      BY <1>4, <2>1, <2>2 DEF LauncherInv
  <1>5. CASE Start
    <2>1. exit_info.reason = "none"
      BY <1>1, <1>5 DEF Start, Idle
    <2>2. CASE Stop
      BY <1>3, <2>1, <2>2
    <2>3. CASE host' = "load" /\ UNCHANGED <<boot, x, pc, dev, exit_info, pending, kicker>>
      BY <1>2, <1>4, <2>1, <2>3 DEF Idle, AbortIsCurrent
    <2> QED
      BY <1>5, <2>2, <2>3 DEF Start
  <1>6. CASE LoadSegment
    <2>1. host = "load" /\ exit_info.reason = "none"
      BY <1>1, <1>6 DEF LoadSegment, Idle
    <2>2. CASE Stop
      BY <1>3, <2>1, <2>2
    <2>3. CASE host' = host
      <3>1. Shape' /\ ImageLoaded' /\ UNCHANGED <<host, x, pc, dev, exit_info>>
        BY <1>1, <1>6, <2>3, LoadKeeps
      <3> QED
        BY <2>1, <3>1 DEF LauncherInv, Idle, AbortIsCurrent, LoadsInBounds, StopsOnlyWhenStuck
    <2>4. CASE Overrun /\ seg <= Len(elf.ph) /\ Fits(elf.ph[seg]) /\ ~InBounds(elf.ph[seg])
      <3>1. Shape' /\ ImageLoaded'
        BY <1>1, <1>2, <2>4, BootKept DEF Overrun, boot
      <3>2. ~Linked(elf.ph[seg])
        BY <1>1, <2>4, HeaderOfFile, LinkedInBounds
      <3>3. LoadsInBounds'
        BY <2>4, <3>2 DEF Overrun, boot, LoadsInBounds, Linked, MemEnd, Dest
      <3> QED
        BY <2>4, <3>1, <3>3 DEF Overrun, LauncherInv, Idle, AbortIsCurrent, StopsOnlyWhenStuck
    <2> QED
      BY <1>6, <2>2, <2>3, <2>4 DEF LoadSegment
  <1>7. CASE CreateVcpu
    <2>1. exit_info.reason = "none"
      BY <1>1, <1>7 DEF CreateVcpu, Idle
    <2>2. CASE Stop
      BY <1>3, <2>1, <2>2
    <2>3. CASE host' = "loop" /\ UNCHANGED <<boot, x, dev, exit_info, pending, kicker>>
      BY <1>2, <1>4, <2>1, <2>3 DEF Idle, AbortIsCurrent
    <2> QED
      BY <1>7, <2>2, <2>3 DEF CreateVcpu
  <1>8. CASE Run
    <2>1. exit_info.reason = "none" /\ UNCHANGED <<boot, x>>
      BY <1>1, <1>8 DEF Run, Idle
    <2>2. /\ host' \in {"exit", "guest"}
          /\ host' = "guest" => exit_info' = exit_info
          /\ host' = "exit" => exit_info'.reason = "canceled"
      BY <1>8 DEF Run, Exit
    <2> QED
      BY <1>2, <1>4, <2>1, <2>2 DEF Idle, AbortIsCurrent
  <1>9. CASE Kick
    <2>1. UNCHANGED <<host, boot, x, pc, exit_info>> /\ host \notin {"stopped", "undefined"}
      BY <1>9 DEF Kick
    <2>2. AbortIsCurrent'
      BY <1>1, <2>1 DEF AbortIsCurrent, boot, Syndrome, Address
    <2> QED
      BY <1>1, <1>2, <1>4, <2>1, <2>2 DEF Idle
  <1>10. ASSUME NEW reason \in {"canceled", "vtimer", "unknown"}, Leave(Exit(reason, NoAbort))
         PROVE  LauncherInv'
    <2>1. host' = "exit" /\ exit_info'.reason # "exception" /\ UNCHANGED <<boot, x>>
      BY <1>10 DEF Leave, Exit
    <2> QED
      BY <1>2, <1>4, <2>1 DEF Idle, AbortIsCurrent
  <1>11. CASE Canceled \/ VtimerActivated \/ UnknownExit
    BY <1>10, <1>11 DEF Canceled, VtimerActivated, UnknownExit
  <1>12. CASE Mov
    <2>1. /\ host = "guest" /\ exit_info.reason = "none" /\ UNCHANGED <<host, boot, exit_info>>
          /\ x' = [x EXCEPT ![ram[pc].rd] = ram[pc].val]
      BY <1>1, <1>12 DEF Mov, Fetched, Idle
    <2>2. x' = [r \in REGS |-> x'[r]]
      BY <1>2, <2>1
    <2> QED
      BY <1>4, <2>1, <2>2 DEF Idle, AbortIsCurrent
  <1>13. ASSUME NEW isv \in BOOLEAN, Abort(isv)
         PROVE  LauncherInv'
    <2>1. /\ pc \in RAM /\ ram[pc].op \in {"ldr", "str"}
          /\ isv => ram[pc].mode \in IMMEDIATE /\ ~Indexed(ram[pc])
          /\ host' = "exit" /\ exit_info' = Exit("exception", Syndrome(ram[pc], isv))
          /\ UNCHANGED <<boot, x, pc>>
      BY <1>13 DEF Abort, Fetched, Leave
    <2>2. ram[pc] \in Access
      BY <1>1, <2>1 DEF Shape, Plain
    <2>3. /\ ram' = ram /\ pc' = pc /\ x' = x
          /\ exit_info'.esr = Syndrome(ram[pc], isv)
      BY <2>1 DEF boot, Exit
    <2>4. Syndrome(ram[pc], isv)' = Syndrome(ram[pc], isv)
      BY <2>3 DEF Syndrome, Address
    <2>5. AbortIsCurrent'
      BY <2>1, <2>2, <2>3, <2>4 DEF AbortIsCurrent, Indexed
    <2> QED
      BY <1>2, <1>4, <2>1, <2>5 DEF Idle
  <1>14. CASE Smc
    <2>1. /\ pc \in RAM /\ ram[pc].op = "smc" /\ host' = "exit"
          /\ exit_info'.esr.ec = 23 /\ UNCHANGED <<boot, x, pc>>
      BY <1>14 DEF Smc, Fetched, Leave, Exit, NoAbort
    <2> QED
      BY <1>2, <1>4, <2>1 DEF Idle, AbortIsCurrent, boot
  <1>15. CASE InstructionAbort
    <2>1. /\ pc \notin RAM /\ host' = "exit"
          /\ exit_info'.esr.ec = 32 /\ UNCHANGED <<boot, x, pc>>
      BY <1>15 DEF InstructionAbort, Leave, Exit, NoAbort
    <2> QED
      BY <1>2, <1>4, <2>1 DEF Idle, AbortIsCurrent, boot
  <1>16. CASE DataAbort
    <2>1. host' = "loop" /\ exit_info'.reason = "none" /\ UNCHANGED boot
      BY <1>16 DEF DataAbort, NoExit, Exit
    <2>2. x' = Accessed(ram[pc], x, dev).x
      BY <1>16, HandledIsAccessed
    <2>3. x' = [r \in REGS |-> x'[r]]
      BY <1>2, <2>2 DEF Accessed
    <2> QED
      BY <1>4, <2>1, <2>3 DEF Idle, AbortIsCurrent
  <1>17. CASE Resume
    BY <1>2, <1>4, <1>17 DEF Resume, NoExit, Exit, Idle, AbortIsCurrent
  <1>18. CASE Unhandled
    <2>1. Stop
      BY <1>18 DEF Unhandled
    <2>2. exit_info.reason = "unknown" \/ ~Native!Supported
      BY <1>18, UnderstoodIsSupported DEF Unhandled, InDataAbort
    <2> QED
      BY <1>3, <2>1, <2>2
  <1>19. CASE UNCHANGED vars
    <2>1. UNCHANGED <<host, boot, x, pc, exit_info>>
      BY <1>19 DEF vars
    <2>2. CASE host \in {"stopped", "undefined"}
      <3>1. Shape' /\ ImageLoaded'
        BY <1>1, <1>2, <2>1, BootKept
      <3>2. Native!Supported' <=> Native!Supported
        BY <2>1 DEF boot, Native!Supported, Native!IsAccess, Native!in_pl011_range, Native!Address
      <3> QED
        BY <1>1, <2>1, <2>2, <3>1, <3>2
        DEF LauncherInv, Idle, AbortIsCurrent, LoadsInBounds, StopsOnlyWhenStuck, boot, Linked, MemEnd, Dest
    <2>3. CASE host \notin {"stopped", "undefined"}
      <3>1. AbortIsCurrent'
        BY <1>1, <2>1 DEF AbortIsCurrent, boot, Syndrome, Address
      <3> QED
        BY <1>1, <1>2, <1>4, <2>1, <2>3, <3>1 DEF Idle
    <2> QED
      BY <2>2, <2>3
  <1>20. CASE DataAbortFails
    <2>1. /\ host' = "stopped" /\ exit_info'.reason = "failed" /\ UNCHANGED <<boot, x>>
      BY <1>20 DEF DataAbortFails, Exit
    <2>2. Shape' /\ ImageLoaded'
      BY <1>1, <1>2, <2>1, BootKept
    <2> QED
      BY <2>1, <2>2 DEF LauncherInv, Idle, AbortIsCurrent, LoadsInBounds, StopsOnlyWhenStuck
  <1> QED
    BY <1>5, <1>6, <1>7, <1>8, <1>9, <1>11, <1>12, <1>13, <1>14, <1>15, <1>16, <1>17, <1>18, <1>19, <1>20
       DEF Next, Launcher, Setup, Guest, HandleExit

-----------------------------------------------------------------------------
(* The theorems.                                                           *)

\* The invariant holds of every behaviour of the launcher: memory keeps its
\* bounds, and the exit main handles is the one of the instruction at the PC
\* (hvf_main.c:495-555).
THEOREM LauncherInvariant ==
  Spec => []LauncherInv
  <1> QED
    BY InitInv, NextInv, PTL DEF Spec

\* For a header that a linker could have written, load_elf_into's check on
\* p_memsz (hvf_main.c:128-133) keeps memcpy and memset in guest memory, for
\* every memory size and wherever the segment is.
THEOREM BoundsCorrect ==
  Spec => []LoadsInBounds
  <1>1. LauncherInv => LoadsInBounds
    BY DEF LauncherInv
  <1> QED
    BY <1>1, LauncherInvariant, PTL

\* Guest memory is what the segments loaded so far say (load_elf_into,
\* hvf_main.c:125-141), for every file of word-aligned segments, every memory
\* size and every sequence of exits.  A file with a segment that leaves guest
\* memory gets no further than that segment in this model.
THEOREM ImageCorrect ==
  Spec => []ImageLoaded
  <1>1. LauncherInv => ImageLoaded
    BY DEF LauncherInv
  <1> QED
    BY <1>1, LauncherInvariant, PTL

\* The launcher gives up only on a failed call, an exit it does not know or an
\* instruction it does not support (hvf_main.c:516-553).
THEOREM GivesUpOnlyWhenStuck ==
  Spec => []StopsOnlyWhenStuck
  <1>1. LauncherInv => StopsOnlyWhenStuck
    BY DEF LauncherInv
  <1> QED
    BY <1>1, LauncherInvariant, PTL

\* Every step of the launcher is a step of the machine, or none.
LEMMA StepImplements ==
  LauncherInv /\ [Next]_vars => [Native!Next]_(Native!vars)
  <1> SUFFICES ASSUME LauncherInv, [Next]_vars PROVE [Native!Next]_(Native!vars)
    OBVIOUS
  <1> DEFINE power == IF host \in {"start", "load"} THEN "off" ELSE IF host \in {"stopped", "undefined"} THEN "lost" ELSE "on"
  <1>1. ASSUME Stop PROVE Native!PowerLost
    BY <1>1 DEF Stop, boot, Native!PowerLost
  <1>2. ASSUME UNCHANGED <<ram, x, pc, dev>>, power' = power
        PROVE  UNCHANGED Native!vars
    BY <1>2 DEF Native!vars
  <1>3. CASE Start
    <2>1. CASE Stop
      BY <1>1, <2>1 DEF Native!Next
    <2>2. CASE ~Stop
      <3>1. UNCHANGED <<ram, x, pc, dev>> /\ power' = power
        BY <1>3, <2>2 DEF Start, boot
      <3> QED
        BY <1>2, <3>1
    <2> QED
      BY <2>1, <2>2
  <1>4. CASE LoadSegment
    <2>1. CASE Stop
      BY <1>1, <2>1 DEF Native!Next
    <2>2. CASE Overrun
      <3>1. Native!PowerLost
        BY <2>2 DEF Overrun, boot, Native!PowerLost
      <3> QED
        BY <3>1 DEF Native!Next
    <2>3. CASE ~Stop /\ ~Overrun
      <3>1. host = "load" /\ UNCHANGED <<host, x, pc, dev>>
        BY <1>4, <2>3 DEF LoadSegment
      <3>2. Native!Load
        BY <3>1 DEF Native!Load
      <3> QED
        BY <3>2 DEF Native!Next
    <2> QED
      BY <2>1, <2>2, <2>3
  <1>5. CASE CreateVcpu
    <2>1. CASE Stop
      BY <1>1, <2>1 DEF Native!Next
    <2>2. CASE ~Stop
      <3>1. /\ host = "load" /\ host' = "loop" /\ UNCHANGED <<ram, x, dev>>
            /\ pc' = IF elf.entry = 0 THEN HYP_ENTRY ELSE elf.entry
        BY <1>5, <2>2 DEF CreateVcpu, boot
      <3>2. pc' \in Nat
        BY <3>1, LayoutAssumption, ElfAssumption DEF LauncherInv, Shape, RAM
      <3>3. Native!PowerOn
        BY <3>1, <3>2 DEF Native!PowerOn
      <3> QED
        BY <3>3 DEF Native!Next
    <2> QED
      BY <2>1, <2>2
  <1>6. CASE Run \/ Kick \/ Resume
    <2>1. UNCHANGED <<ram, x, pc, dev>> /\ power' = power
      BY <1>6 DEF Run, Kick, Resume, boot
    <2> QED
      BY <1>2, <2>1
  <1>7. ASSUME NEW info, Leave(info) PROVE UNCHANGED Native!vars
    <2>1. UNCHANGED <<ram, x, pc, dev>> /\ power' = power
      BY <1>7 DEF Leave, boot
    <2> QED
      BY <1>2, <2>1
  <1>8. CASE Canceled \/ VtimerActivated \/ UnknownExit \/ Smc \/ InstructionAbort
             \/ \E isv \in BOOLEAN : Abort(isv)
    BY <1>7, <1>8 DEF Canceled, VtimerActivated, UnknownExit, Smc, InstructionAbort, Abort
  <1>9. CASE Mov
    <2>1. /\ host = "guest" /\ pc \in RAM /\ ram[pc].op = "mov"
          /\ x' = [x EXCEPT ![ram[pc].rd] = ram[pc].val] /\ pc' = pc + 4
          /\ UNCHANGED <<host, ram, dev>>
      BY <1>9 DEF Mov, Fetched, boot
    <2>2. Native!Supported
      BY <2>1, SameSupported
    <2>3. Native!Execute
      BY <2>1, <2>2 DEF Native!Execute
    <2> QED
      BY <2>3 DEF Native!Next
  <1>10. CASE DataAbort
    <2>1. host = "exit" /\ host' = "loop" /\ pc' = pc + 4 /\ ram' = ram
      BY <1>10 DEF DataAbort, InDataAbort, boot
    <2>2. /\ ram[pc] \in Access /\ Native!Supported
          /\ x' = Native!Accessed(ram[pc], x, dev).x
          /\ dev' = Native!Accessed(ram[pc], x, dev).dev
      BY <1>10, HandledIsAccessed, SameAccess
    <2>3. ram[pc].op # "mov"
      BY <2>2, AccessFields
    <2>4. Native!Execute
      BY <2>1, <2>2, <2>3 DEF Native!Execute
    <2> QED
      BY <2>4 DEF Native!Next
  <1>11. CASE Unhandled
    BY <1>1, <1>11 DEF Unhandled, Native!Next
  <1>12. CASE UNCHANGED vars
    <2>1. UNCHANGED <<ram, x, pc, dev>> /\ power' = power
      BY <1>12 DEF vars, boot
    <2> QED
      BY <1>2, <2>1
  <1>13. CASE DataAbortFails
    <2>1. host = "exit" /\ host' = "stopped" /\ UNCHANGED <<ram, x, pc>>
      BY <1>13 DEF DataAbortFails, InDataAbort, boot
    <2>2. \/ UNCHANGED dev
          \/ /\ ram[pc] \in Access /\ Native!Supported
             /\ dev' = Native!Accessed(ram[pc], x, dev).dev
      BY <1>13, FailedIsAccessed, SameAccess
    <2>3. ram[pc] \in Access => Native!IsAccess(ram[pc])
      BY AccessFields DEF Native!IsAccess
    <2>4. Native!PowerLost
      BY <2>1, <2>2, <2>3 DEF Native!PowerLost
    <2> QED
      BY <2>4 DEF Native!Next
  <1> QED
    BY <1>3, <1>4, <1>5, <1>6, <1>8, <1>9, <1>10, <1>11, <1>12, <1>13
       DEF Next, Launcher, Setup, Guest, HandleExit

\* The launcher implements a machine with a PL011 on its bus: the safety part
\* of NativeSpec, for every program, every memory size and every sequence of
\* exits, kicks and timer events (hvf_main.c:287-345 and 495-555).
THEOREM ImplementsMachine ==
  Spec => Native!Spec
  <1>1. Init => Native!Init
    <2>1. Native!pl011 = pl011
      BY DEF Native!pl011, pl011, Native!STORED, STORED, Native!UARTIMSC, UARTIMSC, Native!UARTCR, UARTCR,
             Native!UARTLCR_H, UARTLCR_H, Native!UARTIBRD, UARTIBRD, Native!UARTFBRD, UARTFBRD
    <2> QED
      BY <2>1 DEF Init, Native!Init
  <1> QED
    BY <1>1, StepImplements, LauncherInvariant, PTL DEF Spec, Native!Spec

-----------------------------------------------------------------------------
(* The types.                                                              *)

\* The raw interrupt bits are never set, and no bits make a value.
LEMMA NoBits ==
  ValueOf({}) \in Int
  <1>1. ASSUME NEW b \in 0..10
        PROVE  2^b \in Nat /\ 2^b > 0
    <2>1. b \in {0, 1, 2, 3, 4, 5, 6, 7, 8, 9, 10}
      OBVIOUS
    <2>2. /\ 2^0 > 0 /\ 2^1 > 0 /\ 2^2 > 0 /\ 2^3 > 0 /\ 2^4 > 0 /\ 2^5 > 0
          /\ 2^6 > 0 /\ 2^7 > 0 /\ 2^8 > 0 /\ 2^9 > 0 /\ 2^10 > 0
      OBVIOUS
    <2>3. 2^b > 0
      BY <2>1, <2>2, Zenon
    <2>4. 2^b \in Int
      OBVIOUS
    <2> QED
      BY <2>3, <2>4
  <1>2. \A n \in Nat : n > 0 => (0 \div n) % 2 # 1
    OBVIOUS
  <1>3. BitsOf(0) = {}
    <2>1. \A b \in 0..10 : (0 \div 2^b) % 2 # 1
      BY <1>1, <1>2, Zenon
    <2> QED
      BY <2>1, Zenon DEF BitsOf
  <1>4. 0 \in 0..2^11 - 1
    OBVIOUS
  <1>5. ValueOf({}) \in 0..2^11 - 1
    BY <1>3, <1>4, Zenon DEF ValueOf
  <1> QED
    BY <1>5

\* A masked value is a natural number.
LEMMA MaskedType ==
  ASSUME NEW v \in Int, NEW size
  PROVE  Masked(v, size) \in Nat
  <1> DEFINE b2 == BYTE * BYTE
             b4 == b2 * b2
  <1>1. BYTE \in Nat /\ BYTE > 0
    BY ByteAssumption
  <1>2. b2 \in Nat /\ b2 > 0
    BY <1>1
  <1>3. BYTE * BYTE * BYTE * BYTE = b4
    BY <1>1
  <1> HIDE DEF b2
  <1>4. b4 \in Nat /\ b4 > 0
    BY <1>2
  <1> HIDE DEF b4
  <1>5. \A m \in Nat : m > 0 => v % m \in Nat
    OBVIOUS
  <1> QED
    BY <1>1, <1>2, <1>3, <1>4, <1>5 DEF Masked, b2

\* pl011_read and pl011_write stay within the device's type.
LEMMA DeviceType ==
  ASSUME NEW pl \in Device, NEW off, NEW v \in Int
  PROVE  pl011_read(pl, off) \in Int /\ pl011_write(pl, off, v) \in Device
  <1>1. pl011_read(pl, off) \in Int
    <2>1. pl.ris = {} /\ pl.ris \cap BitsOf(pl.reg[UARTIMSC]) = {}
      BY DEF Device
    <2>2. 0 \in Int
      OBVIOUS
    <2>3. off \in STORED => pl.reg[off] \in Int
      BY DEF Device
    <2> QED
      BY <2>1, <2>2, <2>3, NoBits DEF pl011_read
  <1>2. v % BYTE \in Int
    BY ByteAssumption
  <1>3. /\ [pl EXCEPT !.out = Append(@, v % BYTE)] \in Device
        /\ off \in STORED => [pl EXCEPT !.reg[off] = v] \in Device
        /\ [pl EXCEPT !.ris = @ \ BitsOf(v)] \in Device
    <2> DEFINE lost == BitsOf(v)
    <2> HIDE DEF lost
    <2>1. [pl EXCEPT !.out = Append(@, v % BYTE)] \in Device
      <3> DEFINE byte == v % BYTE
      <3>1. byte \in Int
        BY <1>2
      <3> HIDE DEF byte
      <3>2. pl.out \in Seq(Int)
        BY DEF Device
      <3>3. Append(pl.out, byte) \in Seq(Int)
        BY <3>1, <3>2
      <3>4. [pl EXCEPT !.out = Append(@, byte)] \in Device
        BY <3>3 DEF Device
      <3> QED
        BY <3>4 DEF byte
    <2>2. off \in STORED => [pl EXCEPT !.reg[off] = v] \in Device
      BY DEF Device
    <2>3. [pl EXCEPT !.ris = @ \ lost] \in Device
      <3>1. pl.ris \ lost = {}
        BY DEF Device
      <3> QED
        BY <3>1 DEF Device
    <2> QED
      BY <2>1, <2>2, <2>3 DEF lost
  <1> QED
    BY <1>1, <1>3 DEF pl011_write

\* So do the registers and the device across a load or store.
LEMMA AccessedType ==
  ASSUME NEW i \in Access, NEW xs \in RegisterFile, NEW pl \in Device
  PROVE  Accessed(i, xs, pl).x \in RegisterFile /\ Accessed(i, xs, pl).dev \in Device
  <1> DEFINE off == Address(i, xs) - PL011_BASE
             stored == IF i.rt = 31 THEN 0 ELSE Masked(xs[i.rt], i.size)
             loaded == Masked(pl011_read(pl, off), i.size)
  <1>1. i.rn \in REGS /\ i.rt \in REGS \cup {31}
    BY AccessFields
  <1>2. i.imm \in Int
    <2>1. SIMM9 \subseteq Int
      BY DEF SIMM9
    <2>2. UIMM12 \subseteq Int
      BY DEF UIMM12
    <2> QED
      BY <2>1, <2>2, AccessFields
  <1>3. stored \in Int
    BY <1>1, MaskedType DEF RegisterFile
  <1>4. loaded \in Int
    BY DeviceType, MaskedType
  <1> HIDE DEF off, loaded, stored
  <1>5. Accessed(i, xs, pl) =
          [x |-> [r \in DOMAIN xs |-> IF i.op = "ldr" /\ r = i.rt THEN loaded
                                      ELSE IF Indexed(i) /\ r = i.rn THEN xs[r] + i.imm
                                      ELSE xs[r]],
           dev |-> IF i.op = "str" THEN pl011_write(pl, off, stored) ELSE pl]
    BY DEF Accessed, off, loaded, stored
  <1>6. Accessed(i, xs, pl).x \in RegisterFile
    BY <1>2, <1>4, <1>5 DEF RegisterFile
  <1>7. Accessed(i, xs, pl).dev \in Device
    BY <1>3, <1>5, DeviceType
  <1> QED
    BY <1>6, <1>7

\* What TypeOK says of the variables that LauncherInv leaves open.
Typed ==
  /\ host \in {"start", "load", "loop", "guest", "exit", "stopped", "undefined"}
  /\ x \in RegisterFile /\ pc \in Int /\ dev \in Device
  /\ exit_info.reason \in {"none", "canceled", "vtimer", "unknown", "failed", "exception"}
  /\ pending \in BOOLEAN /\ kicker \in {"armed", "fired", "asleep"}

\* main starts with its variables in their types.
LEMMA InitTyped ==
  Init => Typed
  <1> SUFFICES ASSUME Init PROVE Typed
    OBVIOUS
  <1>1. dev \in Device
    <2>1. <<>> \in Seq(Int) /\ 0 \in Int /\ \h300 \in Int
      OBVIOUS
    <2> QED
      BY <2>1 DEF Init, pl011, Device
  <1>2. x \in RegisterFile /\ pc \in Int
    BY DEF Init, RegisterFile
  <1> QED
    BY <1>1, <1>2 DEF Init, Typed, NoExit, Exit

\* Every step keeps them there: a register or a device register only ever gets
\* an immediate, a masked value, or a base with its offset added.
LEMMA NextTyped ==
  LauncherInv /\ Typed /\ [Next]_vars => Typed'
  <1> SUFFICES ASSUME LauncherInv, Typed, [Next]_vars PROVE Typed'
    OBVIOUS
  <1>1. pc + 4 \in Int
    BY DEF Typed
  <1>2. ASSUME Stop PROVE Typed'
    BY <1>2 DEF Stop, Typed
  <1>3. ASSUME NEW reason \in {"canceled", "vtimer", "unknown", "exception"}, NEW esr,
               Leave(Exit(reason, esr)), kicker' \in {"armed", "fired", "asleep"}
        PROVE  Typed'
    BY <1>3 DEF Leave, Exit, Typed
  <1>4. CASE Start
    BY <1>2, <1>4 DEF Start, Typed
  <1>5. CASE LoadSegment
    BY <1>2, <1>5 DEF LoadSegment, Overrun, Typed
  <1>6. CASE CreateVcpu
    <2>1. elf.entry # 0 => elf.entry \in Int
      BY ElfAssumption, RamAddress DEF LauncherInv, Shape
    <2>2. HYP_ENTRY \in Int
      BY LayoutAssumption, RamAddress
    <2> QED
      BY <1>2, <1>6, <2>1, <2>2 DEF CreateVcpu, Typed
  <1>7. CASE Run
    <2>1. /\ host' \in {"exit", "guest"} /\ pending' \in BOOLEAN /\ kicker' \in {"asleep", "armed"}
          /\ exit_info' = exit_info \/ exit_info' = Exit("canceled", NoAbort)
          /\ UNCHANGED <<x, pc, dev>>
      BY <1>7 DEF Run
    <2> QED
      BY <2>1 DEF Typed, Exit
  <1>8. CASE Kick
    BY <1>8 DEF Kick, Typed
  <1>9. CASE Canceled
    BY <1>3, <1>9 DEF Canceled
  <1>10. CASE VtimerActivated \/ UnknownExit \/ Smc \/ InstructionAbort
    <2>1. kicker' \in {"armed", "fired", "asleep"}
      BY <1>10 DEF VtimerActivated, UnknownExit, Smc, InstructionAbort, Typed
    <2> QED
      BY <1>3, <1>10, <2>1 DEF VtimerActivated, UnknownExit, Smc, InstructionAbort
  <1>11. CASE Mov
    <2>1. ram[pc] \in Access \cup Plain /\ ram[pc].op = "mov"
      BY <1>11 DEF Mov, Fetched, LauncherInv, Shape
    <2>2. ram[pc] \notin Access
      BY <2>1, AccessFields
    <2>3. ram[pc].val \in Int
      BY <2>1, <2>2 DEF Plain
    <2>4. x' \in RegisterFile
      BY <1>11, <2>3 DEF Mov, Typed, RegisterFile
    <2> QED
      BY <1>1, <1>11, <2>4 DEF Mov, Typed
  <1>12. ASSUME NEW isv \in BOOLEAN, Abort(isv)
         PROVE  Typed'
    <2>1. kicker' \in {"armed", "fired", "asleep"}
      BY <1>12 DEF Abort, Typed
    <2> QED
      BY <1>3, <1>12, <2>1 DEF Abort
  <1>13. CASE DataAbort
    <2>1. x' \in RegisterFile /\ dev' \in Device
      BY <1>13, HandledIsAccessed, AccessedType DEF Typed
    <2>2. /\ host' = "loop" /\ pc' = pc + 4 /\ exit_info'.reason = "none"
          /\ UNCHANGED <<pending, kicker>>
      BY <1>13 DEF DataAbort, NoExit, Exit
    <2> QED
      BY <1>1, <2>1, <2>2 DEF Typed
  <1>14. CASE Resume
    BY <1>14 DEF Resume, Typed, NoExit, Exit
  <1>15. CASE Unhandled
    BY <1>2, <1>15 DEF Unhandled
  <1>16. CASE UNCHANGED vars
    BY <1>16 DEF vars, Typed
  <1>17. CASE DataAbortFails
    <2>1. dev' \in Device
      BY <1>17, FailedIsAccessed, AccessedType DEF Typed
    <2> QED
      BY <1>17, <2>1 DEF DataAbortFails, Exit, Typed
  <1> QED
    BY <1>4, <1>5, <1>6, <1>7, <1>8, <1>9, <1>10, <1>11, <1>12, <1>13, <1>14, <1>15, <1>16, <1>17
    DEF Next, Launcher, Setup, Guest, HandleExit

\* Every variable keeps its type: whatever the file puts into memory are words,
\* handle_data_abort (hvf_main.c:287-345) writes registers that exist and the
\* zero register never, and it leaves integers in all of them.
THEOREM LauncherTypes ==
  Spec => []TypeOK
  <1>1. LauncherInv /\ Typed => TypeOK
    BY DEF LauncherInv, Shape, Typed, TypeOK
  <1>2. Init => LauncherInv /\ Typed
    BY InitInv, InitTyped
  <1>3. LauncherInv /\ Typed /\ [Next]_vars => (LauncherInv /\ Typed)'
    BY NextInv, NextTyped
  <1> QED
    BY <1>1, <1>2, <1>3, PTL DEF Spec

=============================================================================
