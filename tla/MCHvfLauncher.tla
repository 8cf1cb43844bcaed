--------------------------- MODULE MCHvfLauncher ---------------------------
(***************************************************************************)
(* Programs for the launcher: one device access of every form, at its      *)
(* extreme immediates, of every size and on every kind of register; the    *)
(* forms and addresses it does not handle; and files laid out in every way *)
(* load_elf_into tells apart.                                              *)
(***************************************************************************)
EXTENDS LauncherView

MovTo(rd, val) == [op |-> "mov", rd |-> rd, val |-> val]
Wfe == [op |-> "wfe"]

\* A value that every access size cuts to another one.
Datum == 3 * BYTE^4 + 5 * BYTE^2 + 7 * BYTE + 9

Form(op, size, m, rt) == [op |-> op, size |-> size, mode |-> m[1], rt |-> rt, rn |-> 1, imm |-> m[2]]

Forms ==
  {Form(op, size, m, rt) : op \in {"ldr", "str"}, size \in 0..3, rt \in {0, 31},
     m \in {<<"scaled", 0>>, <<"scaled", 4095>>, <<"unscaled", -256>>, <<"unscaled", 255>>,
            <<"pre", -256>>, <<"pre", 255>>, <<"post", -1>>, <<"post", 8>>}}
OtherForms == {Form("ldr", 2, <<m, 0>>, 0) : m \in OTHER_MODES}

\* A program that makes access i to the device register at off and then reads
\* the control register.
Program(i, off) ==
  LET base == PL011_BASE + off - (Address(i, [r \in {1} |-> 0]))
  IN <<MovTo(1, base), MovTo(0, Datum), i,
       MovTo(1, PL011_BASE), Form("ldr", 2, <<"scaled", UARTCR \div 4>>, 2), Wfe>>

Load(addr, data, tail) ==
  [type |-> "load", paddr |-> addr, vaddr |-> RAM_BASE, data |-> data, memsz |-> Len(data) + tail]
File(entry, ph) == [valid |-> TRUE, entry |-> entry, ph |-> ph]
Single(prog) == File(RAM_BASE, <<Load(RAM_BASE, prog, 0)>>)

Programs ==
  {Single(Program(i, off)) : i \in Forms, off \in {UARTDR, UARTCR, UARTMIS, UARTICR}}
    \cup {Single(Program(i, UARTDR)) : i \in OtherForms}
    \cup {Single(Program(Form("str", 2, <<"scaled", 0>>, 0), off)) : off \in {PL011_SIZE, -4}}
    \cup {Single(<<[op |-> "smc"]>>)}

Hello == Program(Form("str", 2, <<"post", 4>>, 0), UARTDR)

Layouts ==
  LET code == Load(RAM_BASE + 4, Hello, 1) IN
  {File(0, <<code>>),
   File(RAM_BASE + 4, <<[code EXCEPT !.type = "note"], Load(RAM_BASE, <<Wfe>>, 2), code>>),
   File(RAM_BASE + 4, <<code, Load(RAM_BASE + 16, <<Wfe>>, 2)>>),
   File(RAM_BASE, <<[Load(0, Hello, 0) EXCEPT !.vaddr = RAM_BASE]>>),
   File(RAM_BASE, <<Load(RAM_BASE + 4 * RAM_WORDS - 4, <<Wfe>>, 1)>>),
   File(RAM_BASE, <<Load(RAM_BASE - 4, <<Wfe>>, 0)>>),
   File(RAM_BASE, <<Load(RAM_BASE, Hello, -2), Load(RAM_BASE + 4 * Len(Hello), <<Wfe>>, -1)>>),
   File(RAM_BASE, <<Load(RAM_END - 4, Hello, -Len(Hello))>>),
   File(RAM_BASE, <<Load(RAM_BASE, Hello, (UINT64 - RAM_BASE) \div 4)>>),
   File(RAM_END, <<Load(RAM_BASE, Hello, 0)>>),
   File(RAM_END - 4, <<Load(RAM_END - 4, <<MovTo(0, Datum)>>, 0)>>),
   [File(RAM_BASE, <<code>>) EXCEPT !.valid = FALSE]}

Elfs == Programs \cup Layouts

=============================================================================
