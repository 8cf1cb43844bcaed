--------------------------- MODULE Stage4Console ---------------------------
(***************************************************************************)
(* What the console sees of Stage4: the program of Console.                *)
(***************************************************************************)
EXTENDS Stage4

\* Where the EL2 handler is, 0 when it does not run, and the word of the program
\* that runs or that it has interrupted: SAVE_CTX takes the return address from
\* ELR_EL2, RESTORE_CTX puts it back before eret.
Handler == IF pc >= VECTOR_EL2 THEN Index(pc) - Index(VECTOR_EL2) + 1 ELSE 0
Program ==
  Index(IF Handler = 0 THEN pc ELSE IF Handler \in {1, 9, 29, 31} THEN sys.elr[2] ELSE sys.frame.elr)

\* The words of the program that print its text, and how much of it is out.
Prints(timeout) ==
  IF timeout
    THEN <<19, 23, 27, 31, 35, 39, 43, 50, 54, 58, 67, 71, 75, 83, 87, 91,
           100, 102, 110, 112, 114, 116, 119, 121>>
    ELSE <<19, 23, 27, 31, 35, 39, 43, 67, 71, 75, 83, 87, 91,
           100, 102, 110, 112, 114, 116, 119, 121>>
TextSaid(at, n) ==
  CHOOSE said \in 0..Len(at) : (said > 0 => at[said] < n) /\ (said < Len(at) => at[said + 1] >= n)

\* What is missing of a notice when the handler is at word k, and the
\* interrupts without one: pending, or acknowledged and about to get it.
NoticeRest(k, intid) ==
  CASE k \in 15..18 -> <<intid % BYTE, CR, LF>>
    [] k \in 19..22 -> <<CR, LF>>
    [] k \in 23..26 -> <<LF>>
    [] OTHER -> <<>>
NoticesDue(k) == sys.pend \cup (IF k \in {3, 4} \cup 10..14 THEN {x[19]} \cap STRAY ELSE {})

\* The console as Stage4's state has it.
Uart0 == INSTANCE Console WITH
  TEXTS <- {Expected(timeout) : timeout \in BOOLEAN},
  NOTICE <- [intid \in STRAY |-> Notice(intid)],
  out <- dev.out,
  text <- Expected(TimedOut),
  said <- TextSaid(Prints(TimedOut), Program),
  rest <- NoticeRest(Handler, x[19]),
  due <- NoticesDue(Handler)

\* To the console the run is a program with one of these texts and a notice
\* for each interrupt nobody expects, for any number of them: no exit, kick,
\* pended IRQ or timer interrupt, at whatever instruction it comes, loses,
\* repeats or alters a byte, and a notice is never torn (uart.c,
\* hvf_main.c:287-345, gic_v3.c:216-234, vectors.S's SAVE_CTX and RESTORE_CTX).
ConsoleSpec == Uart0!Spec

============================================================================
