------------------------------ MODULE Console ------------------------------
(***************************************************************************)
(* What a console shall show of a program that may be interrupted: the     *)
(* bytes of one of its texts, each once and in order, and between two of   *)
(* them any number of notices, each whole, none twice.                     *)
(***************************************************************************)
EXTENDS Integers, Sequences

CONSTANTS TEXTS,       \* the texts the program may print
          NOTICE       \* the notice for each event that is worth one

VARIABLES out,         \* the bytes on the console
          text, said,  \* the text, as far as it is settled, and how much of it is out
          rest,        \* what is missing of a notice that has begun
          due          \* the events without a notice so far

vars == <<out, text, said, rest, due>>

Init ==
  /\ out = <<>> /\ rest = <<>>
  /\ text \in TEXTS /\ said = 0
  /\ due \subseteq DOMAIN NOTICE

\* The next byte.  Up to it, texts that agree are the same.
Say ==
  /\ rest = <<>>
  /\ \E t \in TEXTS :
       /\ said < Len(t) /\ \A k \in 1..said : t[k] = text[k]
       /\ text' = t /\ said' = said + 1
       /\ out' = Append(out, t[said + 1])
  /\ UNCHANGED <<rest, due>>

Begin ==
  /\ rest = <<>>
  /\ \E i \in due :
       /\ out' = Append(out, Head(NOTICE[i]))
       /\ rest' = Tail(NOTICE[i])
       /\ due' = due \ {i}
  /\ UNCHANGED <<text, said>>

Continue ==
  /\ rest # <<>>
  /\ out' = Append(out, Head(rest)) /\ rest' = Tail(rest)
  /\ UNCHANGED <<text, said, due>>

Next == Say \/ Begin \/ Continue

Spec == Init /\ [][Next]_vars

=============================================================================
