------------------------------ MODULE ExitRing ------------------------------
(***************************************************************************)
(* The post-mortem buffer of src/exceptions.c: exit_ring_push on every VM  *)
(* exit, dump_exit_ring on the fatal path.  exit_history is what the ring  *)
(* stands for, every record ever pushed; the code does not have it.        *)
(***************************************************************************)
EXTENDS Integers, Sequences

CONSTANTS
  EXIT_RING_SIZE,   \* 32 in the code
  RECORDS,          \* what an exit_record_t can hold
  ZEROED            \* a slot of .bss that was never written

VARIABLES exit_ring, exit_ring_head, exit_ring_count, exit_history

ASSUME RingAssumption ==
  /\ EXIT_RING_SIZE \in Nat \ {0}
  /\ \E k \in 0 .. 31 : EXIT_RING_SIZE = 2 ^ k    \* the index mask is a modulus
  /\ ZEROED \notin RECORDS

ringVars == <<exit_ring, exit_ring_head, exit_ring_count, exit_history>>

SLOTS == 0 .. EXIT_RING_SIZE - 1

RingInit ==
  /\ exit_ring = [s \in SLOTS |-> ZEROED]
  /\ exit_ring_head = 0
  /\ exit_ring_count = 0
  /\ exit_history = <<>>

\* Mutant: the head moves on before the record is written.
exit_ring_pushLate(r) ==
  /\ exit_ring_head' = (exit_ring_head + 1) % EXIT_RING_SIZE
  /\ exit_ring' = [exit_ring EXCEPT ![exit_ring_head'] = r]
  /\ exit_ring_count' = exit_ring_count + 1
  /\ exit_history' = Append(exit_history, r)

\* exit_ring_count is 64 bits wide and does not wrap.
exit_ring_push(r) ==
  /\ exit_ring' = [exit_ring EXCEPT ![exit_ring_head] = r]
  /\ exit_ring_head' = (exit_ring_head + 1) % EXIT_RING_SIZE
  /\ exit_ring_count' = exit_ring_count + 1
  /\ exit_history' = Append(exit_history, r)

\* The number of records dump_exit_ring prints.
depth == IF exit_ring_count < EXIT_RING_SIZE THEN exit_ring_count ELSE EXIT_RING_SIZE

\* Mutant: the dump starts at the next slot to write.
idxNext(i) == (exit_ring_head + EXIT_RING_SIZE - i + 1) % EXIT_RING_SIZE

\* The slot of line i: idx starts at the head and steps back once per line.
idx(i) == (exit_ring_head + EXIT_RING_SIZE - i) % EXIT_RING_SIZE

dump_exit_ring == [i \in 1 .. depth |-> exit_ring[idx(i)]]

-----------------------------------------------------------------------------
\* "dump_and_halt() prints the last EXIT_RING_SIZE entries", newest first: line
\* i of the dump is the i-th exit back, also when the ring has wrapped, and no
\* line shows a slot that was never written.
DumpIsHistory ==
  /\ exit_ring_count = Len(exit_history)
  /\ dump_exit_ring =
       [i \in 1 .. depth |-> exit_history[Len(exit_history) + 1 - i]]

=============================================================================
