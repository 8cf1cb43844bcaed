---------------------------- MODULE VirtualCpus ----------------------------
(***************************************************************************)
(* What the interrupt path promises its guests: every vCPU has an          *)
(* interrupt line and a timer of its own, as if it never shared a CPU, and *)
(* the console interrupt is held by at most one vCPU at a time.  There is  *)
(* no scheduler here: which vCPU runs cannot be told from these variables. *)
(***************************************************************************)
EXTENDS Integers

CONSTANTS VCPUS, VTIMER, CONSOLE

VARIABLES
  pending,   \* the interrupts each vCPU has pending
  line,      \* each vCPU's VIRQ line
  timer,     \* each vCPU's timer: "off", "armed" or "due"
  owner      \* the vCPUs (at most one) that hold the console interrupt

vars == <<pending, line, timer, owner>>

Init ==
  /\ pending = [i \in VCPUS |-> {}]
  /\ line = [i \in VCPUS |-> FALSE]
  /\ timer = [i \in VCPUS |-> "off"]
  /\ owner = {}

\* The line of a vCPU follows what is pending for it, and for it alone.
Pend(i, set) ==
  /\ pending' = [pending EXCEPT ![i] = set]
  /\ line' = [line EXCEPT ![i] = set # {}]

SetTimer(i, from, to) ==
  /\ timer[i] \in from
  /\ timer' = [timer EXCEPT ![i] = to]

Program(i) ==
  SetTimer(i, {"off", "armed", "due"}, "armed") /\ UNCHANGED <<pending, line, owner>>

Expire(i) ==
  SetTimer(i, {"armed"}, "due") /\ UNCHANGED <<pending, line, owner>>

Fire(i) ==
  /\ SetTimer(i, {"due"}, "off")
  /\ Pend(i, pending[i] \cup {VTIMER})
  /\ UNCHANGED owner

Console(i) ==
  /\ owner = {} /\ owner' = {i}
  /\ Pend(i, pending[i] \cup {CONSOLE})
  /\ UNCHANGED timer

Acknowledge(i) ==
  /\ \E n \in pending[i] :
       /\ \A m \in pending[i] : n <= m
       /\ Pend(i, pending[i] \ {n})
  /\ UNCHANGED <<timer, owner>>

Complete(i) ==
  /\ owner = {i} /\ owner' = {}
  /\ UNCHANGED <<pending, line, timer>>

\* The bare-metal guest's completion drops everything it has pending.
Discard(i) ==
  /\ Pend(i, {})
  /\ owner' = owner \ {i}
  /\ UNCHANGED timer

Next ==
  \E i \in VCPUS :
    \/ Program(i) \/ Expire(i) \/ Fire(i) \/ Console(i)
    \/ Acknowledge(i) \/ Complete(i) \/ Discard(i)

Spec == Init /\ [][Next]_vars

=============================================================================
