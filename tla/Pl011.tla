------------------------------- MODULE Pl011 -------------------------------
(***************************************************************************)
(* The PL011 that host/hvf_main.c emulates: transmit only, the bytes land  *)
(* on the launcher's stdout.  A device is a record: reg, the registers     *)
(* that only hold what was written; ris, the raw interrupt bits that are   *)
(* set; out, the bytes written to stdout.                                  *)
(***************************************************************************)
EXTENDS Integers, Sequences

CONSTANT BYTE          \* how many values a byte has: 256 in the machine

ASSUME ByteAssumption == BYTE \in Nat \ {0}

PL011_BASE == \h09000000
PL011_SIZE == \h1000

UARTDR == \h00
UARTFR == \h18
UARTIBRD == \h24
UARTFBRD == \h28
UARTLCR_H == \h2C
UARTCR == \h30
UARTIMSC == \h38
UARTRIS == \h3C
UARTMIS == \h40
UARTICR == \h44

\* The registers that read back what was last written.
STORED == {UARTCR, UARTLCR_H, UARTIBRD, UARTFBRD, UARTIMSC}

pl011 == [reg |-> [r \in STORED |-> IF r = UARTCR THEN \h300 ELSE 0], ris |-> {}, out |-> <<>>]

\* The eleven interrupt bits of a register value, and back.
BitsOf(v) == {b \in 0..10 : (v \div 2^b) % 2 = 1}
ValueOf(bits) == CHOOSE v \in 0..2^11 - 1 : BitsOf(v) = bits

pl011_read(dev, off) ==
  CASE off \in STORED -> dev.reg[off]
    [] off = UARTRIS -> ValueOf(dev.ris)
    [] off = UARTMIS -> ValueOf(dev.ris \cap BitsOf(dev.reg[UARTIMSC]))
    [] OTHER -> 0

pl011_write(dev, off, val) ==
  CASE off = UARTDR -> [dev EXCEPT !.out = Append(@, val % BYTE)]
    [] off \in STORED -> [dev EXCEPT !.reg[off] = val]
    [] off = UARTICR -> [dev EXCEPT !.ris = @ \ BitsOf(val)]
    [] OTHER -> dev

in_pl011_range(ipa) == ipa >= PL011_BASE /\ ipa < PL011_BASE + PL011_SIZE

\* What is left of a register value after the mask for the access size
\* (0 = byte, 1 = halfword, 2 and 3 = the 32 bits of a device register).
Masked(v, size) ==
  CASE size = 0 -> v % BYTE
    [] size = 1 -> v % (BYTE * BYTE)
    [] OTHER -> v % (BYTE * BYTE * BYTE * BYTE)

=============================================================================
