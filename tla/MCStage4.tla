------------------------------ MODULE MCStage4 ------------------------------
(***************************************************************************)
(* Stage 4 from an ELF file with the image as its only segment.            *)
(***************************************************************************)
EXTENDS Stage4Console

Words == Len(Image)
Elfs ==
  {[valid |-> TRUE, entry |-> RAM_BASE,
    ph |-> <<[type |-> "load", paddr |-> RAM_BASE, vaddr |-> RAM_BASE, data |-> Image, memsz |-> Words]>>]}

=============================================================================
