---------------------------- MODULE MCVcpuSwitch ----------------------------
(***************************************************************************)
(* Two guests, one of them writing a register besides its tables.          *)
(***************************************************************************)
EXTENDS VcpuSwitch

Plain == {"gpr", "el1"}

=============================================================================
