---------------------------- MODULE LauncherView ----------------------------
(***************************************************************************)
(* What the guest sees of the launcher: the machine of NativeMachine.      *)
(***************************************************************************)
EXTENDS HvfLauncher

\* The guest sees a machine with a PL011 on its bus: whatever exits, kicks and
\* timer events come in between, an access that aborts is performed whole and
\* once, in program order, with the registers, write-back and PC the
\* architecture asks for, and the program gets on (handle_data_abort and the
\* loop, hvf_main.c:287-345 and 495-555).
Native == INSTANCE NativeMachine WITH
  power <- IF host \in {"start", "load"} THEN "off" ELSE IF host \in {"stopped", "undefined"} THEN "lost" ELSE "on"
NativeSpec == Native!FairSpec

\* The launcher gives up on a running guest only when it has to: HVF failed a
\* call or gave a reason the launcher does not know, or the instruction at the
\* guest's PC is not one it supports (hvf_main.c:516-553).
StopsOnlyWhenStuck ==
  host = "stopped" /\ exit_info.reason # "none" =>
    exit_info.reason \in {"unknown", "failed"} \/ ~Native!Supported

=============================================================================
