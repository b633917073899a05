-------------------------- MODULE MCSGSubsystemMgr --------------------------
(* Two groups; the first may hold a plain subsystem and a group with one of its own. *)
EXTENDS SGSubsystemMgr

CONSTANTS nasal, instruments, nav, sound

MCSubs == {nasal, instruments, nav, sound}
MCHome == [s \in MCSubs |-> CASE s = nav -> instruments [] s = sound -> 1
                              [] OTHER -> 0]
=============================================================================
