----------------------------- MODULE MCMainLoop -----------------------------
(***************************************************************************)
(* MainLoop with two repeating tasks, one in each queue, and one event.    *)
(***************************************************************************)
EXTENDS MainLoop

CONSTANTS autosave, clock, splash

MCNames == {autosave, clock, splash}
MCSimTime == {autosave, splash}
MCRepeating == {autosave, clock}
MCInterval == [n \in MCNames |-> IF n = autosave THEN 2 ELSE 0]
MCDelay == [n \in MCNames |-> IF n = splash THEN 1 ELSE 0]
=============================================================================
