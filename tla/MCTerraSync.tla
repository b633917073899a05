----------------------------- MODULE MCTerraSync -----------------------------
(* TerraSync for TLC: the directories the runs ask for.                   *)
EXTENDS TerraSync

CONSTANTS t1, o1

MCNone == {}
MCOneTile == {t1}
MCOneOsm == {o1}
=============================================================================
