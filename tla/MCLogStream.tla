----------------------------- MODULE MCLogStream -----------------------------
(* LogStream for TLC.                                                      *)
EXTENDS LogStream, TLC

CONSTANTS stderr, file

MCCallbacks == {stderr, file}
=============================================================================
