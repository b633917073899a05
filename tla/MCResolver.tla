----------------------------- MODULE MCResolver -----------------------------
(***************************************************************************)
(* Resolver with two threads that look up, of three hosts.                 *)
(***************************************************************************)
EXTENDS Resolver

CONSTANTS main, network

MCCallers == {main, network}
MCThreads == {main, network, Cleaner, Worker}
=============================================================================
