------------------------------ MODULE MCConsole ------------------------------
(* Instances of Console for TLC.                                             *)
EXTENDS Console

CONSTANTS j1, j2, a1, a2
=============================================================================
