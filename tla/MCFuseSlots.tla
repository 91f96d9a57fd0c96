----------------------------- MODULE MCFuseSlots -----------------------------
(* Instances of FuseSlots for TLC.                                           *)
EXTENDS FuseSlots

CONSTANTS c1, c2, s1, s2
=============================================================================
