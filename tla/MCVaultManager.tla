--------------------------- MODULE MCVaultManager ---------------------------
(* Instances of VaultManager for TLC: every thread has a part of the delta   *)
(* of at most two prints, all mungers write the same file.                   *)
EXTENDS VaultManager

CONSTANTS p1, p2, m1, file

MCPathOf == [m \in Munger |-> file]

(* Everyone has one print, and all the same.                                 *)
OnePrint == [t \in Munger \cup Sender |-> {p1}]

(* The mungers have both prints, a sender one.                               *)
TwoPrints == [t \in Munger \cup Sender |->
                 IF t \in Munger THEN {p1, p2} ELSE {p1}]
=============================================================================
