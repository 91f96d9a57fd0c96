---------------------------- MODULE MCMaintenance ----------------------------
(* Instances of Maintenance for TLC.                                         *)
EXTENDS Maintenance

CONSTANTS j1, c1, c2

MCMaxTx == [s \in Site |-> IF s = 0 THEN 1 ELSE 0]

MCUses == [x \in Job \cup Caller |-> IF x = c2 THEN {1} ELSE {0}]

MCRun == {<<0, 1>>, <<0, 2>>, <<1, 1>>}
=============================================================================
