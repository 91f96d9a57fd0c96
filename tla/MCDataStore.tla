---------------------------- MODULE MCDataStore ----------------------------
(* Instances of DataStore for TLC: two versions that share a print.          *)
EXTENDS DataStore, TLC

CONSTANTS p1, p2, v1, v2

MCPrints == {p1, p2}
MCVersion == {v1, v2}
MCEcl == (v1 :> {p1}) @@ (v2 :> {p1, p2})
=============================================================================
