--------------------------- MODULE MCScheduleEditor ---------------------------
(* Instances of ScheduleEditor for TLC.                                      *)
EXTENDS ScheduleEditor, TLC

CONSTANTS v1, v2, x1, h1, g1, g2, p, t, w, n

Replica   == [kind |-> "replicate", policy |-> 0,
              targets |-> {[Line(v1) EXCEPT !.dest = x1, !.sr = x1]}, hosts |-> {},
              gfs |-> g2, cbt |-> TRUE, now |-> FALSE]
Restore   == [kind |-> "restore", policy |-> 0,
              targets |-> {[Line(v1) EXCEPT !.dest = x1, !.sr = x1, !.ver = v1]},
              hosts |-> {}, gfs |-> None, cbt |-> FALSE, now |-> FALSE]
HostJob   == [kind |-> "backup", policy |-> 1, targets |-> {}, hosts |-> {x1},
              gfs |-> g2, cbt |-> FALSE, now |-> FALSE]

(* One job of each kind, and a number that no job has yet.                   *)
Jobs == (p :> Replica) @@ (t :> Restore) @@ (w :> HostJob) @@ (n :> NoJob)
=============================================================================
