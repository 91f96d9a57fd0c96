---------------------------- MODULE VersionStore ----------------------------
(* What a data store promises to its clients, whatever its engine does: a    *)
(* version that can be restored stays so until a client deletes it, and a    *)
(* version becomes restorable only by the commit of a vault that sent it.    *)
(* DataStore implements this specification (see Promise there).              *)

CONSTANT Version    \* VM versions

VARIABLES stored,   \* versions that can be restored from the share alone
          sending,  \* versions whose vault is open
          deleting  \* versions a running delete is about

vvars == <<stored, sending, deleting>>

Init == stored = {} /\ sending = {} /\ deleting = {}

Begin(v) == sending' = sending \cup {v} /\ UNCHANGED <<stored, deleting>>

Commit(v) == /\ v \in sending /\ v \notin stored
             /\ stored' = stored \cup {v}
             /\ UNCHANGED <<sending, deleting>>

(* The vault is closed, committed or not.                                    *)
End(v) == sending' = sending \ {v} /\ UNCHANGED <<stored, deleting>>

AskDelete(v) == deleting' = {v} /\ UNCHANGED <<stored, sending>>

Delete(v) == /\ v \in deleting /\ v \in stored
             /\ stored' = stored \ {v}
             /\ UNCHANGED <<sending, deleting>>

EndDelete == deleting' = {} /\ UNCHANGED <<stored, sending>>

(* The engine restarts: it forgets its jobs and keeps what is stored.        *)
Restart == sending' = {} /\ deleting' = {} /\ UNCHANGED stored

Next == \/ \E v \in Version : \/ Begin(v) \/ Commit(v) \/ End(v)
                              \/ AskDelete(v) \/ Delete(v)
        \/ EndDelete \/ Restart

Spec == Init /\ [][Next]_vvars
=============================================================================
