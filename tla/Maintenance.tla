------------------------------ MODULE Maintenance ------------------------------
(***************************************************************************)
(* When the purges of Ods run (ods/MaintenanceMaster.java with the pause   *)
(* of util/JobControl.java).  Jobs register an interest in a site, which   *)
(* ends when the job is garbage; every 10 s a monitor pauses the           *)
(* maintenance of sites without interest, and for the others ends the      *)
(* pause and starts a thread with runMaint, which finds out itself         *)
(* whether there is anything to do.  force waits for a run, through one    *)
(* field for all sites and callers.                                        *)
(* Steps that no other thread can tell apart are one.                      *)
(***************************************************************************)
EXTENDS Integers, FiniteSets

CONSTANTS
    Site,       \* numbers of the data stores that are not read-only
    Job,        \* jobs that are interested in a site
    Uses,       \* per job and caller: the sites it works on
    Caller,     \* threads that force maintenance, once each
    Run,        \* bound: runs of runMaint at a time, with their site; the pool has no limit
    MaxTx,      \* bound, per site: its transactions
    Freq,       \* getReconFreq
    vile,       \* isForceMaintenance
    Me,         \* the MaintenanceMaster, as an interest of force
    None        \* no site; -1 of globalForceOnce

ASSUME MaintenanceAssumption ==
    /\ Site \subseteq Nat
    /\ Run \subseteq Site \X Nat
    /\ Uses \in [Job \cup Caller -> SUBSET Site]
    /\ MaxTx \in [Site -> Nat] /\ Freq \in Nat \ {0}
    /\ vile \in BOOLEAN
    /\ Me \notin Job
    /\ None \notin Site

VARIABLES
    maints,            \* sites that have a tracker
    refCount,          \* per site: its interests
    paused,            \* per site: of its JobControl
    isRunning,         \* per site: of its tracker
    largestTx,         \* per site: the transactions when maintenance last ended
    currentLargestTx,  \* per site: of Ods
    maintRunning,      \* per site: of Ods
    globalForceOnce,   \* the site forced
    run,               \* per site and turn: where its runMaint is
    force              \* per caller: its force

tracker == <<maints, refCount, paused, isRunning, largestTx>>
ods == <<currentLargestTx, maintRunning>>
vars == <<tracker, ods, globalForceOnce, run, force>>

Steps == {"free", "check", "reset", "control", "purge", "last", "finally", "wipe"}

TypeOK ==
    /\ maints \subseteq Site
    /\ refCount \in [Site -> SUBSET (Job \cup {Me})]
    /\ \A s \in Site : largestTx[s] \in -1..currentLargestTx[s]
    /\ paused \in [Site -> BOOLEAN]
    /\ isRunning \in [Site -> BOOLEAN]
    /\ largestTx \in [Site -> Int]
    /\ currentLargestTx \in [Site -> Nat]
    /\ maintRunning \in [Site -> BOOLEAN]
    /\ globalForceOnce \in Site \cup {None}
    /\ run \in [Run -> Steps]
    /\ force \in [Caller -> [pc : {"call", "set", "wait", "back"}, site : Site \cup {None}]]
    /\ \A c \in Caller : force[c].pc \in {"set", "wait"} => force[c].site \in Site
-----------------------------------------------------------------------------
(* A job begins, or goes on, with an interest in a site; a new tracker is   *)
(* paused.                                                                  *)
NewInterest(interest, s) ==
    /\ maints' = maints \cup {s}
    /\ refCount' = [refCount EXCEPT ![s] = @ \cup {interest}]
    /\ paused' = [paused EXCEPT ![s] = IF s \in maints THEN @ ELSE TRUE]
    /\ UNCHANGED <<isRunning, largestTx>>

register(j, s) ==
    /\ j \notin refCount[s]
    /\ NewInterest(j, s)
    /\ UNCHANGED <<ods, globalForceOnce, run, force>>

(* The job is garbage, and a WeakHashMap forgets it.                        *)
JobGone(j) ==
    /\ \E s \in Site : j \in refCount[s]
    /\ refCount' = [s \in Site |-> refCount[s] \ {j}]
    /\ UNCHANGED <<maints, paused, isRunning, largestTx, ods, globalForceOnce, run, force>>

(* A vault or a delete has begun a transaction.                             *)
NewTx(s) ==
    /\ currentLargestTx[s] < MaxTx[s]
    /\ currentLargestTx' = [currentLargestTx EXCEPT ![s] = @ + 1]
    /\ UNCHANGED <<tracker, maintRunning, globalForceOnce, run, force>>
-----------------------------------------------------------------------------
(* force registers the MaintenanceMaster itself, an interest that never     *)
(* ends, writes the one field for all callers, and waits until that is -1.  *)
force_register(c, s) ==
    /\ force[c].pc = "call"
    /\ NewInterest(Me, s)
    /\ force' = [force EXCEPT ![c] = [pc |-> "set", site |-> s]]
    /\ UNCHANGED <<ods, globalForceOnce, run>>

force_set(c) ==
    /\ force[c].pc = "set"
    /\ globalForceOnce' = force[c].site
    /\ force' = [force EXCEPT ![c].pc = "wait"]
    /\ UNCHANGED <<tracker, ods, run>>

force_return(c) ==
    /\ force[c].pc = "wait"
    /\ globalForceOnce = None
    /\ force' = [force EXCEPT ![c] = [pc |-> "back", site |-> None]]
    /\ UNCHANGED <<tracker, ods, globalForceOnce, run>>
-----------------------------------------------------------------------------
(* The monitor's turn of one tracker.  It counts trackers, and takes the    *)
(* count for the number of the site.                                        *)
Index(s) == Cardinality({m \in maints : m < s})

ShouldToggleOn(s) ==
    \/ refCount[s] # {}
    \/ vile /\ Index(s) = 0
    \/ globalForceOnce = Index(s)

SiteOf(t) == t[1]

Idle(s) == {t \in Run : SiteOf(t) = s /\ run[t] = "free"}

execute(s) ==
    IF Idle(s) = {} THEN UNCHANGED run
    ELSE \E t \in Idle(s) : run' = [run EXCEPT ![t] = "check"]

(* faulty: a run is started only when a pause ends.                         *)
monitorOnToggle(s) ==
    /\ s \in maints
    /\ IF ShouldToggleOn(s)
       THEN paused[s] /\ execute(s) /\ paused' = [paused EXCEPT ![s] = FALSE]
       ELSE paused' = [paused EXCEPT ![s] = TRUE] /\ UNCHANGED run
    /\ UNCHANGED <<maints, refCount, isRunning, largestTx, ods, globalForceOnce, force>>

monitor(s) ==
    /\ s \in maints
    /\ IF ShouldToggleOn(s)
       THEN execute(s) /\ paused' = [paused EXCEPT ![s] = FALSE]
       ELSE paused' = [paused EXCEPT ![s] = TRUE] /\ UNCHANGED run
    /\ UNCHANGED <<maints, refCount, isRunning, largestTx, ods, globalForceOnce, force>>
-----------------------------------------------------------------------------
(* runMaint.                                                                *)
At(t, pc) == run[t] = pc

Goto(t, pc) == run' = [run EXCEPT ![t] = pc]

Done(t) == Goto(t, "free")

NeedsMaint(s) ==
    \/ globalForceOnce = s
    \/ currentLargestTx[s] - largestTx[s] >= Freq

(* Under the tracker's lock: whether to run.  isRunning is set later.  (A   *)
(* read-only store never is; a force of one would wait for ever.)           *)
Check(t) ==
    LET s == SiteOf(t)
    IN  /\ At(t, "check")
        /\ IF ~isRunning[s] /\ NeedsMaint(s)
           THEN Goto(t, "reset") ELSE Done(t)
        /\ UNCHANGED <<tracker, ods, globalForceOnce, force>>

(* The tracker is paused again, for the monitor to start it, and marked.   *)
reset(t) ==
    /\ At(t, "reset")
    /\ paused' = [paused EXCEPT ![SiteOf(t)] = TRUE]
    /\ isRunning' = [isRunning EXCEPT ![SiteOf(t)] = TRUE]
    /\ Goto(t, "control")
    /\ UNCHANGED <<maints, refCount, largestTx, ods, globalForceOnce, force>>

(* faulty: the test is inside the try, whose finally resets the flag.       *)
maintPurgeInTry(t) ==
    LET s == SiteOf(t)
    IN  /\ At(t, "control")
        /\ ~paused[s]
        /\ \/ Goto(t, "finally") /\ maintRunning' = [maintRunning EXCEPT ![s] = FALSE]
           \/ /\ ~maintRunning[s]
              /\ maintRunning' = [maintRunning EXCEPT ![s] = TRUE]
              /\ Goto(t, "purge")
        /\ UNCHANGED <<tracker, currentLargestTx, globalForceOnce, force>>

(* JobControl.control, and maintPurge, which tests for itself, in the       *)
(* monitor of Ods, that no other purge runs; a store that is not in sync    *)
(* purges nothing, and the second control is passed at once.                *)
maintPurge(t) ==
    LET s == SiteOf(t)
    IN  /\ At(t, "control")
        /\ ~paused[s]
        /\ \/ Goto(t, "finally") /\ UNCHANGED maintRunning
           \/ /\ ~maintRunning[s]
              /\ maintRunning' = [maintRunning EXCEPT ![s] = TRUE]
              /\ Goto(t, "purge")
        /\ UNCHANGED <<tracker, currentLargestTx, globalForceOnce, force>>

(* faulty: what follows the purge is in no finally.                         *)
PurgeThrows(t) ==
    /\ At(t, "purge")
    /\ maintRunning' = [maintRunning EXCEPT ![SiteOf(t)] = FALSE]
    /\ Goto(t, IF paused[SiteOf(t)] THEN "last" ELSE "finally") \/ Goto(t, "free")
    /\ UNCHANGED <<tracker, currentLargestTx, globalForceOnce, force>>

(* The purge is over, in a finally.  While it has blocks to delete it obeys *)
(* the pause; without, it may end in a pause and waits after it.            *)
PurgeEnds(t) ==
    LET s == SiteOf(t)
    IN  /\ At(t, "purge")
        /\ maintRunning' = [maintRunning EXCEPT ![s] = FALSE]
        /\ Goto(t, IF paused[s] THEN "last" ELSE "finally")
        /\ UNCHANGED <<tracker, currentLargestTx, globalForceOnce, force>>

(* The second control, which a purge that throws does not come to.          *)
control(t) ==
    /\ At(t, "last")
    /\ ~paused[SiteOf(t)]
    /\ Goto(t, "finally")
    /\ UNCHANGED <<tracker, ods, globalForceOnce, force>>

(* Its finally, with the test of the field; the write is a later step,      *)
(* under the lock.                                                          *)
Finally(t) ==
    LET s == SiteOf(t)
    IN  /\ At(t, "finally")
        /\ largestTx' = [largestTx EXCEPT ![s] = currentLargestTx[s]]
        /\ isRunning' = [isRunning EXCEPT ![s] = FALSE]
        /\ Goto(t, IF globalForceOnce = s THEN "wipe" ELSE "free")
        /\ UNCHANGED <<maints, refCount, paused, ods, globalForceOnce, force>>

Wipe(t) ==
    /\ At(t, "wipe")
    /\ globalForceOnce' = None
    /\ Done(t)
    /\ UNCHANGED <<tracker, ods, force>>

runMaint(t) ==
    \/ Check(t) \/ reset(t)
    \/ maintPurge(t) \/ PurgeEnds(t) \/ control(t)
    \/ Finally(t) \/ Wipe(t)
-----------------------------------------------------------------------------
Init ==
    /\ maints = {}
    /\ refCount = [s \in Site |-> {}]
    /\ paused = [s \in Site |-> TRUE]
    /\ isRunning = [s \in Site |-> FALSE]
    /\ largestTx = [s \in Site |-> -1]
    /\ currentLargestTx = [s \in Site |-> 0]
    /\ maintRunning = [s \in Site |-> FALSE]
    /\ globalForceOnce = None
    /\ run = [t \in Run |-> "free"]
    /\ force = [c \in Caller |-> [pc |-> "call", site |-> None]]

Next ==
    \/ \E j \in Job : \E s \in Uses[j] : register(j, s)
    \/ \E j \in Job : JobGone(j)
    \/ \E s \in Site : NewTx(s) \/ monitor(s)
    \/ \E c \in Caller : \E s \in Uses[c] : force_register(c, s)
    \/ \E c \in Caller : force_set(c) \/ force_return(c)
    \/ \E t \in Run : runMaint(t)

Spec == Init /\ [][Next]_vars

(* A purge that obeys the pause need not end in it.                         *)
Goes(t) == ~(At(t, "purge") /\ paused[SiteOf(t)])

Fairness ==
    /\ \A s \in Site : WF_vars(monitor(s))
    /\ \A t \in Run : WF_vars(Goes(t) /\ runMaint(t))
    /\ \A c \in Caller : WF_vars(force_set(c) \/ force_return(c))

FairSpec == Spec /\ Fairness
-----------------------------------------------------------------------------
(* At most one purge of a site goes on, and maintRunning is set exactly     *)
(* while it does, although two runs may pass the test of isRunning: the     *)
(* second one's purge would delete blocks the first is about to forget.     *)
OnePurge ==
    /\ \A t, u \in Run : At(t, "purge") /\ At(u, "purge") /\ SiteOf(t) = SiteOf(u) => t = u
    /\ \A s \in Site : maintRunning[s] <=> \E t \in Run : SiteOf(t) = s /\ At(t, "purge")

(* Every force returns, whoever else forces which site meanwhile.           *)
ForceReturns == \A c \in Caller : force[c].pc # "call" ~> force[c].pc = "back"

(* The transactions of a site in which somebody stays interested are        *)
(* maintained.                                                              *)
NeedIsMet ==
    \A s \in Site :
        currentLargestTx[s] - largestTx[s] >= Freq /\ refCount[s] # {}
        ~> currentLargestTx[s] - largestTx[s] < Freq \/ refCount[s] = {}
=============================================================================
