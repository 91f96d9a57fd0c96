-------------------------- MODULE MaintenanceProofs --------------------------
(* Theorems about Maintenance, for any data stores, jobs, callers and number *)
(* of runs at a time.                                                        *)
EXTENDS Maintenance, TLAPS

Inv == TypeOK /\ OnePurge

LEMMA SiteOfRun == ASSUME NEW t \in Run PROVE SiteOf(t) \in Site
  BY MaintenanceAssumption DEF SiteOf

(* A run that goes on keeps its type, and moves no other run.                *)
LEMMA GotoTyped ==
    ASSUME NEW t \in Run, NEW pc \in Steps, run \in [Run -> Steps], Goto(t, pc)
    PROVE  /\ run' \in [Run -> Steps]
           /\ run'[t] = pc
           /\ \A u \in Run \ {t} : run'[u] = run[u]
  BY DEF Goto

LEMMA InterestTyped ==
    ASSUME TypeOK, NEW interest \in Job \cup {Me}, NEW s \in Site, NewInterest(interest, s)
    PROVE  /\ maints' \subseteq Site
           /\ refCount' \in [Site -> SUBSET (Job \cup {Me})]
           /\ paused' \in [Site -> BOOLEAN]
           /\ isRunning' = isRunning /\ largestTx' = largestTx
  <1>1. refCount[s] \cup {interest} \in SUBSET (Job \cup {Me})
    BY DEF TypeOK
  <1> QED BY <1>1 DEF TypeOK, NewInterest

(* A step by which no run enters or leaves its purge.                        *)
LEMMA NoPurgeMoves ==
    ASSUME OnePurge, UNCHANGED maintRunning,
           \A t \in Run : run'[t] = "purge" <=> run[t] = "purge"
    PROVE  OnePurge'
  BY DEF OnePurge, At, SiteOf

(* A number of one function is taken over from another.                      *)
LEMMA CountUp ==
    ASSUME NEW S, NEW f \in [S -> Int], NEW g \in [S -> Nat], NEW r \in S
    PROVE  [f EXCEPT ![r] = g[r]] \in [S -> Int]
  <1>1. g[r] \in Int OBVIOUS
  <1> QED BY <1>1

LEMMA InitInv == ASSUME Init PROVE Inv
  <1>1. TypeOK BY MaintenanceAssumption DEF Init, TypeOK, Steps
  <1>2. OnePurge BY SiteOfRun DEF Init, OnePurge, At
  <1> QED BY <1>1, <1>2 DEF Inv

LEMMA NextInv == ASSUME Inv, [Next]_vars PROVE Inv'
  <1> USE MaintenanceAssumption
  <1>1. CASE UNCHANGED vars
    BY <1>1 DEF Inv, vars, tracker, ods, TypeOK, OnePurge, At, SiteOf
  <1>2. ASSUME NEW j \in Job, NEW s \in Uses[j], register(j, s) PROVE Inv'
    <2>1. s \in Site /\ j \in Job \cup {Me} BY <1>2
    <2>2. TypeOK' BY <1>2, <2>1, InterestTyped DEF Inv, TypeOK, register, ods
    <2>3. OnePurge' BY <1>2, NoPurgeMoves DEF Inv, register, ods
    <2> QED BY <2>2, <2>3 DEF Inv
  <1>3. ASSUME NEW j \in Job, JobGone(j) PROVE Inv'
    <2>1. TypeOK' BY <1>3 DEF Inv, TypeOK, JobGone, ods
    <2>2. OnePurge' BY <1>3, NoPurgeMoves DEF Inv, JobGone, ods
    <2> QED BY <2>1, <2>2 DEF Inv
  <1>4. ASSUME NEW s \in Site, NewTx(s) PROVE Inv'
    <2>1. TypeOK' BY <1>4 DEF Inv, TypeOK, NewTx, tracker
    <2>2. OnePurge' BY <1>4, NoPurgeMoves DEF Inv, NewTx
    <2> QED BY <2>1, <2>2 DEF Inv
  <1>5. ASSUME NEW s \in Site, monitor(s) PROVE Inv'
    <2>1. paused' \in [Site -> BOOLEAN]
      BY <1>5 DEF Inv, TypeOK, monitor
    <2>2. /\ run' \in [Run -> Steps]
          /\ \A t \in Run : run'[t] = "purge" <=> run[t] = "purge"
      BY <1>5 DEF Inv, TypeOK, monitor, execute, Idle, Steps
    <2>3. TypeOK' BY <1>5, <2>1, <2>2 DEF Inv, TypeOK, monitor, ods
    <2>4. OnePurge' BY <1>5, <2>2, NoPurgeMoves DEF Inv, monitor, ods
    <2> QED BY <2>3, <2>4 DEF Inv
  <1>6. ASSUME NEW c \in Caller, NEW s \in Uses[c], force_register(c, s) PROVE Inv'
    <2>1. s \in Site /\ Me \in Job \cup {Me} BY <1>6
    <2>2. TypeOK' BY <1>6, <2>1, InterestTyped DEF Inv, TypeOK, force_register, ods
    <2>3. OnePurge' BY <1>6, NoPurgeMoves DEF Inv, force_register, ods
    <2> QED BY <2>2, <2>3 DEF Inv
  <1>7. ASSUME NEW c \in Caller, force_set(c) \/ force_return(c) PROVE Inv'
    <2> DEFINE Places == [pc : {"call", "set", "wait", "back"}, site : Site \cup {None}]
    <2>1. force \in [Caller -> Places] BY DEF Inv, TypeOK
    <2>2. ASSUME force_set(c) PROVE TypeOK'
      <3>1. force[c].site \in Site BY <2>2 DEF Inv, TypeOK, force_set
      <3>2. [force[c] EXCEPT !.pc = "wait"] \in Places BY <2>1
      <3>3. force' = [force EXCEPT ![c] = [@ EXCEPT !.pc = "wait"]] BY <2>2 DEF force_set
      <3>4. force' \in [Caller -> Places] BY <2>1, <3>2, <3>3
      <3>5. \A d \in Caller : force'[d].pc \in {"set", "wait"} => force'[d].site \in Site
        BY <2>1, <3>1, <3>3 DEF Inv, TypeOK
      <3> QED BY <2>2, <3>1, <3>4, <3>5 DEF Inv, TypeOK, force_set, tracker, ods
    <2>3. ASSUME force_return(c) PROVE TypeOK'
      BY <2>3 DEF Inv, TypeOK, force_return, tracker, ods
    <2>4. TypeOK' BY <1>7, <2>2, <2>3
    <2>5. OnePurge' BY <1>7, NoPurgeMoves DEF Inv, force_set, force_return, ods
    <2> QED BY <2>4, <2>5 DEF Inv
  <1>8. ASSUME NEW t \in Run, runMaint(t) PROVE Inv'
    <2> DEFINE s == SiteOf(t)
    <2>0. s \in Site /\ run \in [Run -> Steps] BY SiteOfRun DEF Inv, TypeOK
    <2>1. CASE Check(t)
      <3>1. \E pc \in {"reset", "free"} : Goto(t, pc) BY <2>1 DEF Check, Done
      <3>2. /\ run' \in [Run -> Steps]
            /\ \A u \in Run : run'[u] = "purge" <=> run[u] = "purge"
        BY <2>0, <2>1, <3>1 DEF Goto, Check, At, Steps
      <3>3. TypeOK' BY <2>1, <3>2 DEF Inv, TypeOK, Check, tracker, ods
      <3>4. OnePurge' BY <2>1, <3>2, NoPurgeMoves DEF Inv, Check, ods
      <3> QED BY <3>3, <3>4 DEF Inv
    <2>2. CASE reset(t)
      <3>1. /\ run' \in [Run -> Steps]
            /\ \A u \in Run : run'[u] = "purge" <=> run[u] = "purge"
        BY <2>0, <2>2 DEF Goto, reset, At, Steps
      <3>2. TypeOK' BY <2>0, <2>2, <3>1 DEF Inv, TypeOK, reset, ods
      <3>3. OnePurge' BY <2>2, <3>1, NoPurgeMoves DEF Inv, reset, ods
      <3> QED BY <3>2, <3>3 DEF Inv
    <2>3. CASE maintPurge(t)
      <3>1. CASE Goto(t, "finally") /\ UNCHANGED maintRunning
        <4>1. /\ run' \in [Run -> Steps]
              /\ \A u \in Run : run'[u] = "purge" <=> run[u] = "purge"
          BY <2>0, <2>3, <3>1 DEF Goto, maintPurge, At, Steps
        <4>2. TypeOK' BY <2>3, <3>1, <4>1 DEF Inv, TypeOK, maintPurge, tracker
        <4>3. OnePurge' BY <3>1, <4>1, NoPurgeMoves DEF Inv
        <4> QED BY <4>2, <4>3 DEF Inv
      <3>2. CASE /\ ~maintRunning[s]
                 /\ maintRunning' = [maintRunning EXCEPT ![s] = TRUE]
                 /\ Goto(t, "purge")
        <4>1. /\ run' \in [Run -> Steps]
              /\ run'[t] = "purge"
              /\ \A u \in Run \ {t} : run'[u] = run[u]
          BY <2>0, <3>2, GotoTyped DEF Steps
        <4>2. maintRunning \in [Site -> BOOLEAN] /\ maintRunning' \in [Site -> BOOLEAN]
          BY <3>2 DEF Inv, TypeOK
        <4>3. TypeOK' BY <2>3, <4>1, <4>2 DEF Inv, TypeOK, maintPurge, tracker
        <4>4. \A u \in Run : SiteOf(u) = s => run[u] # "purge"
          BY <2>0, <3>2 DEF Inv, OnePurge, At
        <4>5. /\ maintRunning'[s]
              /\ \A r \in Site \ {s} : maintRunning'[r] = maintRunning[r]
          BY <2>0, <3>2, <4>2
        <4>6. OnePurge' BY <2>0, <4>1, <4>4, <4>5 DEF Inv, OnePurge, At, SiteOf
        <4> QED BY <4>3, <4>6 DEF Inv
      <3> QED BY <2>3, <3>1, <3>2 DEF maintPurge
    <2>4. CASE PurgeEnds(t)
      <3>1. \E pc \in {"last", "finally"} : Goto(t, pc) BY <2>4 DEF PurgeEnds
      <3>2. /\ run' \in [Run -> Steps]
            /\ run'[t] # "purge"
            /\ \A u \in Run \ {t} : run'[u] = run[u]
        BY <2>0, <3>1, GotoTyped DEF Steps
      <3>3. maintRunning \in [Site -> BOOLEAN] /\ maintRunning' \in [Site -> BOOLEAN]
        BY <2>4 DEF Inv, TypeOK, PurgeEnds
      <3>4. TypeOK' BY <2>4, <3>2, <3>3 DEF Inv, TypeOK, PurgeEnds, tracker
      <3>5. /\ ~maintRunning'[s]
            /\ \A r \in Site \ {s} : maintRunning'[r] = maintRunning[r]
        BY <2>0, <2>4, <3>3 DEF PurgeEnds
      <3>6. \A u \in Run \ {t} : SiteOf(u) = s => run[u] # "purge"
        BY <2>4 DEF Inv, OnePurge, PurgeEnds, At
      <3>7. OnePurge' BY <2>0, <3>2, <3>5, <3>6 DEF Inv, OnePurge, At, SiteOf
      <3> QED BY <3>4, <3>7 DEF Inv
    <2>5. CASE control(t)
      <3>1. /\ run' \in [Run -> Steps]
            /\ \A u \in Run : run'[u] = "purge" <=> run[u] = "purge"
        BY <2>0, <2>5 DEF Goto, control, At, Steps
      <3>2. TypeOK' BY <2>5, <3>1 DEF Inv, TypeOK, control, tracker, ods
      <3>3. OnePurge' BY <2>5, <3>1, NoPurgeMoves DEF Inv, control, ods
      <3> QED BY <3>2, <3>3 DEF Inv
    <2>6. CASE Finally(t)
      <3>1. \E pc \in {"wipe", "free"} : Goto(t, pc) BY <2>6 DEF Finally
      <3>2. /\ run' \in [Run -> Steps]
            /\ \A u \in Run : run'[u] = "purge" <=> run[u] = "purge"
        BY <2>0, <2>6, <3>1 DEF Goto, Finally, At, Steps
      <3>3. /\ largestTx' = [largestTx EXCEPT ![s] = currentLargestTx[s]]
            /\ largestTx \in [Site -> Int] /\ currentLargestTx \in [Site -> Nat]
            /\ \A r \in Site : largestTx[r] \in -1..currentLargestTx[r]
        BY <2>6 DEF Inv, TypeOK, Finally
      <3>4. largestTx' \in [Site -> Int] BY <2>0, <3>3, CountUp
      <3>5. \A r \in Site : currentLargestTx[r] \in -1..currentLargestTx[r] BY <3>3
      <3>6. \A r \in Site : largestTx'[r] \in -1..currentLargestTx[r]
        BY <2>0, <3>3, <3>5
      <3>7. isRunning' \in [Site -> BOOLEAN] BY <2>6 DEF Inv, TypeOK, Finally
      <3>8. TypeOK' BY <2>6, <3>2, <3>6, <3>7, <3>4 DEF Inv, TypeOK, Finally, ods
      <3>9. OnePurge' BY <2>6, <3>2, NoPurgeMoves DEF Inv, Finally, ods
      <3> QED BY <3>8, <3>9 DEF Inv
    <2>7. CASE Wipe(t)
      <3>1. /\ run' \in [Run -> Steps]
            /\ \A u \in Run : run'[u] = "purge" <=> run[u] = "purge"
        BY <2>0, <2>7 DEF Goto, Wipe, Done, At, Steps
      <3>2. TypeOK' BY <2>7, <3>1 DEF Inv, TypeOK, Wipe, tracker, ods
      <3>3. OnePurge' BY <2>7, <3>1, NoPurgeMoves DEF Inv, Wipe, ods
      <3> QED BY <3>2, <3>3 DEF Inv
    <2> QED BY <1>8, <2>1, <2>2, <2>3, <2>4, <2>5, <2>6, <2>7 DEF runMaint
  <1> QED BY <1>1, <1>2, <1>3, <1>4, <1>5, <1>6, <1>7, <1>8 DEF Next

(* The invariant of every behaviour.                                         *)
THEOREM Invariance == Spec => []Inv
  <1>1. Init => Inv BY InitInv
  <1>2. Inv /\ [Next]_vars => Inv' BY NextInv
  <1> QED BY <1>1, <1>2, PTL DEF Spec

(* Every variable keeps its type; in particular a tracker never counts more  *)
(* transactions as maintained than Ods has begun (MaintTracker.largestTx).   *)
THEOREM TypeCorrect == Spec => []TypeOK
  <1>1. Inv => TypeOK BY DEF Inv
  <1> QED BY <1>1, Invariance, PTL

(* No two purges of a data store go on at once, however many runs of         *)
(* runMaint pass its test (Ods.maintPurge, maintRunning).                    *)
THEOREM PurgeIsAlone == Spec => []OnePurge
  <1>1. Inv => OnePurge BY DEF Inv
  <1> QED BY <1>1, Invariance, PTL
=============================================================================
