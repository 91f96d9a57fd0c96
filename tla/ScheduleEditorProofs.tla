------------------------- MODULE ScheduleEditorProofs -------------------------
(* Theorems about ScheduleEditor, for any systems, hosts, profiles, jobs,    *)
(* number of pages and faults.                                               *)
EXTENDS ScheduleEditor, TLAPS

(* TypeOK in three parts, by who writes them.                                *)
FormType ==
    /\ page \in [kind : Kinds \cup {"list", "new", "jobs"}, job : JobId \cup {None},
                 no : 0..MaxOpen]
    /\ systems \in [src : SUBSET (System \cup {None}), tgt : SUBSET Target,
                    disks : [System -> 0..2]]
    /\ hosts \in [src : SUBSET Host, tgt : SUBSET Host]
    /\ tabs \in [active : Tabs, disabled : SUBSET Tabs]
    /\ keyword \in BOOLEAN
    /\ gfs \in [use : BOOLEAN, val : Profile \cup {None}, listed : BOOLEAN, set : BOOLEAN]
    /\ choice \in [vms : SUBSET System, dest : Host \cup {None},
                   sr : XenHost \cup {None}, vers : System \cup {None, Loading, Empty}]
    /\ opts \in [now : BOOLEAN, cbt : BOOLEAN]
    /\ acts \in 0..MaxAct
    /\ haste \in BOOLEAN

FlightType == flight \subseteq ListRequest \cup IdRequest \cup SaveRequest \cup JobsRequest

ServerType ==
    /\ server \in [JobId -> Job \cup {NoJob}]
    /\ ran \subseteq JobId

(* A target on a page fits its destination unless that is a HyperV host,     *)
(* whose hidden list of storages keeps what it had.                          *)
FitsOrHidden(targets) ==
    \A t \in targets : t.dest \notin HyperV => t.sr \in {t.dest, None}

(* The list of storages follows the destination.                             *)
ChoiceFits == choice.dest \in XenHost => choice.sr = choice.dest

FormInv ==
    /\ HostOnce
    /\ TargetOnce
    /\ FitsOrHidden(systems.tgt)
    /\ ChoiceFits

OnceByKind(job) == job.kind \in {"restore", "replicate"} => Once(job.targets)

FlightInv ==
    \A r \in flight : r.call = "save" => FitsOrHidden(r.job.targets) /\ OnceByKind(r.job)

ServerInv ==
    \A i \in JobId : server[i] # NoJob => Fits(server[i].targets) /\ OnceByKind(server[i])

Inv ==
    /\ FormType /\ FlightType /\ ServerType
    /\ FormInv /\ FlightInv /\ ServerInv

LEMMA Parted == TypeOK <=> FormType /\ FlightType /\ ServerType
  BY DEF TypeOK, FormType, FlightType, ServerType

(* Steps that ask and do not save.                                           *)
Asks == flight' \subseteq flight \cup ListRequest \cup IdRequest \cup JobsRequest

LEMMA AskStep == ASSUME Inv, Asks PROVE FlightType' /\ FlightInv'
<1>1. FlightType'
  BY DEF Inv, Asks, FlightType
<1>2. \A r \in ListRequest \cup IdRequest \cup JobsRequest : r.call # "save"
  BY DEF ListRequest, IdRequest, JobsRequest
<1>3. FlightInv'
  BY <1>2 DEF Inv, Asks, FlightInv
<1> QED BY <1>1, <1>3

LEMMA StillServer ==
    ASSUME Inv, UNCHANGED server, ran' \in SUBSET JobId
    PROVE ServerType' /\ ServerInv'
  BY DEF Inv, ServerType, ServerInv

LEMMA Requests ==
    ASSUME Inv, NEW r \in flight
    PROVE /\ r.call = "save" => r \in SaveRequest
          /\ r.call \in {"schedule", "run"} => r.id \in JobId
          /\ r.call = "gfs" => r.arg \in Profile \cup {None}
          /\ r.call = "versions" => r.arg \in System \cup {None}
          /\ r.call = "disks" => r.arg \in System
  BY DEF Inv, FlightType, ListRequest, IdRequest, SaveRequest, JobsRequest

LEMMA AskTyped ==
    /\ \A k \in Kinds : List("sources", k) \in ListRequest
    /\ List("hosts", None) \in ListRequest
    /\ \A g \in Profile \cup {None} : List("gfs", g) \in ListRequest
    /\ \A v \in System \cup {None} : List("versions", v) \in ListRequest
    /\ \A v \in System : List("disks", v) \in ListRequest
  BY DEF List, ListRequest

LEMMA KindsAre == Kinds = {"backup", "restore", "replicate"} /\ First \in Profile
                  /\ None \notin Kinds /\ XenHost \cap HyperV = {}
                  /\ None \notin Host
  BY EditorAssumption DEF Kinds, Host
-----------------------------------------------------------------------------
(* Pages.                                                                    *)
LEMMA NoDisksTyped == NoDisks \in [System -> 0..2]
  BY DEF NoDisks

LEMMA SetupStep ==
    ASSUME Inv, NEW kind \in Kinds \cup {"list", "new", "jobs"},
           NEW job \in JobId \cup {None}, NEW no \in 0..MaxOpen, setupPage(kind, job, no)
    PROVE /\ page' \in [kind : Kinds \cup {"list", "new", "jobs"}, job : JobId \cup {None},
                        no : 0..MaxOpen]
          /\ page'.kind = kind
          /\ acts' \in 0..MaxAct
          /\ haste' \in BOOLEAN
  BY DEF Inv, FormType, setupPage

(* What the three panels have in common: no sources but the placeholder, and *)
(* targets that the appliance stored.                                        *)
LEMMA PanelStep ==
    ASSUME Inv, NEW tgt \in SUBSET Target, NEW src \in SUBSET {None},
           NEW disks \in [System -> 0..2], NEW targetHosts \in SUBSET Host,
           systems' = [src |-> src, tgt |-> tgt, disks |-> disks],
           hosts' = [src |-> {}, tgt |-> targetHosts],
           choice' = [vms |-> {}, dest |-> None, sr |-> None, vers |-> Empty],
           Fits(tgt), page'.kind \in {"restore", "replicate"} => Once(tgt)
    PROVE /\ systems' \in [src : SUBSET (System \cup {None}), tgt : SUBSET Target,
                           disks : [System -> 0..2]]
          /\ hosts' \in [src : SUBSET Host, tgt : SUBSET Host]
          /\ choice' \in [vms : SUBSET System, dest : Host \cup {None},
                          sr : XenHost \cup {None}, vers : System \cup {None, Loading, Empty}]
          /\ FormInv'
<1>1. systems'.tgt = tgt /\ hosts'.src = {} /\ choice'.dest = None
  OBVIOUS
<1>2. HostOnce'
  BY <1>1 DEF HostOnce
<1>3. TargetOnce'
  BY <1>1 DEF TargetOnce
<1>4. FitsOrHidden(systems.tgt)'
  BY <1>1 DEF FitsOrHidden, Fits
<1>5. ChoiceFits'
  BY <1>1, KindsAre DEF ChoiceFits, Host
<1> QED BY <1>2, <1>3, <1>4, <1>5 DEF FormInv

LEMMA RestorePanelStep ==
    ASSUME Inv, NEW kind \in Kinds \cup {"list", "new", "jobs"},
           NEW job \in JobId \cup {None}, NEW no \in 0..MaxOpen, setupPage(kind, job, no),
           NEW tgt \in SUBSET Target, Fits(tgt), Once(tgt), NEW now \in BOOLEAN,
           renderRestorePanel(tgt, now)
    PROVE FormType' /\ FormInv'
<1> USE DEF renderRestorePanel
<1>1. FormInv' /\ systems' \in [src : SUBSET (System \cup {None}), tgt : SUBSET Target,
                                disks : [System -> 0..2]]
               /\ hosts' \in [src : SUBSET Host, tgt : SUBSET Host]
               /\ choice' \in [vms : SUBSET System, dest : Host \cup {None},
                               sr : XenHost \cup {None},
                               vers : System \cup {None, Loading, Empty}]
  BY PanelStep, NoDisksTyped
<1>2. /\ tabs' \in [active : Tabs, disabled : SUBSET Tabs]
      /\ keyword' \in BOOLEAN
      /\ gfs' \in [use : BOOLEAN, val : Profile \cup {None}, listed : BOOLEAN, set : BOOLEAN]
      /\ opts' \in [now : BOOLEAN, cbt : BOOLEAN]
  BY DEF Retention, Tabs
<1> QED BY <1>1, <1>2, SetupStep DEF FormType

LEMMA ReplicatePanelStep ==
    ASSUME Inv, NEW kind \in Kinds, NEW job \in JobId \cup {None}, NEW no \in 0..MaxOpen,
           setupPage(kind, job, no), NEW tgt \in SUBSET Target, Fits(tgt), Once(tgt),
           NEW cbt \in BOOLEAN, renderReplicatePanel(tgt, cbt), NEW use \in BOOLEAN,
           Retention(use)
    PROVE FormType' /\ FormInv'
<1> USE DEF renderReplicatePanel
<1>1. FormInv' /\ systems' \in [src : SUBSET (System \cup {None}), tgt : SUBSET Target,
                                disks : [System -> 0..2]]
               /\ hosts' \in [src : SUBSET Host, tgt : SUBSET Host]
               /\ choice' \in [vms : SUBSET System, dest : Host \cup {None},
                               sr : XenHost \cup {None},
                               vers : System \cup {None, Loading, Empty}]
  BY PanelStep, NoDisksTyped
<1>2. /\ tabs' \in [active : Tabs, disabled : SUBSET Tabs]
      /\ keyword' \in BOOLEAN
      /\ gfs' \in [use : BOOLEAN, val : Profile \cup {None}, listed : BOOLEAN, set : BOOLEAN]
      /\ opts' \in [now : BOOLEAN, cbt : BOOLEAN]
  BY DEF Retention, Tabs
<1> QED BY <1>1, <1>2, SetupStep DEF FormType

LEMMA BackupPanelStep ==
    ASSUME Inv, NEW job \in JobId \cup {None}, NEW no \in 0..MaxOpen,
           setupPage("backup", job, no), NEW tgt \in SUBSET Target, Fits(tgt),
           NEW targetHosts \in SUBSET Host, renderBackupPanel(tgt, targetHosts),
           NEW use \in BOOLEAN, Retention(use),
           tabs' \in [active : Tabs, disabled : SUBSET Tabs], keyword' \in BOOLEAN
    PROVE FormType' /\ FormInv'
<1> USE DEF renderBackupPanel
<1>0. "backup" \in Kinds /\ page'.kind = "backup"
  BY DEF Kinds, setupPage
<1> DEFINE disks == [v \in System |-> IF \E t \in tgt : t.vm = v THEN 1 ELSE 0]
<1>d. disks \in [System -> 0..2] /\ systems' = [src |-> {None}, tgt |-> tgt, disks |-> disks]
  OBVIOUS
<1> HIDE DEF disks
<1>1. FormInv' /\ systems' \in [src : SUBSET (System \cup {None}), tgt : SUBSET Target,
                                disks : [System -> 0..2]]
               /\ hosts' \in [src : SUBSET Host, tgt : SUBSET Host]
               /\ choice' \in [vms : SUBSET System, dest : Host \cup {None},
                               sr : XenHost \cup {None},
                               vers : System \cup {None, Loading, Empty}]
  BY <1>0, <1>d, PanelStep
<1>2. /\ gfs' \in [use : BOOLEAN, val : Profile \cup {None}, listed : BOOLEAN, set : BOOLEAN]
      /\ opts' \in [now : BOOLEAN, cbt : BOOLEAN]
  BY DEF Retention
<1> QED BY <1>0, <1>1, <1>2, SetupStep DEF FormType

LEMMA BlankStep ==
    ASSUME Inv, NEW kind \in {"list", "new", "jobs"}, BlankPage(kind)
    PROVE FormType' /\ FormInv'
<1>1. page.no \in 0..MaxOpen /\ Fits({}) /\ Once({})
  BY DEF Inv, FormType, Fits, Once
<1> QED BY <1>1, RestorePanelStep DEF BlankPage

LEMMA KeptAsks ==
    ASSUME NEW r, NEW rs \in SUBSET ListRequest,
           flight' = Kept \cup rs \/ flight' = Kept \/ flight' = (Kept \ {r}) \cup rs
                     \/ flight' = Kept \ {r}
    PROVE Asks
  BY DEF Asks, Kept
-----------------------------------------------------------------------------
(* Steps that open a page.                                                   *)
LEMMA StoredTyped ==
    ASSUME Inv, NEW i \in JobId, server[i].kind \in Kinds
    PROVE /\ server[i] \in Job
          /\ Fits(server[i].targets)
          /\ server[i].kind \in {"restore", "replicate"} => Once(server[i].targets)
<1>1. server[i] # NoJob
  BY KindsAre DEF NoJob
<1> QED BY <1>1 DEF Inv, ServerType, ServerInv, OnceByKind

LEMMA NewStep ==
    ASSUME Inv, createNewBackup \/ createNewRestore \/ createNewReplicate
    PROVE FormType' /\ FormInv' /\ Asks /\ UNCHANGED <<server, ran>>
<1>1. page.no + 1 \in 0..MaxOpen \/ ~(page.no < MaxOpen)
  BY EditorAssumption DEF Inv, FormType
<1>2. Fits({}) /\ Once({}) /\ "manual" \in Tabs
  BY DEF Fits, Once, Tabs
<1>3. \A k \in Kinds : {List("sources", k)} \in SUBSET ListRequest
                       /\ {List("sources", k), List("gfs", None)} \in SUBSET ListRequest
  BY AskTyped
<1>4. CASE createNewBackup
  <2>1. FormType' /\ FormInv'
    BY <1>1, <1>2, <1>4, BackupPanelStep DEF createNewBackup, NewPage
  <2>2. Asks
    BY <1>3, <1>4, KeptAsks, KindsAre DEF createNewBackup
  <2> QED BY <1>4, <2>1, <2>2 DEF createNewBackup, NewPage
<1>5. CASE createNewRestore
  <2>1. FormType' /\ FormInv'
    BY <1>1, <1>2, <1>5, RestorePanelStep, KindsAre DEF createNewRestore, NewPage
  <2>2. Asks
    BY <1>3, <1>5, KeptAsks, KindsAre DEF createNewRestore
  <2> QED BY <1>5, <2>1, <2>2 DEF createNewRestore, NewPage
<1>6. CASE createNewReplicate
  <2>1. FormType' /\ FormInv'
    BY <1>1, <1>2, <1>6, ReplicatePanelStep, KindsAre DEF createNewReplicate, NewPage
  <2>2. Asks
    BY <1>3, <1>6, KeptAsks, KindsAre DEF createNewReplicate
  <2> QED BY <1>6, <2>1, <2>2 DEF createNewReplicate, NewPage
<1> QED BY <1>4, <1>5, <1>6

(* The job that the appliance answers with has the kind of the stored one,   *)
(* some of its targets and, if it is a backup, its retention.                *)
LEMMA AnsweredJob ==
    ASSUME Inv, NEW i \in JobId, NEW j \in getSchedule(server[i]), j.kind \in Kinds
    PROVE /\ j \in Job /\ j.kind = server[i].kind
          /\ j.targets \subseteq server[i].targets
          /\ j.kind = "backup" => j.gfs = server[i].gfs
          /\ Fits(j.targets)
          /\ j.kind \in {"restore", "replicate"} => Once(j.targets)
<1> DEFINE s == server[i]
<1>1. PICK found \in SUBSET {t \in s.targets : Found(s, t)} :
         j = [s EXCEPT !.targets = found, !.gfs = IF s.kind = "backup" THEN @ ELSE None]
  BY DEF getSchedule
<1>2. s \in Job \cup {NoJob}
  BY DEF Inv, ServerType
<1>3. s # NoJob
  <2>1. NoJob.kind = None /\ None \notin Kinds
    BY KindsAre DEF NoJob
  <2>2. s = NoJob => j.kind = None
    BY <1>1 DEF NoJob
  <2> QED BY <2>1, <2>2
<1>4. s \in Job /\ Fits(s.targets) /\ (s.kind \in {"restore", "replicate"} => Once(s.targets))
  <2>1. s.kind \in Kinds
    BY <1>2, <1>3 DEF Job
  <2> QED BY <2>1, StoredTyped
<1>5. /\ j.kind = s.kind /\ j.targets = found /\ found \subseteq s.targets
      /\ j.gfs = IF s.kind = "backup" THEN s.gfs ELSE None
      /\ j \in Job
  BY <1>1, <1>4 DEF Job
<1>6. Fits(j.targets) /\ (s.kind \in {"restore", "replicate"} => Once(j.targets))
  BY <1>4, <1>5 DEF Fits, Once
<1> QED BY <1>5, <1>6

LEMMA EditStep ==
    ASSUME Inv, NEW r \in flight, AnswerSchedule(r)
    PROVE FormType' /\ FormInv' /\ Asks /\ UNCHANGED <<server, ran>>
<1>0. UNCHANGED <<server, ran>> /\ r.id \in JobId
  BY Requests DEF AnswerSchedule
<1>1. CASE flight' = flight \ {r} /\ UNCHANGED formVars
  BY <1>0, <1>1 DEF formVars, Asks, Inv, FormType, FormInv, HostOnce, TargetOnce, ChoiceFits
<1>2. ASSUME page.no < MaxOpen, NEW j \in getSchedule(server[r.id]),
             setupPage(j.kind, r.id, page.no + 1),
             \/ j.kind = "backup" /\ editBackupSchedule(r, j)
             \/ j.kind = "restore" /\ editRestSchedule(r, j)
             \/ j.kind = "replicate" /\ editRepSchedule(r, j)
      PROVE FormType' /\ FormInv' /\ Asks
  <2>1. page.no + 1 \in 0..MaxOpen /\ j.kind \in Kinds
    BY <1>2, EditorAssumption, KindsAre DEF Inv, FormType
  <2>2. /\ j \in Job /\ Fits(j.targets)
        /\ j.kind \in {"restore", "replicate"} => Once(j.targets)
    BY <1>0, <2>1, AnsweredJob
  <2>3. /\ j.targets \in SUBSET Target /\ j.hosts \in SUBSET Host
        /\ j.gfs \in Profile \cup {None} /\ j.cbt \in BOOLEAN /\ j.now \in BOOLEAN
    BY <2>2 DEF Job
  <2>4. \A k \in Kinds : {List("sources", k), List("gfs", j.gfs)} \in SUBSET ListRequest
    BY <2>3, AskTyped
  <2>5. CASE j.kind = "backup" /\ editBackupSchedule(r, j)
    <3>1. tabs' \in [active : Tabs, disabled : SUBSET Tabs] /\ keyword' \in BOOLEAN
      BY <2>5 DEF editBackupSchedule, Tabs
    <3>2. (j.gfs # None) \in BOOLEAN
      OBVIOUS
    <3>3. FormType' /\ FormInv'
      BY <1>0, <1>2, <2>1, <2>2, <2>3, <2>5, <3>1, <3>2, BackupPanelStep DEF editBackupSchedule
    <3>4. PICK more \in {{List("hosts", None)}, {}} :
             flight' = (Kept \ {r}) \cup {List("sources", "backup"), List("gfs", j.gfs)}
                       \cup more
      BY <2>5 DEF editBackupSchedule
    <3>5. flight' = (Kept \ {r}) \cup ({List("sources", "backup"), List("gfs", j.gfs)}
                                       \cup more)
          /\ {List("sources", "backup"), List("gfs", j.gfs)} \cup more \in SUBSET ListRequest
      BY <2>4, <3>4, AskTyped, KindsAre
    <3>6. Asks
      BY <3>5, KeptAsks
    <3> QED BY <3>3, <3>6
  <2>6. CASE j.kind = "restore" /\ editRestSchedule(r, j)
    <3>1. FormType' /\ FormInv'
      BY <1>0, <1>2, <2>1, <2>2, <2>3, <2>6, RestorePanelStep DEF editRestSchedule
    <3>2. Asks
      BY <2>4, <2>6, KeptAsks, KindsAre DEF editRestSchedule
    <3> QED BY <3>1, <3>2
  <2>7. CASE j.kind = "replicate" /\ editRepSchedule(r, j)
    <3>1. (j.gfs # None /\ j.cbt) \in BOOLEAN
      OBVIOUS
    <3>2. FormType' /\ FormInv'
      BY <1>0, <1>2, <2>1, <2>2, <2>3, <2>7, <3>1, ReplicatePanelStep DEF editRepSchedule
    <3>3. Asks
      BY <2>4, <2>7, KeptAsks, KindsAre DEF editRepSchedule
    <3> QED BY <3>2, <3>3
  <2> QED BY <1>2, <2>5, <2>6, <2>7
<1> QED BY <1>0, <1>1, <1>2 DEF AnswerSchedule

LEMMA OpenStep ==
    ASSUME Inv, Open
    PROVE FormType' /\ FormInv' /\ Asks /\ UNCHANGED <<server, ran>>
<1>1. CASE GoSchedules \/ handleEditSchedule
  BY <1>1, BlankStep, KeptAsks DEF GoSchedules, handleEditSchedule, drawSchedulesTable
<1>2. CASE createNewBackup \/ createNewRestore \/ createNewReplicate
  BY <1>2, NewStep
<1>3. ASSUME NEW i \in JobId, ScheduleEdit(i)
      PROVE FormType' /\ FormInv' /\ Asks /\ UNCHANGED <<server, ran>>
  <2>1. [call |-> "schedule", id |-> i] \in IdRequest
    BY DEF IdRequest
  <2> QED BY <1>3, <2>1 DEF ScheduleEdit, formVars, Asks, Inv, FormType, FormInv, HostOnce,
        TargetOnce, ChoiceFits
<1> QED BY <1>1, <1>2, <1>3 DEF Open
-----------------------------------------------------------------------------
(* What the user does on a page.                                             *)
LEMMA ActStep ==
    ASSUME Inv, NEW kinds, Act(kinds)
    PROVE /\ page' = page /\ page.kind \in kinds
          /\ page' \in [kind : Kinds \cup {"list", "new", "jobs"}, job : JobId \cup {None},
                        no : 0..MaxOpen]
          /\ acts' \in 0..MaxAct
          /\ haste' \in BOOLEAN
          /\ UNCHANGED <<server, ran>>
  BY EditorAssumption DEF Inv, FormType, Act

(* Steps that change neither systems, hosts nor the choice.                  *)
LEMMA OtherFieldStep ==
    ASSUME Inv, NEW kinds, Act(kinds), UNCHANGED <<systems, hosts, choice>>,
           tabs' \in [active : Tabs, disabled : SUBSET Tabs], keyword' \in BOOLEAN,
           gfs' \in [use : BOOLEAN, val : Profile \cup {None}, listed : BOOLEAN, set : BOOLEAN],
           opts' \in [now : BOOLEAN, cbt : BOOLEAN]
    PROVE FormType' /\ FormInv'
  BY ActStep DEF Inv, FormType, FormInv, HostOnce, TargetOnce, ChoiceFits

(* Steps that move a system on a backup's page.                              *)
LEMMA SystemMoveStep ==
    ASSUME Inv, Act({"backup"}), UNCHANGED <<hosts, keyword, gfs, choice, opts>>,
           systems' \in [src : SUBSET (System \cup {None}), tgt : SUBSET Target,
                         disks : [System -> 0..2]],
           FitsOrHidden(systems'.tgt), tabs' \in [active : Tabs, disabled : SUBSET Tabs]
    PROVE FormType' /\ FormInv'
<1>1. page' = page /\ page.kind = "backup"
  BY ActStep
<1>2. TargetOnce'
  BY <1>1 DEF TargetOnce
<1>3. HostOnce' /\ ChoiceFits' /\ FitsOrHidden(systems.tgt)'
  BY DEF Inv, FormInv, HostOnce, ChoiceFits, FitsOrHidden
<1> QED BY <1>2, <1>3, ActStep DEF Inv, FormType, FormInv

(* Steps that change the selection above the targets of a restore or a       *)
(* replication.                                                              *)
LEMMA ChoiceStep ==
    ASSUME Inv, NEW kinds, Act(kinds), UNCHANGED <<systems, hosts, tabs, keyword, gfs, opts>>,
           choice' \in [vms : SUBSET System, dest : Host \cup {None},
                        sr : XenHost \cup {None}, vers : System \cup {None, Loading, Empty}],
           ChoiceFits'
    PROVE FormType' /\ FormInv'
  BY ActStep DEF Inv, FormType, FormInv, HostOnce, TargetOnce

(* Steps that change the targets of a restore or a replication.              *)
LEMMA TargetStep ==
    ASSUME Inv, NEW kinds, Act(kinds), UNCHANGED <<hosts, tabs, keyword, gfs, opts>>,
           systems' \in [src : SUBSET (System \cup {None}), tgt : SUBSET Target,
                         disks : [System -> 0..2]],
           Once(systems'.tgt), FitsOrHidden(systems'.tgt),
           choice' \in [vms : SUBSET System, dest : Host \cup {None},
                        sr : XenHost \cup {None}, vers : System \cup {None, Loading, Empty}],
           choice'.dest = None \/ choice' = choice
    PROVE FormType' /\ FormInv'
<1>1. ChoiceFits'
  BY KindsAre DEF Inv, FormInv, ChoiceFits, Host
<1>2. TargetOnce' /\ HostOnce' /\ FitsOrHidden(systems.tgt)'
  BY DEF Inv, FormInv, TargetOnce, HostOnce, FitsOrHidden
<1> QED BY <1>1, <1>2, ActStep DEF Inv, FormType, FormInv

LEMMA NewTargetsFit ==
    ASSUME Inv, page.kind \in {"restore", "replicate"}, choice.dest # None,
           NEW vms \in SUBSET System, NEW ver \in System \cup {None},
           NEW tgt, tgt = systems.tgt \cup NewTargets(vms, ver)
    PROVE tgt \in SUBSET Target /\ Once(tgt) /\ FitsOrHidden(tgt)
<1>1. /\ choice.dest \in Host /\ choice.sr \in XenHost \cup {None}
      /\ choice.dest \in XenHost => choice.sr = choice.dest
      /\ systems.tgt \subseteq Target
  BY DEF Inv, FormType, FormInv, ChoiceFits
<1>2. \A t \in NewTargets(vms, ver) :
         /\ t \in Target
         /\ t.dest = choice.dest /\ t.sr = choice.sr /\ t.ver = ver
         /\ \A u \in systems.tgt : u.vm # t.vm
  BY <1>1 DEF NewTargets, Target
<1>3. tgt \in SUBSET Target
  BY <1>1, <1>2
<1>4. Once(tgt)
  <2>1. Once(systems.tgt)
    BY DEF Inv, FormInv, TargetOnce
  <2>2. \A t, u \in NewTargets(vms, ver) : t.vm = u.vm => t = u
    BY DEF NewTargets
  <2>3. \A t \in NewTargets(vms, ver), u \in systems.tgt : t.vm # u.vm
    BY <1>2
  <2> QED BY <2>1, <2>2, <2>3 DEF Once
<1>5. FitsOrHidden(tgt)
  <2>1. FitsOrHidden(systems.tgt)
    BY DEF Inv, FormInv
  <2>2. FitsOrHidden(NewTargets(vms, ver))
    BY <1>1, <1>2 DEF FitsOrHidden, Host
  <2> QED BY <2>1, <2>2 DEF FitsOrHidden
<1> QED BY <1>3, <1>4, <1>5
-----------------------------------------------------------------------------
LEMMA BackupEditStep ==
    ASSUME Inv,
           \/ \E t \in Tabs : GoTab(t)
           \/ \E v \in System \cup {None} : PickSystem(v)
           \/ \E t \in systems.tgt : TrashSystem(t)
           \/ \E h \in Host : PickHost(h) \/ TrashHost(h)
           \/ \E b \in BOOLEAN : TypeKeyword(b)
    PROVE FormType' /\ FormInv' /\ Asks /\ UNCHANGED <<server, ran>>
<1> DEFINE Goal == FormType' /\ FormInv' /\ Asks /\ UNCHANGED <<server, ran>>
<1> USE DEF FormType
<1>0. flight' = flight => Asks
  BY DEF Asks
<1>1. ASSUME NEW t \in Tabs, GoTab(t) PROVE Goal
  <2>1. FormType' /\ FormInv'
    <3>1. tabs' \in [active : Tabs, disabled : SUBSET Tabs]
      BY <1>1 DEF GoTab, Inv
    <3> QED BY <1>1, <3>1, OtherFieldStep DEF GoTab, Inv
  <2>2. Asks
    BY <1>1, AskTyped DEF GoTab, Asks
  <2> QED BY <1>1, <2>1, <2>2, ActStep DEF GoTab
<1>2. ASSUME NEW v \in System \cup {None}, PickSystem(v) PROVE Goal
  <2>1. tabs' \in [active : Tabs, disabled : SUBSET Tabs]
    BY <1>2 DEF PickSystem, Inv, Tabs
  <2>2. Line(v) \in Target /\ Line(v).dest = None /\ Line(v).sr = None
    BY DEF Line, Target
  <2>3. /\ systems' \in [src : SUBSET (System \cup {None}), tgt : SUBSET Target,
                         disks : [System -> 0..2]]
        /\ systems'.tgt = systems.tgt \cup {Line(v)}
    BY <1>2, <2>2 DEF PickSystem, Inv
  <2>4. FitsOrHidden(systems'.tgt)
    BY <2>2, <2>3 DEF FitsOrHidden, Inv, FormInv
  <2>5. FormType' /\ FormInv'
    BY <1>2, <2>1, <2>3, <2>4, SystemMoveStep DEF PickSystem
  <2>6. Asks
    BY <1>2, AskTyped DEF PickSystem, MustAskDisks, Asks
  <2> QED BY <1>2, <2>5, <2>6, ActStep DEF PickSystem
<1>3. ASSUME NEW t \in systems.tgt, TrashSystem(t) PROVE Goal
  <2>1. tabs' \in [active : Tabs, disabled : SUBSET Tabs]
    BY <1>3 DEF TrashSystem, Inv, Tabs
  <2>2. t.vm \in System \cup {None}
    BY DEF Inv, Target
  <2>3. /\ systems' \in [src : SUBSET (System \cup {None}), tgt : SUBSET Target,
                         disks : [System -> 0..2]]
        /\ systems'.tgt = systems.tgt \ {t}
    BY <1>3, <2>2 DEF TrashSystem, Inv
  <2>4. FitsOrHidden(systems'.tgt)
    BY <2>3 DEF FitsOrHidden, Inv, FormInv
  <2>5. FormType' /\ FormInv'
    BY <1>3, <2>1, <2>3, <2>4, SystemMoveStep DEF TrashSystem
  <2> QED BY <1>0, <1>3, <2>5, ActStep DEF TrashSystem
<1>4. ASSUME NEW h \in Host, PickHost(h) \/ TrashHost(h) PROVE Goal
  <2>1. tabs' \in [active : Tabs, disabled : SUBSET Tabs]
    BY <1>4 DEF PickHost, TrashHost, Inv, Tabs
  <2>2. hosts' \in [src : SUBSET Host, tgt : SUBSET Host] /\ HostOnce'
    BY <1>4 DEF PickHost, TrashHost, Inv, FormInv, HostOnce
  <2>3. UNCHANGED <<page, systems, choice>>
    BY <1>4, ActStep DEF PickHost, TrashHost
  <2>4. FormInv'
    BY <2>2, <2>3 DEF Inv, FormInv, TargetOnce, ChoiceFits
  <2>5. FormType'
    BY <1>4, <2>1, <2>2, ActStep DEF PickHost, TrashHost, Inv
  <2> QED BY <1>0, <1>4, <2>4, <2>5, ActStep DEF PickHost, TrashHost
<1>5. ASSUME NEW b \in BOOLEAN, TypeKeyword(b) PROVE Goal
  <2>1. tabs' \in [active : Tabs, disabled : SUBSET Tabs]
    BY <1>5 DEF TypeKeyword, Inv, Tabs
  <2>2. FormType' /\ FormInv'
    BY <1>5, <2>1, OtherFieldStep DEF TypeKeyword, Inv
  <2> QED BY <1>0, <1>5, <2>2, ActStep DEF TypeKeyword
<1> QED BY <1>1, <1>2, <1>3, <1>4, <1>5

LEMMA DestinationEditStep ==
    ASSUME Inv,
           \/ \E t \in systems.tgt : RepTrash(t)
           \/ \E b \in BOOLEAN : SetProcessor(b) \/ SetFreq(b)
           \/ UseGfs
           \/ \E d \in Host : ChooseDest(d)
           \/ \E vms \in SUBSET System : ChooseSystems(vms)
           \/ \E v \in System : ChooseSystem(v)
           \/ AddRepSrc \/ AddRestSrc
    PROVE FormType' /\ FormInv' /\ Asks /\ UNCHANGED <<server, ran>>
<1> DEFINE Goal == FormType' /\ FormInv' /\ Asks /\ UNCHANGED <<server, ran>>
<1>0. flight' = flight => Asks
  BY DEF Asks
<1>1. ASSUME NEW t \in systems.tgt, RepTrash(t) PROVE Goal
  <2>1. /\ systems' \in [src : SUBSET (System \cup {None}), tgt : SUBSET Target,
                         disks : [System -> 0..2]]
        /\ systems'.tgt = systems.tgt \ {t}
    BY <1>1 DEF RepTrash, Inv, FormType
  <2>2. page.kind \in {"restore", "replicate"}
    BY <1>1, ActStep DEF RepTrash
  <2>3. Once(systems'.tgt) /\ FitsOrHidden(systems'.tgt)
    BY <2>1, <2>2 DEF Inv, FormInv, TargetOnce, Once, FitsOrHidden
  <2>4. FormType' /\ FormInv'
    BY <1>1, <2>1, <2>3, TargetStep DEF RepTrash, Inv, FormType
  <2> QED BY <1>0, <1>1, <2>4, ActStep DEF RepTrash
<1>2. ASSUME NEW b \in BOOLEAN, SetProcessor(b) \/ SetFreq(b) PROVE Goal
  <2>1. opts' \in [now : BOOLEAN, cbt : BOOLEAN]
    BY <1>2 DEF SetProcessor, SetFreq, Inv, FormType
  <2>2. FormType' /\ FormInv'
    BY <1>2, <2>1, OtherFieldStep DEF SetProcessor, SetFreq, Inv, FormType
  <2> QED BY <1>0, <1>2, <2>2, ActStep DEF SetProcessor, SetFreq
<1>3. CASE UseGfs
  <2>1. gfs' \in [use : BOOLEAN, val : Profile \cup {None}, listed : BOOLEAN, set : BOOLEAN]
    BY <1>3 DEF UseGfs, Inv, FormType
  <2>2. FormType' /\ FormInv'
    BY <1>3, <2>1, OtherFieldStep DEF UseGfs, Inv, FormType
  <2> QED BY <1>0, <1>3, <2>2, ActStep DEF UseGfs
<1>4. ASSUME NEW d \in Host, ChooseDest(d) PROVE Goal
  <2>1. /\ choice' \in [vms : SUBSET System, dest : Host \cup {None},
                        sr : XenHost \cup {None}, vers : System \cup {None, Loading, Empty}]
        /\ ChoiceFits'
    BY <1>4, KindsAre DEF ChooseDest, showSrsForUuid, ChoiceFits, Host, Inv, FormType
  <2>2. FormType' /\ FormInv'
    BY <1>4, <2>1, ChoiceStep DEF ChooseDest
  <2> QED BY <1>0, <1>4, <2>2, ActStep DEF ChooseDest
<1>5. ASSUME NEW vms \in SUBSET System, ChooseSystems(vms) PROVE Goal
  <2>1. /\ choice' \in [vms : SUBSET System, dest : Host \cup {None},
                        sr : XenHost \cup {None}, vers : System \cup {None, Loading, Empty}]
        /\ ChoiceFits'
    BY <1>5 DEF ChooseSystems, ChoiceFits, Inv, FormType, FormInv
  <2>2. FormType' /\ FormInv'
    BY <1>5, <2>1, ChoiceStep DEF ChooseSystems
  <2> QED BY <1>0, <1>5, <2>2, ActStep DEF ChooseSystems
<1>6. ASSUME NEW v \in System, ChooseSystem(v) PROVE Goal
  <2>1. /\ choice' \in [vms : SUBSET System, dest : Host \cup {None},
                        sr : XenHost \cup {None}, vers : System \cup {None, Loading, Empty}]
        /\ ChoiceFits'
    BY <1>6 DEF ChooseSystem, ChoiceFits, Inv, FormType, FormInv
  <2>2. FormType' /\ FormInv'
    BY <1>6, <2>1, ChoiceStep DEF ChooseSystem
  <2>3. Asks
    BY <1>6, AskTyped DEF ChooseSystem, Asks
  <2> QED BY <1>6, <2>2, <2>3, ActStep DEF ChooseSystem
<1>7. CASE AddRepSrc
  <2>1. page.kind \in {"restore", "replicate"} /\ choice.vms \in SUBSET System
    BY <1>7, ActStep DEF AddRepSrc, Inv, FormType
  <2> DEFINE tgt == systems.tgt \cup NewTargets(choice.vms, None)
  <2>2. tgt \in SUBSET Target /\ Once(tgt) /\ FitsOrHidden(tgt)
    BY <1>7, <2>1, NewTargetsFit DEF AddRepSrc
  <2>3. systems' = [systems EXCEPT !.tgt = tgt]
    BY <1>7 DEF AddRepSrc
  <2> HIDE DEF tgt
  <2>4. /\ systems' \in [src : SUBSET (System \cup {None}), tgt : SUBSET Target,
                         disks : [System -> 0..2]]
        /\ systems'.tgt = tgt
    BY <2>2, <2>3 DEF Inv, FormType
  <2>5. /\ choice' \in [vms : SUBSET System, dest : Host \cup {None},
                        sr : XenHost \cup {None}, vers : System \cup {None, Loading, Empty}]
        /\ choice'.dest = None
    BY <1>7 DEF AddRepSrc, Inv, FormType
  <2>6. FormType' /\ FormInv'
    BY <1>7, <2>2, <2>4, <2>5, TargetStep DEF AddRepSrc
  <2> QED BY <1>0, <1>7, <2>6, ActStep DEF AddRepSrc
<1>8. CASE AddRestSrc
  <2>1. page.kind \in {"restore", "replicate"} /\ choice.vms \in SUBSET System
    BY <1>8, ActStep DEF AddRestSrc, Inv, FormType
  <2> DEFINE tgt == systems.tgt \cup NewTargets(choice.vms, Version)
  <2>0. Version \in System \cup {None}
    BY DEF Version
  <2>2. tgt \in SUBSET Target /\ Once(tgt) /\ FitsOrHidden(tgt)
    BY <1>8, <2>0, <2>1, NewTargetsFit DEF AddRestSrc
  <2>3. systems' = [systems EXCEPT !.tgt = tgt]
    BY <1>8 DEF AddRestSrc
  <2> HIDE DEF tgt
  <2>4. /\ systems' \in [src : SUBSET (System \cup {None}), tgt : SUBSET Target,
                         disks : [System -> 0..2]]
        /\ systems'.tgt = tgt
    BY <2>2, <2>3 DEF Inv, FormType
  <2>5. /\ choice' \in [vms : SUBSET System, dest : Host \cup {None},
                        sr : XenHost \cup {None}, vers : System \cup {None, Loading, Empty}]
        /\ choice'.dest = None
    BY <1>8 DEF AddRestSrc, Inv, FormType
  <2>6. FormType' /\ FormInv'
    BY <1>8, <2>2, <2>4, <2>5, TargetStep DEF AddRestSrc
  <2>7. Asks
    BY <1>8, AskTyped DEF AddRestSrc, Asks
  <2> QED BY <1>8, <2>6, <2>7, ActStep DEF AddRestSrc
<1> QED BY <1>1, <1>2, <1>3, <1>4, <1>5, <1>6, <1>7, <1>8
-----------------------------------------------------------------------------
(* Saving, and what the appliance makes of it.                               *)
LEMMA SendStep ==
    ASSUME Inv, NEW job \in Job, Save(job), FitsOrHidden(job.targets), OnceByKind(job)
    PROVE FormType' /\ FormInv' /\ FlightType' /\ FlightInv' /\ UNCHANGED <<server, ran>>
<1>1. FormType' /\ FormInv'
  BY OtherFieldStep DEF Save, Inv, FormType
<1> DEFINE calm == ~haste /\ Pending = {}
           asLoaded == gfs.listed /\ ~gfs.set
           q == [call |-> "save", id |-> page.job, job |-> job, calm |-> calm,
                 asLoaded |-> asLoaded]
<1>2. flight' = flight \cup {q}
  BY DEF Save
<1>3. calm \in BOOLEAN /\ asLoaded \in BOOLEAN /\ page.job \in JobId \cup {None}
  BY DEF Inv, FormType
<1> HIDE DEF calm, asLoaded
<1>4. q \in SaveRequest /\ q.job = job
  BY <1>3 DEF SaveRequest
<1> HIDE DEF q
<1>5. FlightType'
  BY <1>2, <1>4 DEF Inv, FlightType
<1>6. FlightInv'
  BY <1>2, <1>4 DEF Inv, FlightInv
<1> QED BY <1>1, <1>5, <1>6, ActStep DEF Save

LEMMA SaveStep ==
    ASSUME Inv, saveScheduleBackup \/ saveScheduleRep \/ saveScheduleRestore
    PROVE FormType' /\ FormInv' /\ FlightType' /\ FlightInv' /\ UNCHANGED <<server, ran>>
<1>1. /\ RetentionSent \in Profile \cup {None} /\ Policy \in 0..2
      /\ systems.tgt \in SUBSET Target /\ hosts.tgt \in SUBSET Host
      /\ opts.cbt \in BOOLEAN /\ opts.now \in BOOLEAN
  BY DEF Inv, FormType, RetentionSent, Policy
<1>2. /\ FitsOrHidden(systems.tgt)
      /\ page.kind \in {"restore", "replicate"} => Once(systems.tgt)
  BY DEF Inv, FormInv, TargetOnce
<1> DEFINE backup ==
             [kind |-> "backup", policy |-> Policy, targets |-> systems.tgt,
              hosts |-> IF systems.tgt = {} THEN hosts.tgt ELSE {},
              gfs |-> RetentionSent, cbt |-> FALSE, now |-> FALSE]
           replica ==
             [kind |-> "replicate", policy |-> 0, targets |-> systems.tgt, hosts |-> {},
              gfs |-> RetentionSent, cbt |-> opts.cbt, now |-> FALSE]
           restore ==
             [kind |-> "restore", policy |-> 0, targets |-> systems.tgt, hosts |-> {},
              gfs |-> None, cbt |-> FALSE, now |-> opts.now]
<1>3. CASE saveScheduleBackup
  <2>1. Save(backup)
    BY <1>3 DEF saveScheduleBackup
  <2>2. backup \in Job /\ FitsOrHidden(backup.targets) /\ OnceByKind(backup)
    BY <1>1, <1>2 DEF Job, Kinds, OnceByKind
  <2> QED BY <2>1, <2>2, SendStep
<1>4. CASE saveScheduleRep
  <2>1. Save(replica)
    BY <1>4 DEF saveScheduleRep
  <2>2. page.kind = "replicate"
    BY <2>1, ActStep DEF Save
  <2>3. replica \in Job /\ FitsOrHidden(replica.targets) /\ OnceByKind(replica)
    BY <1>1, <1>2, <2>2 DEF Job, Kinds, OnceByKind
  <2> QED BY <2>1, <2>3, SendStep
<1>5. CASE saveScheduleRestore
  <2>1. Save(restore)
    BY <1>5 DEF saveScheduleRestore
  <2>2. page.kind = "restore"
    BY <2>1, ActStep DEF Save
  <2>3. restore \in Job /\ FitsOrHidden(restore.targets) /\ OnceByKind(restore)
    BY <1>1, <1>2, <2>2 DEF Job, Kinds, OnceByKind
  <2> QED BY <2>1, <2>3, SendStep
<1> QED BY <1>3, <1>4, <1>5

(* A stored job fits even when the page's targets had another host's storage.*)
LEMMA StoreStep ==
    ASSUME Inv, NEW job \in Job, FitsOrHidden(job.targets), OnceByKind(job)
    PROVE /\ setSchedule(job) \in Job
          /\ Fits(setSchedule(job).targets)
          /\ OnceByKind(setSchedule(job))
<1> DEFINE stored == {StoredTarget(t) : t \in job.targets}
<1>1. \A t \in job.targets :
         /\ StoredTarget(t) \in Target
         /\ StoredTarget(t).vm = t.vm
         /\ StoredTarget(t).sr \in {StoredTarget(t).dest, None}
  BY DEF StoredTarget, Target, Job, FitsOrHidden
<1>2. stored \in SUBSET Target /\ Fits(stored)
  BY <1>1 DEF Fits
<1>3. Once(job.targets) => Once(stored)
  <2> SUFFICES ASSUME Once(job.targets), NEW t \in job.targets, NEW u \in job.targets,
                      StoredTarget(t).vm = StoredTarget(u).vm
               PROVE StoredTarget(t) = StoredTarget(u)
    BY DEF Once
  <2>1. t = u
    BY <1>1 DEF Once
  <2> QED BY <2>1
<1>4. Fits({}) /\ Once({})
  BY DEF Fits, Once
<1> DEFINE tgt == IF job.policy = 0 THEN stored ELSE {}
           hst == IF job.policy = 1 THEN job.hosts ELSE {}
<1>5. /\ setSchedule(job) = [job EXCEPT !.targets = tgt, !.hosts = hst]
      /\ tgt \in {stored, {}}
      /\ tgt \in SUBSET Target /\ hst \in SUBSET Host
  BY <1>2 DEF setSchedule, Job
<1> HIDE DEF stored, tgt, hst
<1>6. setSchedule(job) \in Job /\ setSchedule(job).kind = job.kind
      /\ setSchedule(job).targets = tgt
  BY <1>5 DEF Job
<1>7. Fits(setSchedule(job).targets)
  BY <1>2, <1>4, <1>5, <1>6
<1>8. OnceByKind(setSchedule(job))
  BY <1>3, <1>4, <1>5, <1>6 DEF OnceByKind
<1> QED BY <1>6, <1>7, <1>8

LEMMA AnswerSaveStep ==
    ASSUME Inv, NEW r \in flight, AnswerSave(r)
    PROVE FormType' /\ FormInv' /\ Asks /\ ServerType' /\ ServerInv'
<1>1. r.call = "save" /\ r \in SaveRequest /\ UNCHANGED ran
  BY Requests DEF AnswerSave
<1>2. r.job \in Job /\ FitsOrHidden(r.job.targets) /\ OnceByKind(r.job)
  BY <1>1 DEF Inv, FlightInv, SaveRequest
<1>3. ASSUME flight' = flight \ {r}, UNCHANGED <<formVars, server>>
      PROVE FormType' /\ FormInv' /\ Asks /\ ServerType' /\ ServerInv'
  BY <1>1, <1>3, StillServer DEF formVars, Asks, Inv, FormType, FormInv, HostOnce, TargetOnce,
     ChoiceFits, ServerType
<1>4. ASSUME NEW i \in JobId, server' = [server EXCEPT ![i] = setSchedule(r.job)],
             AfterSave(r, i)
      PROVE FormType' /\ FormInv' /\ Asks /\ ServerType' /\ ServerInv'
  <2>1. /\ setSchedule(r.job) \in Job /\ Fits(setSchedule(r.job).targets)
        /\ OnceByKind(setSchedule(r.job))
    BY <1>2, StoreStep
  <2>2. ServerType'
    BY <1>1, <1>4, <2>1 DEF Inv, ServerType
  <2>3. ServerInv'
    <3> SUFFICES ASSUME NEW k \in JobId, server'[k] # NoJob
                 PROVE Fits(server'[k].targets) /\ OnceByKind(server'[k])
      BY DEF ServerInv
    <3>1. server'[k] = IF k = i THEN setSchedule(r.job) ELSE server[k]
      BY <1>4 DEF Inv, ServerType
    <3> QED BY <2>1, <3>1 DEF Inv, ServerInv
  <2>4. CASE flight' = (flight \ {r}) \cup {[call |-> "run", id |-> i]} /\ UNCHANGED formVars
    <3>1. Asks
      BY <2>4 DEF Asks, IdRequest
    <3> QED BY <2>2, <2>3, <2>4, <3>1 DEF formVars, Inv, FormType, FormInv, HostOnce,
          TargetOnce, ChoiceFits
  <2>5. CASE flight' = Kept \ {r} /\ drawSchedulesTable
    BY <2>2, <2>3, <2>5, BlankStep, KeptAsks DEF drawSchedulesTable
  <2> QED BY <1>4, <2>4, <2>5 DEF AfterSave
<1> QED BY <1>3, <1>4 DEF AnswerSave
-----------------------------------------------------------------------------
(* Lists.                                                                    *)
LEMMA SourcesStep ==
    ASSUME Inv, NEW r \in flight, NEW ok \in BOOLEAN, AnswerSources(r, ok),
           UNCHANGED <<page, tabs, keyword, opts, acts, haste>>
    PROVE FormType' /\ FormInv' /\ Asks
<1> DEFINE listed == IF ok THEN System ELSE {}
<1>1. listed \in SUBSET System
  OBVIOUS
<1>2. \/ populateBackupSrc(r, listed)
      \/ populateRepSrc(r, listed)
      \/ populateRestSrc(r, listed)
      \/ UNCHANGED <<systems, choice>> /\ Done(r)
  BY DEF AnswerSources
<1> HIDE DEF listed
<1>3. /\ systems' \in [src : SUBSET (System \cup {None}), tgt : SUBSET Target,
                       disks : [System -> 0..2]]
      /\ systems'.tgt = systems.tgt
  <2>1. CASE populateBackupSrc(r, listed)
    <3> DEFINE src == IF page.kind = "backup" THEN listed ELSE {}
               disks == [v \in System |-> IF v \in TargetSystems THEN systems.disks[v] ELSE 0]
    <3>1. systems' = [systems EXCEPT !.src = src, !.disks = disks]
      BY <2>1 DEF populateBackupSrc
    <3>2. src \in SUBSET System /\ disks \in [System -> 0..2]
      BY <1>1 DEF Inv, FormType
    <3> HIDE DEF src, disks
    <3> QED BY <3>1, <3>2 DEF Inv, FormType
  <2>2. CASE populateRepSrc(r, listed) \/ populateRestSrc(r, listed)
             \/ UNCHANGED <<systems, choice>>
    BY <1>1, <2>2 DEF populateRepSrc, populateRestSrc, Inv, FormType
  <2> QED BY <1>2, <2>1, <2>2
<1>4. /\ choice' \in [vms : SUBSET System, dest : Host \cup {None},
                      sr : XenHost \cup {None}, vers : System \cup {None, Loading, Empty}]
      /\ choice'.dest = choice.dest /\ choice'.sr = choice.sr
  BY <1>1, <1>2 DEF populateBackupSrc, populateRepSrc, populateRestSrc, Inv, FormType
<1>5. flight' \subseteq flight
  BY <1>2 DEF populateBackupSrc, populateRepSrc, populateRestSrc, Done
<1>6. UNCHANGED <<hosts, gfs>>
  BY DEF AnswerSources
<1>7. FormInv'
  BY <1>3, <1>4, <1>6 DEF Inv, FormInv, HostOnce, TargetOnce, ChoiceFits
<1>8. FormType'
  BY <1>3, <1>4, <1>6 DEF Inv, FormType
<1> QED BY <1>5, <1>7, <1>8 DEF Asks

LEMMA OtherListStep ==
    ASSUME Inv, NEW r \in flight, NEW ok \in BOOLEAN,
           \/ populateSchedHosts(r, ok) \/ populateGfsOpts(r, ok)
           \/ populateRestVersions(r, ok) \/ populateDiskList(r, ok),
           UNCHANGED <<page, tabs, keyword, opts, acts, haste>>
    PROVE FormType' /\ FormInv' /\ Asks
<1>0. Asks
  BY DEF populateSchedHosts, populateGfsOpts, populateRestVersions, populateDiskList, Done, Asks
<1>1. CASE populateSchedHosts(r, ok)
  <2>1. hosts' \in [src : SUBSET Host, tgt : SUBSET Host] /\ HostOnce'
    BY <1>1 DEF populateSchedHosts, HostOnce, Inv, FormType, FormInv
  <2> QED BY <1>0, <1>1, <2>1 DEF populateSchedHosts, Inv, FormType, FormInv, TargetOnce,
        ChoiceFits
<1>2. CASE populateGfsOpts(r, ok)
  <2>1. gfs' \in [use : BOOLEAN, val : Profile \cup {None}, listed : BOOLEAN, set : BOOLEAN]
    BY <1>2, Requests, KindsAre DEF populateGfsOpts, Inv, FormType
  <2> QED BY <1>0, <1>2, <2>1 DEF populateGfsOpts, Inv, FormType, FormInv, HostOnce,
        TargetOnce, ChoiceFits
<1>3. CASE populateRestVersions(r, ok)
  <2>1. /\ choice' \in [vms : SUBSET System, dest : Host \cup {None},
                        sr : XenHost \cup {None}, vers : System \cup {None, Loading, Empty}]
        /\ choice'.dest = choice.dest /\ choice'.sr = choice.sr
    BY <1>3, Requests DEF populateRestVersions, Inv, FormType
  <2> QED BY <1>0, <1>3, <2>1 DEF populateRestVersions, Inv, FormType, FormInv, HostOnce,
        TargetOnce, ChoiceFits
<1>4. CASE populateDiskList(r, ok)
  <2>1. r.arg \in System
    BY <1>4, Requests DEF populateDiskList
  <2>2. /\ systems' \in [src : SUBSET (System \cup {None}), tgt : SUBSET Target,
                         disks : [System -> 0..2]]
        /\ systems'.tgt = systems.tgt
    BY <1>4, <2>1 DEF populateDiskList, Inv, FormType
  <2> QED BY <1>0, <1>4, <2>2 DEF populateDiskList, Inv, FormType, FormInv, HostOnce,
        TargetOnce, ChoiceFits
<1> QED BY <1>1, <1>2, <1>3, <1>4

LEMMA AnswerStep == ASSUME Inv, NEW r \in flight, Answer(r) PROVE Inv'
<1>1. CASE AnswerSchedule(r)
  BY <1>1, EditStep, AskStep, StillServer DEF Inv, ServerType
<1>2. CASE AnswerList(r)
  <2>1. PICK ok \in BOOLEAN :
           \/ AnswerSources(r, ok) \/ populateSchedHosts(r, ok) \/ populateGfsOpts(r, ok)
           \/ populateRestVersions(r, ok) \/ populateDiskList(r, ok)
    BY <1>2 DEF AnswerList
  <2>2. UNCHANGED <<page, tabs, keyword, opts, acts, haste, server, ran>>
    BY <1>2 DEF AnswerList
  <2>3. FormType' /\ FormInv' /\ Asks
    BY <2>1, <2>2, SourcesStep, OtherListStep
  <2> QED BY <2>2, <2>3, AskStep, StillServer DEF Inv, ServerType
<1>3. CASE AnswerSave(r)
  BY <1>3, AnswerSaveStep, AskStep DEF Inv
<1>4. CASE runSchedule(r)
  <2>1. r.id \in JobId
    BY <1>4, Requests DEF runSchedule
  <2>2. Asks
    BY <1>4 DEF runSchedule, Asks, JobsRequest
  <2>3. FormType' /\ FormInv'
    BY <1>4 DEF runSchedule, formVars, Inv, FormType, FormInv, HostOnce, TargetOnce, ChoiceFits
  <2>4. ServerType' /\ ServerInv'
    BY <1>4, <2>1, StillServer DEF runSchedule, Inv, ServerType
  <2> QED BY <2>2, <2>3, <2>4, AskStep DEF Inv
<1>5. CASE AnswerJobs(r)
  <2>1. FormType' /\ FormInv'
    BY <1>5, BlankStep DEF AnswerJobs
  <2>2. Asks
    BY <1>5, KeptAsks DEF AnswerJobs
  <2> QED BY <1>5, <2>1, <2>2, AskStep, StillServer DEF AnswerJobs, Inv, ServerType
<1> QED BY <1>1, <1>2, <1>3, <1>4, <1>5 DEF Answer

LEMMA InitInv == Init => Inv
<1> SUFFICES ASSUME Init PROVE Inv
  OBVIOUS
<1>0. 0 \in 0..MaxOpen /\ 0 \in 0..MaxAct
  BY EditorAssumption
<1>1. FormType
  <2>1. page \in [kind : Kinds \cup {"list", "new", "jobs"}, job : JobId \cup {None},
                  no : 0..MaxOpen]
    BY <1>0 DEF Init
  <2>2. systems \in [src : SUBSET (System \cup {None}), tgt : SUBSET Target,
                     disks : [System -> 0..2]]
    BY NoDisksTyped DEF Init
  <2>3. choice \in [vms : SUBSET System, dest : Host \cup {None},
                    sr : XenHost \cup {None}, vers : System \cup {None, Loading, Empty}]
    BY DEF Init
  <2>4. /\ hosts \in [src : SUBSET Host, tgt : SUBSET Host]
        /\ tabs \in [active : Tabs, disabled : SUBSET Tabs]
        /\ keyword \in BOOLEAN /\ haste \in BOOLEAN
        /\ gfs \in [use : BOOLEAN, val : Profile \cup {None}, listed : BOOLEAN,
                    set : BOOLEAN]
        /\ opts \in [now : BOOLEAN, cbt : BOOLEAN]
        /\ acts \in 0..MaxAct
    BY <1>0 DEF Init, Tabs
  <2> QED BY <2>1, <2>2, <2>3, <2>4 DEF FormType
<1>2. FlightType /\ FlightInv
  BY DEF Init, FlightType, FlightInv
<1>3. ServerType /\ ServerInv
  BY EditorAssumption, SavedAssumption DEF Init, ServerType, ServerInv, OnceByKind
<1>4. FormInv
  BY KindsAre DEF Init, FormInv, HostOnce, TargetOnce, Once, FitsOrHidden, ChoiceFits, Host
<1> QED BY <1>1, <1>2, <1>3, <1>4 DEF Inv

LEMMA StepInv == Inv /\ [Next]_vars => Inv'
<1> SUFFICES ASSUME Inv, [Next]_vars PROVE Inv'
  OBVIOUS
<1>1. ASSUME FormType', FormInv', Asks, UNCHANGED <<server, ran>> PROVE Inv'
  BY <1>1, AskStep, StillServer DEF Inv, ServerType
<1>2. CASE Open
  BY <1>1, <1>2, OpenStep
<1>3. CASE saveScheduleBackup \/ saveScheduleRep \/ saveScheduleRestore
  BY <1>3, SaveStep, StillServer DEF Inv, ServerType
<1>4. CASE Edit /\ ~(saveScheduleBackup \/ saveScheduleRep \/ saveScheduleRestore)
  BY <1>1, <1>4, BackupEditStep, DestinationEditStep DEF Edit
<1>5. ASSUME NEW r \in flight, Answer(r) PROVE Inv'
  BY <1>5, AnswerStep
<1>6. CASE UNCHANGED vars
  BY <1>6 DEF vars, formVars, Inv, FormType, FlightType, ServerType, FormInv, FlightInv,
     ServerInv, HostOnce, TargetOnce, ChoiceFits
<1> QED BY <1>2, <1>3, <1>4, <1>5, <1>6 DEF Next

(* Whatever order pages, answers and failures come in, the parts of the      *)
(* invariant hold together.                                                  *)
THEOREM Invariance == Spec => []Inv
<1>1. Init => Inv
  BY InitInv
<1>2. Inv /\ [Next]_vars => Inv'
  BY StepInv
<1> QED BY <1>1, <1>2, PTL DEF Spec

(* Every field of every page, every request and every job has its type,      *)
(* although an answer fills whatever page is shown.                          *)
THEOREM TypeCorrect == Spec => []TypeOK
<1>1. Inv => TypeOK
  BY Parted DEF Inv
<1> QED BY <1>1, Invariance, PTL

(* No host is both a source and a target, whatever list comes when.          *)
THEOREM HostsAreOnce == Spec => []HostOnce
<1>1. Inv => HostOnce
  BY DEF Inv, FormInv
<1> QED BY <1>1, Invariance, PTL

(* No restore and no replication has a system twice, in whatever order it    *)
(* was loaded, added, removed and listed again.                              *)
THEOREM TargetsAreOnce == Spec => []TargetOnce
<1>1. Inv => TargetOnce
  BY DEF Inv, FormInv
<1> QED BY <1>1, Invariance, PTL

(* No stored job restores or replicates a system to the storage of a host    *)
(* other than its destination, although pages do send such targets.          *)
THEOREM StorageDoesFit == Spec => []StorageFits
<1>1. Inv => StorageFits
  BY DEF Inv, ServerInv, StorageFits
<1> QED BY <1>1, Invariance, PTL
-----------------------------------------------------------------------------
(* Pages that were given time to load.  While the user waits for answers, a  *)
(* page has every answer or has had no act since it was opened, and what it  *)
(* shows is what its job has or what was put together on it.                 *)
SystemOrLoaded(targets) ==
    \A t \in targets :
        t.ver \in {t.vm, None} \/ (page.job # None /\ t \in server[page.job].targets)

DisksFit ==
    \A v \in System : /\ systems.disks[v] <= 1
                      /\ List("disks", v) \in flight => systems.disks[v] = 0

(* A save on its way is that of this page.                                   *)
SavedHere ==
    \A r \in flight : r.call = "save" =>
        r.id = page.job /\ r.job.kind = page.kind /\ r.job.targets = systems.tgt

(* The versions shown or asked for are those of the selected system, and     *)
(* there are none before the systems are listed.                             *)
ChoiceOwn ==
    page.kind = "restore" =>
        /\ choice.vers \in System => choice.vms \subseteq {choice.vers}
        /\ \A v \in System : List("versions", v) \in flight => choice.vms \subseteq {v}
        /\ List("sources", "restore") \in flight =>
              /\ choice.vers \notin System
              /\ \A v \in System : List("versions", v) \notin flight

(* A backup's retention left alone is that of the job, listed or asked for.  *)
KeepsRetention(job) ==
    /\ gfs.use = (job.gfs # None)
    /\ gfs.listed /\ job.gfs # None => gfs.val = job.gfs
    /\ \A r \in flight : r.call = "gfs" => r.arg = job.gfs

RetentionFits ==
    /\ page.kind = "restore" => ~gfs.listed
    /\ (page.job # None /\ ~gfs.set /\ server[page.job].kind = "backup")
       => KeepsRetention(server[page.job])

RestorePolicy ==
    \A r \in flight : r.call = "save" /\ r.job.kind = "restore" => r.job.policy = 0

JobThere == page.job # None => server[page.job] # NoJob

CalmPage == SavedHere /\ SystemOrLoaded(systems.tgt) /\ ChoiceOwn /\ RetentionFits

CalmInv ==
    /\ RestorePolicy /\ JobThere
    /\ ~haste => DisksFit
    /\ ~haste /\ page.kind \in Kinds => CalmPage

LEMMA Lists ==
    ASSUME Inv, NEW r \in flight
    PROVE r.call \in ListCalls => r = List(r.call, r.arg)
  BY DEF Inv, FlightType, ListRequest, IdRequest, SaveRequest, JobsRequest, ListCalls, List

LEMMA ListFields ==
    \A call, arg : List(call, arg).call = call /\ List(call, arg).arg = arg
  BY DEF List

(* The pages that are not for a job have nothing on them.                    *)
LEMMA BlankCalm ==
    ASSUME CalmInv, NEW kind \in {"list", "new", "jobs"}, BlankPage(kind),
           flight' \subseteq Kept
    PROVE CalmInv'
<1>1. kind \notin Kinds /\ page'.kind = kind /\ page'.job = None
  BY DEF Kinds, BlankPage, setupPage
<1>2. systems'.disks = NoDisks
  BY DEF BlankPage, renderRestorePanel
<1>3. flight' \subseteq flight /\ \A r \in flight' : r.call # "disks"
  BY DEF Kept
<1>4. DisksFit'
  BY <1>2, <1>3, ListFields DEF DisksFit, NoDisks
<1>5. RestorePolicy'
  BY <1>3 DEF CalmInv, RestorePolicy
<1> QED BY <1>1, <1>4, <1>5 DEF CalmInv, JobThere

(* A page opened when no answer is pending has targets of the job and        *)
(* the retention of a backup, and asks for it.                               *)
LEMMA OpenCalm ==
    ASSUME CalmInv, NEW kind \in Kinds, NEW job \in JobId \cup {None}, NEW no,
           setupPage(kind, job, no), UNCHANGED server,
           job # None => server[job].kind = kind,
           NEW asked, flight' \subseteq Kept \cup asked,
           \A r \in asked : r.call \in {"sources", "hosts", "gfs"},
           \A v \in System : systems'.disks[v] <= 1,
           SystemOrLoaded(systems.tgt)',
           choice'.vers = Empty,
           NEW use \in BOOLEAN, Retention(use),
           kind # "backup" \/ job = None
             \/ /\ use = (server[job].gfs # None)
                /\ \A r \in asked : r.call = "gfs" => r.arg = server[job].gfs
    PROVE CalmInv'
<1>1. page'.kind = kind /\ page'.job = job /\ (haste' <=> Pending # {})
  BY DEF setupPage
<1>2. \A r \in flight' : r.call # "disks" /\ (r.call = "save" => r \in flight)
  BY DEF Kept
<1>3. DisksFit'
  BY <1>2, ListFields DEF DisksFit
<1>4. RestorePolicy'
  BY <1>2 DEF CalmInv, RestorePolicy
<1>5. ASSUME Pending = {} PROVE CalmPage'
  <2>1. \A r \in flight' : r \in asked \/ r.call \notin ListCalls \cup {"save"}
    BY <1>5 DEF Pending, Kept
  <2>2. \A r \in flight' : r.call # "save" /\ r.call # "versions"
    BY <2>1 DEF ListCalls
  <2>3. SavedHere'
    BY <2>2 DEF SavedHere
  <2>4. ChoiceOwn'
    BY <2>2, ListFields, EditorAssumption DEF ChoiceOwn
  <2>5. gfs' = [use |-> use, val |-> None, listed |-> FALSE, set |-> FALSE]
    BY DEF Retention
  <2>6. ASSUME kind = "backup", job # None
        PROVE KeepsRetention(server[job])'
    <3>1. \A r \in flight' : r.call = "gfs" => r.arg = server[job].gfs
      BY <2>1, <2>6 DEF ListCalls
    <3> QED BY <2>5, <2>6, <3>1 DEF KeepsRetention
  <2>7. RetentionFits'
    BY <1>1, <2>5, <2>6 DEF RetentionFits
  <2> QED BY <2>3, <2>4, <2>7 DEF CalmPage
<1>6. JobThere'
  BY <1>1, KindsAre DEF JobThere, NoJob
<1> QED BY <1>1, <1>3, <1>4, <1>5, <1>6 DEF CalmInv

(* Acts: what is asked for and what changes on the page.  An act before      *)
(* every answer has come is one in haste.                                    *)
LEMMA ActCalm ==
    ASSUME CalmInv, NEW kinds \in SUBSET Kinds, Act(kinds), NEW asked,
           flight' = flight \cup asked,
           \A r \in asked : r.call \in {"hosts", "disks", "versions", "save"},
           \A v \in System : List("disks", v) \in asked => systems.disks[v] = 0,
           \A r \in asked : r.call = "save" =>
              /\ r.id = page.job /\ r.job.kind = page.kind /\ r.job.targets = systems'.tgt
              /\ r.job.kind = "restore" => r.job.policy = 0,
           systems'.disks = systems.disks,
           CalmPage => SystemOrLoaded(systems'.tgt),
           page.kind = "restore" /\ CalmPage =>
              /\ choice'.vers \in System => choice'.vms \subseteq {choice'.vers}
              /\ \A v \in System : List("versions", v) \in asked => choice'.vms \subseteq {v},
           gfs' = gfs \/ (gfs'.set /\ page.kind # "restore")
    PROVE CalmInv'
<1>1. /\ UNCHANGED <<page, server>> /\ page.kind \in Kinds
      /\ haste' <=> haste \/ Pending # {}
  BY DEF Act
<1>2. RestorePolicy' /\ JobThere'
  BY <1>1 DEF CalmInv, RestorePolicy, JobThere
<1> SUFFICES ASSUME ~haste, Pending = {} PROVE DisksFit' /\ CalmPage'
  BY <1>1, <1>2 DEF CalmInv
<1>3. DisksFit /\ CalmPage
  BY <1>1 DEF CalmInv
<1>4. \A r \in flight : r.call \notin ListCalls \cup {"save"}
  BY DEF Pending
<1>5. DisksFit'
  BY <1>3 DEF DisksFit
<1>6. SavedHere'
  BY <1>1, <1>4 DEF SavedHere
<1>7. SystemOrLoaded(systems.tgt)'
  BY <1>1, <1>3 DEF SystemOrLoaded
<1>8. ChoiceOwn'
  <2>1. \A r \in flight : r.call \notin {"versions", "sources"}
    BY <1>4 DEF ListCalls
  <2>2. \A r \in flight' : r.call = "versions" => r \in asked
    BY <2>1
  <2>3. \A r \in flight' : r.call # "sources"
    BY <2>1
  <2> QED BY <1>1, <1>3, <2>2, <2>3, ListFields DEF ChoiceOwn
<1>9. RetentionFits'
  <2>1. \A r \in flight' : r.call # "gfs"
    BY <1>4 DEF ListCalls
  <2>2. ASSUME page.job # None, ~gfs'.set, server[page.job].kind = "backup"
        PROVE KeepsRetention(server[page.job])'
    <3>1. KeepsRetention(server[page.job]) /\ gfs' = gfs
      BY <1>3, <2>2 DEF CalmPage, RetentionFits
    <3> QED BY <1>1, <2>1, <3>1 DEF KeepsRetention
  <2>3. page.kind = "restore" => ~gfs'.listed
    BY <1>3 DEF CalmPage, RetentionFits
  <2> QED BY <1>1, <2>2, <2>3 DEF RetentionFits
<1> QED BY <1>5, <1>6, <1>7, <1>8, <1>9 DEF CalmPage

LEMMA LineOwn == \A v : Line(v).ver \in {Line(v).vm, None}
  BY DEF Line

LEMMA BackupEditCalm ==
    ASSUME Inv, CalmInv,
           \/ \E t \in Tabs : GoTab(t)
           \/ \E v \in System \cup {None} : PickSystem(v)
           \/ \E t \in systems.tgt : TrashSystem(t)
           \/ \E h \in Host : PickHost(h) \/ TrashHost(h)
           \/ \E b \in BOOLEAN : TypeKeyword(b)
    PROVE CalmInv'
<1>0. {"backup"} \in SUBSET Kinds
  BY KindsAre
<1>1. ASSUME Act({"backup"}), NEW asked, flight' = flight \cup asked,
             \A r \in asked : r.call \in {"hosts", "disks"},
             \A v \in System : List("disks", v) \in asked => systems.disks[v] = 0,
             systems'.disks = systems.disks,
             \A t \in systems'.tgt : t \in systems.tgt \/ t.ver \in {t.vm, None},
             gfs' = gfs
      PROVE CalmInv'
  <2>1. page.kind # "restore"
    BY <1>1 DEF Act
  <2>2. CalmPage => SystemOrLoaded(systems'.tgt)
    BY <1>1 DEF CalmPage, SystemOrLoaded
  <2> QED BY <1>0, <1>1, <2>1, <2>2, ActCalm
<1>2. ASSUME UNCHANGED systems, UNCHANGED gfs, Act({"backup"}),
             flight' = flight \/ flight' = flight \cup {List("hosts", None)}
      PROVE CalmInv'
  <2>1. PICK asked \in {{}, {List("hosts", None)}} : flight' = flight \cup asked
    BY <1>2
  <2>2. \A r \in asked : r.call = "hosts"
    BY ListFields
  <2> QED BY <1>1, <1>2, <2>1, <2>2, ListFields
<1>3. ASSUME NEW v \in System \cup {None}, PickSystem(v) PROVE CalmInv'
  <2>1. PICK asked : /\ flight' = flight \cup asked
                     /\ asked = IF MustAskDisks(v) THEN {List("disks", v)} ELSE {}
    BY <1>3 DEF PickSystem
  <2>2. /\ \A r \in asked : r.call = "disks"
        /\ \A w \in System : List("disks", w) \in asked => systems.disks[w] = 0
    BY <2>1, ListFields DEF MustAskDisks
  <2>3. systems'.disks = systems.disks /\ systems'.tgt = systems.tgt \cup {Line(v)}
    BY <1>3 DEF PickSystem, Inv, FormType
  <2>4. \A t \in systems'.tgt : t \in systems.tgt \/ t.ver \in {t.vm, None}
    BY <2>3, LineOwn
  <2>5. Act({"backup"}) /\ gfs' = gfs
    BY <1>3 DEF PickSystem
  <2> QED BY <1>1, <2>1, <2>2, <2>3, <2>4, <2>5
<1>4. ASSUME NEW t \in systems.tgt, TrashSystem(t) PROVE CalmInv'
  <2>1. systems'.disks = systems.disks /\ systems'.tgt = systems.tgt \ {t}
    BY <1>4 DEF TrashSystem, Inv, FormType
  <2>2. PICK asked \in {{}} : flight' = flight \cup asked
    BY <1>4 DEF TrashSystem
  <2>3. Act({"backup"}) /\ gfs' = gfs
    BY <1>4 DEF TrashSystem
  <2> QED BY <1>1, <2>1, <2>2, <2>3
<1>5. ASSUME NEW t \in Tabs, GoTab(t) PROVE CalmInv'
  BY <1>2, <1>5 DEF GoTab
<1>6. ASSUME NEW h \in Host, PickHost(h) \/ TrashHost(h) PROVE CalmInv'
  BY <1>2, <1>6 DEF PickHost, TrashHost
<1>7. ASSUME NEW b \in BOOLEAN, TypeKeyword(b) PROVE CalmInv'
  BY <1>2, <1>7 DEF TypeKeyword
<1> QED BY <1>3, <1>4, <1>5, <1>6, <1>7

LEMMA DestinationEditCalm ==
    ASSUME Inv, CalmInv,
           \/ \E t \in systems.tgt : RepTrash(t)
           \/ \E b \in BOOLEAN : SetProcessor(b) \/ SetFreq(b)
           \/ UseGfs
           \/ \E d \in Host : ChooseDest(d)
           \/ \E vms \in SUBSET System : ChooseSystems(vms)
           \/ \E v \in System : ChooseSystem(v)
           \/ AddRepSrc \/ AddRestSrc
    PROVE CalmInv'
<1>1. ASSUME NEW kinds \in SUBSET Kinds, Act(kinds), UNCHANGED flight,
             systems'.disks = systems.disks,
             CalmPage => SystemOrLoaded(systems'.tgt),
             page.kind = "restore" /\ CalmPage /\ choice'.vers \in System
                => choice'.vms \subseteq {choice'.vers},
             gfs' = gfs \/ (gfs'.set /\ page.kind # "restore")
      PROVE CalmInv'
  <2>1. PICK asked \in {{}} : flight' = flight \cup asked
    BY <1>1
  <2> QED BY <1>1, <2>1, ActCalm
<1>2. ASSUME NEW kinds \in SUBSET Kinds, Act(kinds), UNCHANGED <<flight, systems>>,
             \/ choice' = choice \/ page.kind # "restore"
             \/ (choice'.vms = choice.vms /\ choice'.vers = choice.vers),
             gfs' = gfs \/ (gfs'.set /\ page.kind # "restore")
      PROVE CalmInv'
  BY <1>1, <1>2 DEF CalmPage, ChoiceOwn
<1>3. ASSUME NEW t \in systems.tgt, RepTrash(t) PROVE CalmInv'
  <2>1. systems'.disks = systems.disks /\ systems'.tgt = systems.tgt \ {t}
    BY <1>3 DEF RepTrash, Inv, FormType
  <2>2. CalmPage => SystemOrLoaded(systems'.tgt)
    BY <2>1 DEF CalmPage, SystemOrLoaded
  <2> QED BY <1>1, <1>3, <2>1, <2>2, KindsAre DEF RepTrash, CalmPage, ChoiceOwn
<1>4. ASSUME NEW b \in BOOLEAN, SetProcessor(b) \/ SetFreq(b) PROVE CalmInv'
  BY <1>2, <1>4, KindsAre DEF SetProcessor, SetFreq
<1>5. CASE UseGfs
  <2>1. gfs'.set /\ page.kind # "restore"
    BY <1>5, ActStep DEF UseGfs, Inv, FormType
  <2> QED BY <1>2, <1>5, <2>1, KindsAre DEF UseGfs
<1>6. ASSUME NEW d \in Host, ChooseDest(d) PROVE CalmInv'
  <2>1. choice'.vms = choice.vms /\ choice'.vers = choice.vers
    BY <1>6 DEF ChooseDest, Inv, FormType
  <2> QED BY <1>2, <1>6, <2>1, KindsAre DEF ChooseDest
<1>7. ASSUME NEW vms \in SUBSET System, ChooseSystems(vms) PROVE CalmInv'
  <2>1. page.kind # "restore"
    BY <1>7, ActStep DEF ChooseSystems
  <2> QED BY <1>2, <1>7, <2>1, KindsAre DEF ChooseSystems
<1>8. ASSUME NEW v \in System, ChooseSystem(v) PROVE CalmInv'
  <2>1. choice'.vms = {v} /\ choice'.vers \notin System
    BY <1>8, EditorAssumption DEF ChooseSystem, Inv, FormType
  <2>2. PICK asked : flight' = flight \cup asked /\ asked = {List("versions", v)}
    BY <1>8 DEF ChooseSystem
  <2>3. /\ \A r \in asked : r.call = "versions"
        /\ \A w \in System : List("disks", w) \notin asked
        /\ \A w \in System : List("versions", w) \in asked => w = v
    BY <2>2, ListFields
  <2>4. CalmPage => SystemOrLoaded(systems'.tgt)
    BY <1>8 DEF ChooseSystem, CalmPage
  <2>5. {"restore"} \in SUBSET Kinds /\ Act({"restore"}) /\ gfs' = gfs /\ systems' = systems
    BY <1>8, KindsAre DEF ChooseSystem
  <2> QED BY <2>1, <2>2, <2>3, <2>4, <2>5, ActCalm
<1>9. CASE AddRepSrc
  <2>1. /\ systems'.disks = systems.disks
        /\ systems'.tgt = systems.tgt \cup NewTargets(choice.vms, None)
    BY <1>9 DEF AddRepSrc, Inv, FormType
  <2>2. \A t \in NewTargets(choice.vms, None) : t.ver = None
    BY DEF NewTargets
  <2>3. CalmPage => SystemOrLoaded(systems'.tgt)
    BY <2>1, <2>2 DEF CalmPage, SystemOrLoaded
  <2>4. page.kind # "restore"
    BY <1>9, ActStep DEF AddRepSrc
  <2> QED BY <1>1, <1>9, <2>1, <2>3, <2>4, KindsAre DEF AddRepSrc
<1>10. CASE AddRestSrc
  <2>0. page.kind = "restore" /\ {"restore"} \in SUBSET Kinds
    BY <1>10, ActStep, KindsAre DEF AddRestSrc
  <2>1. /\ systems'.disks = systems.disks
        /\ systems'.tgt = systems.tgt \cup NewTargets(choice.vms, Version)
        /\ choice'.vers = Empty
    BY <1>10 DEF AddRestSrc, Inv, FormType
  <2>2. ASSUME CalmPage PROVE SystemOrLoaded(systems'.tgt)
    <3>1. \A v \in choice.vms : Version \in {v, None}
      BY <2>0, <2>2 DEF CalmPage, ChoiceOwn, Version
    <3>2. \A t \in NewTargets(choice.vms, Version) : t.ver \in {t.vm, None}
      BY <3>1 DEF NewTargets
    <3> QED BY <2>1, <2>2, <3>2 DEF CalmPage, SystemOrLoaded
  <2>3. PICK asked : flight' = flight \cup asked /\ asked = {List("versions", None)}
    BY <1>10 DEF AddRestSrc
  <2>4. /\ \A r \in asked : r.call = "versions"
        /\ \A w \in System : List("disks", w) \notin asked /\ List("versions", w) \notin asked
    BY <2>3, ListFields, EditorAssumption
  <2>5. Act({"restore"}) /\ gfs' = gfs
    BY <1>10 DEF AddRestSrc
  <2> QED BY <2>0, <2>1, <2>2, <2>3, <2>4, <2>5, ActCalm, EditorAssumption
<1> QED BY <1>3, <1>4, <1>5, <1>6, <1>7, <1>8, <1>9, <1>10

LEMMA SaveCalm ==
    ASSUME Inv, CalmInv, saveScheduleBackup \/ saveScheduleRep \/ saveScheduleRestore
    PROVE CalmInv'
<1>1. ASSUME NEW job, job.kind \in Kinds, job.targets = systems.tgt,
             job.kind = "restore" => job.policy = 0, Save(job)
      PROVE CalmInv'
  <2>1. PICK asked :
           /\ flight' = flight \cup asked
           /\ asked = {[call |-> "save", id |-> page.job, job |-> job,
                        calm |-> ~haste /\ Pending = {}, asLoaded |-> gfs.listed /\ ~gfs.set]}
    BY <1>1 DEF Save
  <2>2. /\ Act({job.kind}) /\ {job.kind} \in SUBSET Kinds /\ page.kind = job.kind
        /\ systems' = systems /\ choice' = choice /\ gfs' = gfs
    BY <1>1, ActStep DEF Save
  <2>3. \A r \in asked : r.call = "save" /\ r.id = page.job /\ r.job = job
    BY <2>1
  <2>4. \A v \in System : List("disks", v) \notin asked /\ List("versions", v) \notin asked
    BY <2>3, ListFields
  <2> QED BY <1>1, <2>1, <2>2, <2>3, <2>4, ActCalm DEF CalmPage, ChoiceOwn
<1>2. CASE saveScheduleBackup
  BY <1>1, <1>2, KindsAre DEF saveScheduleBackup
<1>3. CASE saveScheduleRep
  BY <1>1, <1>3, KindsAre DEF saveScheduleRep
<1>4. CASE saveScheduleRestore
  BY <1>1, <1>4, KindsAre DEF saveScheduleRestore
<1> QED BY <1>2, <1>3, <1>4

LEMMA NewCalm ==
    ASSUME Inv, CalmInv, createNewBackup \/ createNewRestore \/ createNewReplicate
    PROVE CalmInv'
<1>2. ASSUME NEW kind \in Kinds, NewPage(kind), systems'.tgt = {},
             \A v \in System : systems'.disks[v] <= 1, choice'.vers = Empty,
             Retention(FALSE),
             flight' \subseteq Kept \cup {List("sources", kind), List("gfs", None)}
      PROVE CalmInv'
  <2>1. SystemOrLoaded(systems.tgt)'
    BY <1>2 DEF SystemOrLoaded
  <2>2. /\ setupPage(kind, None, page.no + 1) /\ UNCHANGED server
        /\ None \in JobId \cup {None} /\ FALSE \in BOOLEAN
    BY <1>2 DEF NewPage
  <2>3. PICK asked : /\ flight' \subseteq Kept \cup asked
                     /\ asked = {List("sources", kind), List("gfs", None)}
    BY <1>2
  <2>4. \A r \in asked : r.call \in {"sources", "hosts", "gfs"}
    BY <2>3, ListFields
  <2> QED BY <1>2, <2>1, <2>2, <2>3, <2>4, OpenCalm
<1>3. CASE createNewBackup
  <2>1. systems'.tgt = {} /\ \A v \in System : systems'.disks[v] <= 1
    BY <1>3 DEF createNewBackup, renderBackupPanel
  <2> QED BY <1>2, <1>3, <2>1, KindsAre DEF createNewBackup, renderBackupPanel
<1>4. CASE createNewRestore
  <2>1. systems'.tgt = {} /\ \A v \in System : systems'.disks[v] <= 1
    BY <1>4 DEF createNewRestore, renderRestorePanel, NoDisks
  <2> QED BY <1>2, <1>4, <2>1, KindsAre DEF createNewRestore, renderRestorePanel
<1>5. CASE createNewReplicate
  <2>1. systems'.tgt = {} /\ \A v \in System : systems'.disks[v] <= 1
    BY <1>5 DEF createNewReplicate, renderReplicatePanel, NoDisks
  <2> QED BY <1>2, <1>5, <2>1, KindsAre DEF createNewReplicate, renderReplicatePanel
<1> QED BY <1>3, <1>4, <1>5

LEMMA EditCalm ==
    ASSUME Inv, CalmInv, NEW r \in flight, AnswerSchedule(r),
           ~(flight' = flight \ {r} /\ UNCHANGED formVars)
    PROVE CalmInv'
<1>0. PICK j \in getSchedule(server[r.id]) :
      /\ r.id \in JobId /\ UNCHANGED server
      /\ setupPage(j.kind, r.id, page.no + 1)
      /\ \/ j.kind = "backup" /\ editBackupSchedule(r, j)
         \/ j.kind = "restore" /\ editRestSchedule(r, j)
         \/ j.kind = "replicate" /\ editRepSchedule(r, j)
  BY Requests DEF AnswerSchedule
<1>01. j.kind \in Kinds
  BY <1>0, KindsAre
<1>02. /\ j.kind = server[r.id].kind /\ j.targets \subseteq server[r.id].targets
       /\ j.kind = "backup" => j.gfs = server[r.id].gfs
  BY <1>0, <1>01, AnsweredJob
<1>1. ASSUME NEW use \in BOOLEAN, Retention(use), choice'.vers = Empty,
             j.kind = "backup" => (use = (j.gfs # None)),
             systems'.tgt = j.targets, \A v \in System : systems'.disks[v] <= 1,
             flight' \subseteq Kept \cup {List("sources", j.kind), List("gfs", j.gfs),
                                          List("hosts", None)}
      PROVE CalmInv'
  <2>1. j.kind \in Kinds /\ r.id \in JobId \cup {None} /\ r.id # None
    BY <1>0, EditorAssumption, KindsAre
  <2>2. page'.job = r.id
    BY <1>0 DEF setupPage
  <2>3. SystemOrLoaded(systems.tgt)'
    BY <1>0, <1>02, <1>1, <2>1, <2>2 DEF SystemOrLoaded
  <2>4. PICK asked : /\ flight' \subseteq Kept \cup asked
                     /\ asked = {List("sources", j.kind), List("gfs", j.gfs),
                                 List("hosts", None)}
    BY <1>1
  <2>5. /\ \A q \in asked : q.call \in {"sources", "hosts", "gfs"}
        /\ \A q \in asked : q.call = "gfs" => q.arg = j.gfs
    BY <2>4, ListFields
  <2>6. \/ j.kind # "backup" \/ r.id = None
        \/ /\ use = (server[r.id].gfs # None)
           /\ \A q \in asked : q.call = "gfs" => q.arg = server[r.id].gfs
    BY <1>02, <1>1, <2>5
  <2> QED BY <1>0, <1>02, <1>1, <2>1, <2>3, <2>4, <2>5, <2>6, OpenCalm
<1>2. CASE j.kind = "backup" /\ editBackupSchedule(r, j)
  <2>1. systems'.tgt = j.targets /\ \A v \in System : systems'.disks[v] <= 1
    BY <1>2 DEF editBackupSchedule, renderBackupPanel
  <2>2. flight' \subseteq Kept \cup {List("sources", j.kind), List("gfs", j.gfs),
                                     List("hosts", None)}
    BY <1>2 DEF editBackupSchedule
  <2>3. (j.gfs # None) \in BOOLEAN
    OBVIOUS
  <2>4. choice'.vers = Empty /\ Retention(j.gfs # None)
    BY <1>2 DEF editBackupSchedule, renderBackupPanel
  <2> QED BY <1>1, <2>1, <2>2, <2>3, <2>4
<1>3. CASE j.kind = "restore" /\ editRestSchedule(r, j)
  <2>1. systems'.tgt = j.targets /\ \A v \in System : systems'.disks[v] <= 1
    BY <1>3 DEF editRestSchedule, renderRestorePanel, NoDisks
  <2>2. flight' \subseteq Kept \cup {List("sources", j.kind), List("gfs", j.gfs),
                                     List("hosts", None)}
    BY <1>3 DEF editRestSchedule
  <2>4. choice'.vers = Empty /\ Retention(FALSE) /\ FALSE \in BOOLEAN
    BY <1>3 DEF editRestSchedule, renderRestorePanel
  <2> QED BY <1>1, <1>3, <2>1, <2>2, <2>4
<1>4. CASE j.kind = "replicate" /\ editRepSchedule(r, j)
  <2>1. systems'.tgt = j.targets /\ \A v \in System : systems'.disks[v] <= 1
    BY <1>4 DEF editRepSchedule, renderReplicatePanel, NoDisks
  <2>2. flight' \subseteq Kept \cup {List("sources", j.kind), List("gfs", j.gfs),
                                     List("hosts", None)}
    BY <1>4 DEF editRepSchedule
  <2>3. PICK use \in BOOLEAN : use = (j.gfs # None /\ j.cbt)
    OBVIOUS
  <2>4. choice'.vers = Empty /\ Retention(use)
    BY <1>4, <2>3 DEF editRepSchedule, renderReplicatePanel
  <2> QED BY <1>1, <1>4, <2>1, <2>2, <2>3, <2>4
<1> QED BY <1>0, <1>2, <1>3, <1>4

(* Answers that leave the page and what it is about.                         *)
LEMMA AnswerCalm ==
    ASSUME CalmInv, UNCHANGED <<page, haste, server>>, NEW more,
           flight' \subseteq flight \cup more,
           \A r \in more : r.call \in {"schedule", "run", "jobs"},
           systems'.tgt = systems.tgt,
           DisksFit => DisksFit', ChoiceOwn => ChoiceOwn', RetentionFits => RetentionFits'
    PROVE CalmInv'
<1>1. \A r \in flight' : r \in flight \/ r.call # "save"
  OBVIOUS
<1>2. RestorePolicy' /\ JobThere'
  BY <1>1 DEF CalmInv, RestorePolicy, JobThere
<1>3. SavedHere => SavedHere'
  BY <1>1 DEF SavedHere
<1>4. SystemOrLoaded(systems.tgt) => SystemOrLoaded(systems.tgt)'
  BY DEF SystemOrLoaded
<1> QED BY <1>2, <1>3, <1>4 DEF CalmInv, CalmPage

(* What is on the page stays, and fewer lists are asked for.                 *)
LEMMA LessAsked ==
    ASSUME UNCHANGED <<page, server>>, NEW more, flight' \subseteq flight \cup more,
           \A r \in more : r.call \in {"schedule", "run", "jobs"}
    PROVE /\ systems'.disks = systems.disks /\ DisksFit => DisksFit'
          /\ UNCHANGED choice /\ ChoiceOwn => ChoiceOwn'
          /\ UNCHANGED gfs /\ RetentionFits => RetentionFits'
<1>1. \A r \in flight' : r \in flight \/ r.call \notin ListCalls
  BY DEF ListCalls
<1>2. \A call \in ListCalls : \A arg :
         List(call, arg) \in flight' => List(call, arg) \in flight
  BY <1>1, ListFields
<1>3. {"disks", "versions", "sources", "gfs"} \subseteq ListCalls
  BY DEF ListCalls
<1>4. systems'.disks = systems.disks /\ DisksFit => DisksFit'
  BY <1>2, <1>3 DEF DisksFit
<1>5. UNCHANGED choice /\ ChoiceOwn => ChoiceOwn'
  BY <1>2, <1>3 DEF ChoiceOwn
<1>6. \A r \in flight' : r.call = "gfs" => r \in flight
  BY <1>1, <1>3
<1>7. UNCHANGED gfs /\ RetentionFits => RetentionFits'
  <2> SUFFICES ASSUME UNCHANGED gfs, RetentionFits PROVE RetentionFits'
    OBVIOUS
  <2>1. \A job : KeepsRetention(job) => KeepsRetention(job)'
    BY <1>6 DEF KeepsRetention
  <2> QED BY <2>1 DEF RetentionFits
<1> QED BY <1>4, <1>5, <1>7

(* The list that was asked for fills its own place.                          *)
LEMMA SourcesCalm ==
    ASSUME Inv, CalmInv, NEW r \in flight, NEW ok \in BOOLEAN, AnswerSources(r, ok),
           UNCHANGED <<page, haste, server>>
    PROVE CalmInv'
<1> DEFINE listed == IF ok THEN System ELSE {}
<1>1. /\ UNCHANGED gfs /\ r.call = "sources"
      /\ \/ page.kind # "restore" /\ populateBackupSrc(r, listed)
         \/ page.kind # "restore" /\ populateRepSrc(r, listed)
         \/ r.arg = "restore" /\ populateRestSrc(r, listed)
         \/ UNCHANGED <<systems, choice>> /\ Done(r)
  BY DEF AnswerSources
<1> HIDE DEF listed
<1>2. PICK more \in {{}} : flight' \subseteq flight \cup more
  BY <1>1 DEF populateBackupSrc, populateRepSrc, populateRestSrc, Done
<1>3. systems'.tgt = systems.tgt
  BY <1>1 DEF populateBackupSrc, populateRepSrc, populateRestSrc, Inv, FormType
<1>4. RetentionFits => RetentionFits'
  BY <1>1, <1>2, LessAsked
<1>5. DisksFit => DisksFit'
  <2>1. CASE populateBackupSrc(r, listed)
    <3>1. \A v \in System : systems'.disks[v] \in {0, systems.disks[v]}
      BY <2>1 DEF populateBackupSrc, Inv, FormType
    <3> QED BY <1>2, <3>1 DEF DisksFit
  <2>2. CASE ~populateBackupSrc(r, listed)
    <3>1. systems'.disks = systems.disks
      BY <1>1, <2>2 DEF populateRepSrc, populateRestSrc, Inv, FormType
    <3> QED BY <1>2, <3>1, LessAsked
  <2> QED BY <2>1, <2>2
<1>6. ChoiceOwn => ChoiceOwn'
  <2>1. CASE page.kind # "restore"
    BY <2>1 DEF ChoiceOwn
  <2>2. CASE populateRestSrc(r, listed) /\ r.arg = "restore"
    <3>1. r = List("sources", "restore")
      BY <1>1, <2>2, Lists DEF ListCalls
    <3>2. choice'.vers = choice.vers
      BY <2>2 DEF populateRestSrc, Inv, FormType
    <3> QED BY <1>2, <2>2, <3>1, <3>2 DEF ChoiceOwn
  <2>3. CASE UNCHANGED choice
    BY <1>2, <2>3, LessAsked
  <2> QED BY <1>1, <2>1, <2>2, <2>3
<1> QED BY <1>2, <1>3, <1>4, <1>5, <1>6, AnswerCalm

LEMMA OtherListCalm ==
    ASSUME Inv, CalmInv, NEW r \in flight, NEW ok \in BOOLEAN,
           \/ populateSchedHosts(r, ok) \/ populateGfsOpts(r, ok)
           \/ populateRestVersions(r, ok) \/ populateDiskList(r, ok),
           UNCHANGED <<page, haste, server>>
    PROVE CalmInv'
<1>1. flight' = flight \ {r}
  BY DEF populateSchedHosts, populateGfsOpts, populateRestVersions, populateDiskList, Done
<1>2. PICK more \in {{}} : flight' \subseteq flight \cup more
  BY <1>1
<1>3. /\ UNCHANGED choice => (ChoiceOwn => ChoiceOwn')
      /\ UNCHANGED gfs => (RetentionFits => RetentionFits')
      /\ UNCHANGED systems => (DisksFit => DisksFit')
  BY <1>2, LessAsked
<1>4. CASE populateSchedHosts(r, ok)
  BY <1>2, <1>3, <1>4, AnswerCalm DEF populateSchedHosts
<1>5. CASE populateGfsOpts(r, ok)
  <2>1. ASSUME RetentionFits PROVE RetentionFits'
    <3>1. CASE gfs' = gfs
      BY <1>3, <2>1, <3>1
    <3>2. CASE page.kind # "restore"
      <4>1. /\ gfs'.use = gfs.use /\ gfs'.set = gfs.set
            /\ gfs' = gfs \/ gfs'.val = IF r.arg = None THEN First ELSE r.arg
        BY <1>5 DEF populateGfsOpts, Inv, FormType
      <4>2. ASSUME NEW job, KeepsRetention(job) PROVE KeepsRetention(job)'
        <5>1. r.arg = job.gfs
          BY <1>5, <4>2 DEF populateGfsOpts, KeepsRetention
        <5> QED BY <1>1, <4>1, <4>2, <5>1 DEF KeepsRetention
      <4> QED BY <2>1, <3>2, <4>1, <4>2 DEF RetentionFits
    <3> QED BY <1>5, <3>1, <3>2 DEF populateGfsOpts
  <2> QED BY <1>2, <1>3, <1>5, <2>1, AnswerCalm DEF populateGfsOpts
<1>6. CASE populateRestVersions(r, ok)
  <2>1. ASSUME ChoiceOwn PROVE ChoiceOwn'
    <3>1. r = List("versions", r.arg) /\ r.arg \in System \cup {None}
      BY <1>6, Lists, Requests DEF populateRestVersions, ListCalls
    <3>2. choice'.vms = choice.vms /\ choice'.vers \in {r.arg, None, choice.vers}
      BY <1>6 DEF populateRestVersions, Inv, FormType
    <3>3. page.kind = "restore" => choice'.vers \in {r.arg, None}
      BY <1>6 DEF populateRestVersions, Inv, FormType
    <3> QED BY <1>1, <2>1, <3>1, <3>2, <3>3, EditorAssumption DEF ChoiceOwn
  <2> QED BY <1>2, <1>3, <1>6, <2>1, AnswerCalm DEF populateRestVersions
<1>7. CASE populateDiskList(r, ok)
  <2>1. r = List("disks", r.arg) /\ r.arg \in System
    BY <1>7, Lists, Requests DEF populateDiskList, ListCalls
  <2>2. /\ systems'.tgt = systems.tgt
        /\ \A v \in System : v # r.arg => systems'.disks[v] = systems.disks[v]
        /\ systems.disks[r.arg] = 0 => systems'.disks[r.arg] = 1
    BY <1>7, <2>1 DEF populateDiskList, Inv, FormType
  <2>3. ASSUME DisksFit PROVE DisksFit'
    <3>1. systems.disks[r.arg] = 0
      BY <2>1, <2>3 DEF DisksFit
    <3>2. \A v \in System : List("disks", v) \in flight' => v # r.arg
      BY <1>1, <2>1
    <3> QED BY <1>1, <2>2, <2>3, <3>1, <3>2 DEF DisksFit
  <2> QED BY <1>2, <1>3, <1>7, <2>2, <2>3, AnswerCalm DEF populateDiskList
<1> QED BY <1>4, <1>5, <1>6, <1>7

(* A stored restore has the targets that its page still shows.               *)
LEMMA StoredCalm ==
    ASSUME Inv, CalmInv, NEW r \in flight, r.call = "save", r.job.kind = "restore",
           NEW i \in JobId, r.id = None \/ i = r.id,
           server' = [server EXCEPT ![i] = setSchedule(r.job)],
           UNCHANGED formVars,
           NEW more, flight' \subseteq flight \cup more,
           \A q \in more : q.call \in {"schedule", "run", "jobs"}
    PROVE CalmInv'
<1>1. \A q \in flight' : q \in flight \/ q.call \notin ListCalls \cup {"save"}
  BY DEF ListCalls
<1>2. RestorePolicy'
  BY <1>1 DEF CalmInv, RestorePolicy
<1>0. r.job \in Job /\ JobThere'
  <2>1. r.job \in Job /\ FitsOrHidden(r.job.targets) /\ OnceByKind(r.job)
    BY Requests DEF Inv, FlightInv, SaveRequest
  <2>2. setSchedule(r.job) \in Job
    BY <2>1, StoreStep
  <2>3. setSchedule(r.job) # NoJob
    BY <2>2, KindsAre DEF Job, NoJob
  <2> QED BY <2>1, <2>3 DEF CalmInv, JobThere, formVars, Inv, ServerType
<1>3. UNCHANGED <<page, systems, choice, gfs, haste>>
  BY DEF formVars
<1>4. \A call \in ListCalls : \A arg :
         List(call, arg) \in flight' => List(call, arg) \in flight
  BY <1>1, ListFields
<1>5. {"disks", "versions", "sources", "gfs"} \subseteq ListCalls
  BY DEF ListCalls
<1>6. DisksFit => DisksFit'
  BY <1>3, <1>4, <1>5 DEF DisksFit
<1>7. ASSUME CalmPage PROVE CalmPage'
  <2>1. r.id = page.job /\ page.kind = "restore" /\ r.job.targets = systems.tgt
    BY <1>7 DEF CalmPage, SavedHere
  <2>2. SavedHere'
    BY <1>1, <1>3, <1>7 DEF CalmPage, SavedHere
  <2>3. ChoiceOwn'
    BY <1>3, <1>4, <1>5, <1>7 DEF CalmPage, ChoiceOwn
  <2>4. RetentionFits'
    <3>1. setSchedule(r.job).kind = "restore"
      BY <1>0 DEF Job, setSchedule
    <3>2. page.job # None => server'[page.job].kind # "backup"
      BY <2>1, <3>1 DEF Inv, ServerType
    <3> QED BY <1>3, <1>7, <2>1, <3>2 DEF CalmPage, RetentionFits
  <2>5. SystemOrLoaded(systems.tgt)'
    <3> SUFFICES ASSUME NEW t \in systems.tgt, t.ver \notin {t.vm, None}
                 PROVE page.job # None /\ t \in server'[page.job].targets
      BY <1>3 DEF SystemOrLoaded
    <3>1. page.job # None /\ t \in server[page.job].targets /\ i = page.job
      BY <1>7, <2>1 DEF CalmPage, SystemOrLoaded
    <3>2. r.job.policy = 0
      BY DEF CalmInv, RestorePolicy
    <3>3. server'[i] = setSchedule(r.job)
      BY DEF Inv, ServerType
    <3>4. setSchedule(r.job).targets = {StoredTarget(u) : u \in systems.tgt}
      BY <1>0, <2>1, <3>2 DEF setSchedule, Job
    <3>5. t \in Target /\ t.sr \in {t.dest, None}
      BY <3>1 DEF CalmInv, JobThere, Inv, FormType, ServerInv, Fits
    <3>6. StoredTarget(t) = t
      BY <3>5, KindsAre DEF StoredTarget, Target
    <3> QED BY <3>1, <3>3, <3>4, <3>6
  <2> QED BY <2>2, <2>3, <2>4, <2>5 DEF CalmPage
<1> QED BY <1>0, <1>2, <1>3, <1>6, <1>7 DEF CalmInv

LEMMA AnswersCalm ==
    ASSUME Inv, CalmInv, NEW r \in flight, Answer(r)
    PROVE CalmInv'
<1>1. ASSUME UNCHANGED <<formVars, server>>, NEW more, flight' \subseteq flight \cup more,
             \A q \in more : q.call \in {"schedule", "run", "jobs"}
      PROVE CalmInv'
  <2>1. UNCHANGED <<page, systems, choice, gfs, haste>>
    BY <1>1 DEF formVars
  <2> QED BY <1>1, <2>1, LessAsked, AnswerCalm
<1>2. ASSUME UNCHANGED <<formVars, server>>, flight' = flight \ {r} PROVE CalmInv'
  <2>1. PICK more \in {{}} : flight' \subseteq flight \cup more
    BY <1>2
  <2> QED BY <1>1, <1>2, <2>1
<1>3. CASE AnswerSchedule(r)
  BY <1>2, <1>3, EditCalm DEF AnswerSchedule
<1>4. CASE AnswerList(r)
  BY <1>4, SourcesCalm, OtherListCalm DEF AnswerList
<1>5. CASE AnswerSave(r)
  <2>1. CASE flight' = flight \ {r} /\ UNCHANGED <<formVars, server>>
    BY <1>2, <2>1
  <2>2. ASSUME NEW i \in JobId, r.id = None \/ i = r.id,
               server' = [server EXCEPT ![i] = setSchedule(r.job)], AfterSave(r, i)
        PROVE CalmInv'
    <3>1. CASE flight' = Kept \ {r} /\ drawSchedulesTable
      BY <3>1, BlankCalm DEF drawSchedulesTable
    <3>2. CASE /\ r.job.kind = "restore" /\ r.job.now
               /\ flight' = (flight \ {r}) \cup {[call |-> "run", id |-> i]}
               /\ UNCHANGED formVars
      <4>1. PICK more : /\ flight' \subseteq flight \cup more
                        /\ more = {[call |-> "run", id |-> i]}
        BY <3>2
      <4>2. \A q \in more : q.call = "run"
        BY <4>1
      <4> QED BY <1>5, <2>2, <3>2, <4>1, <4>2, StoredCalm DEF AnswerSave
    <3> QED BY <2>2, <3>1, <3>2 DEF AfterSave
  <2> QED BY <1>5, <2>1, <2>2 DEF AnswerSave
<1>6. CASE runSchedule(r)
  <2>1. PICK more : flight' \subseteq flight \cup more /\ more = {[call |-> "jobs"]}
    BY <1>6 DEF runSchedule
  <2>2. \A q \in more : q.call = "jobs"
    BY <2>1
  <2> QED BY <1>1, <1>6, <2>1, <2>2 DEF runSchedule
<1>7. CASE AnswerJobs(r)
  BY <1>7, BlankCalm DEF AnswerJobs
<1> QED BY <1>3, <1>4, <1>5, <1>6, <1>7 DEF Answer

LEMMA InitCalm == Init => CalmInv
  BY KindsAre, EditorAssumption
  DEF Init, CalmInv, RestorePolicy, JobThere, DisksFit, NoDisks, Kinds

LEMMA StepCalm == Inv /\ CalmInv /\ [Next]_vars => CalmInv'
<1> SUFFICES ASSUME Inv, CalmInv, [Next]_vars PROVE CalmInv'
  OBVIOUS
<1>1. CASE GoSchedules \/ handleEditSchedule
  BY <1>1, BlankCalm DEF GoSchedules, handleEditSchedule, drawSchedulesTable
<1>2. CASE createNewBackup \/ createNewRestore \/ createNewReplicate
  BY <1>2, NewCalm
<1>3. ASSUME NEW i \in JobId, ScheduleEdit(i) PROVE CalmInv'
  <2>1. PICK more : /\ flight' \subseteq flight \cup more
                    /\ more = {[call |-> "schedule", id |-> i]}
    BY <1>3 DEF ScheduleEdit
  <2>2. \A q \in more : q.call = "schedule"
    BY <2>1
  <2>3. UNCHANGED <<page, systems, choice, gfs, haste, server>>
    BY <1>3 DEF ScheduleEdit, formVars
  <2> QED BY <2>1, <2>2, <2>3, LessAsked, AnswerCalm
<1>4. CASE Edit
  BY <1>4, BackupEditCalm, DestinationEditCalm, SaveCalm DEF Edit
<1>5. ASSUME NEW r \in flight, Answer(r) PROVE CalmInv'
  BY <1>5, AnswersCalm
<1>6. CASE UNCHANGED vars
  BY <1>6 DEF vars, formVars, CalmInv, RestorePolicy, JobThere, DisksFit, CalmPage,
     SavedHere, SystemOrLoaded, ChoiceOwn, RetentionFits, KeepsRetention
<1> QED BY <1>1, <1>2, <1>3, <1>4, <1>5, <1>6 DEF Next, Open

(* A page that was given time to load is calm, and stays so until the user   *)
(* does not wait.                                                            *)
THEOREM CalmCorrect == Spec => [](Inv /\ CalmInv)
<1>1. Init => Inv /\ CalmInv
  BY InitInv, InitCalm
<1>2. Inv /\ CalmInv /\ [Next]_vars => (Inv /\ CalmInv)'
  BY StepInv, StepCalm
<1> QED BY <1>1, <1>2, PTL DEF Spec

(* The disks of a line are listed once if the user waits: a request for them *)
(* is on its way only while the line has none.                               *)
THEOREM DisksAreOnce == Spec => []DisksOnce
<1>1. CalmInv => DisksOnce
  BY DEF CalmInv, DisksFit, DisksOnce
<1> QED BY <1>1, CalmCorrect, PTL

(* Only a click on save sends a job.                                         *)
LEMMA AnswersAsk == ASSUME Inv, NEW r \in flight, Answer(r) PROVE Asks
<1>1. CASE AnswerSchedule(r)
  BY <1>1, EditStep
<1>2. CASE AnswerList(r)
  BY <1>2, SourcesStep, OtherListStep DEF AnswerList
<1>3. CASE AnswerSave(r)
  BY <1>3, AnswerSaveStep
<1>4. CASE runSchedule(r)
  BY <1>4 DEF runSchedule, Asks, JobsRequest
<1>5. CASE AnswerJobs(r)
  BY <1>5, KeptAsks DEF AnswerJobs
<1> QED BY <1>1, <1>2, <1>3, <1>4, <1>5 DEF Answer

LEMMA SentOnSave ==
    ASSUME Inv, [Next]_vars, NEW r \in Sent
    PROVE \E job : /\ job = r.job /\ r.id = page.job
                   /\ page.kind = job.kind /\ job.kind \in Kinds /\ ~haste
                   /\ job.targets = systems.tgt
                   /\ r.asLoaded = (gfs.listed /\ ~gfs.set)
                   /\ job.gfs = IF job.kind = "restore" THEN None ELSE RetentionSent
<1>0. r \in flight' /\ r \notin flight /\ r.call = "save" /\ r.calm
  BY DEF Sent
<1>1. ~Asks
  <2>1. \A q \in ListRequest \cup IdRequest \cup JobsRequest : q.call # "save"
    BY DEF ListRequest, IdRequest, JobsRequest
  <2> QED BY <1>0, <2>1 DEF Asks
<1>2. saveScheduleBackup \/ saveScheduleRep \/ saveScheduleRestore
  <2>1. CASE Open
    BY <1>1, <2>1, OpenStep
  <2>2. CASE Edit
    BY <1>1, <2>2, BackupEditStep, DestinationEditStep DEF Edit
  <2>3. ~\E q \in flight : Answer(q)
    BY <1>1, AnswersAsk
  <2>4. ~UNCHANGED vars
    BY <1>0 DEF vars
  <2> QED BY <2>1, <2>2, <2>3, <2>4 DEF Next
<1>3. ASSUME NEW job, Save(job), job.kind \in Kinds, job.targets = systems.tgt,
             job.gfs = IF job.kind = "restore" THEN None ELSE RetentionSent
      PROVE /\ job = r.job /\ r.id = page.job
            /\ page.kind = job.kind /\ job.kind \in Kinds /\ ~haste
            /\ job.targets = systems.tgt
            /\ r.asLoaded = (gfs.listed /\ ~gfs.set)
            /\ job.gfs = IF job.kind = "restore" THEN None ELSE RetentionSent
  <2>1. r = [call |-> "save", id |-> page.job, job |-> job,
             calm |-> ~haste /\ Pending = {}, asLoaded |-> gfs.listed /\ ~gfs.set]
    BY <1>0, <1>3 DEF Save
  <2>2. page.kind = job.kind
    BY <1>3, ActStep DEF Save
  <2> QED BY <1>0, <1>3, <2>1, <2>2
<1>4. CASE saveScheduleBackup
  <2>1. PICK job : /\ Save(job) /\ job.kind = "backup" /\ job.targets = systems.tgt
                   /\ job.gfs = RetentionSent
    BY <1>4 DEF saveScheduleBackup
  <2> QED BY <1>3, <2>1, KindsAre
<1>5. CASE saveScheduleRep
  <2>1. PICK job : /\ Save(job) /\ job.kind = "replicate" /\ job.targets = systems.tgt
                   /\ job.gfs = RetentionSent
    BY <1>5 DEF saveScheduleRep
  <2> QED BY <1>3, <2>1, KindsAre
<1>6. CASE saveScheduleRestore
  <2>1. PICK job : /\ Save(job) /\ job.kind = "restore" /\ job.targets = systems.tgt
                   /\ job.gfs = None
    BY <1>6 DEF saveScheduleRestore
  <2> QED BY <1>3, <2>1, KindsAre
<1> QED BY <1>2, <1>4, <1>5, <1>6

(* The retention of a backup that the user left alone is sent as it is.      *)
THEOREM RetentionIsKept == Spec => RetentionKept
<1> DEFINE Keeps ==
       \A r \in Sent :
          (r.asLoaded /\ r.id # None /\ server[r.id].kind = "backup")
          => r.job.gfs = server[r.id].gfs
<1>1. Inv /\ CalmInv /\ [Next]_vars => Keeps
  <2> SUFFICES ASSUME Inv, CalmInv, [Next]_vars, NEW r \in Sent, r.asLoaded, r.id # None,
                      server[r.id].kind = "backup"
               PROVE r.job.gfs = server[r.id].gfs
    OBVIOUS
  <2>1. /\ r.id = page.job /\ page.kind = r.job.kind /\ r.job.kind \in Kinds
        /\ ~haste /\ r.asLoaded = (gfs.listed /\ ~gfs.set)
        /\ r.job.gfs = IF r.job.kind = "restore" THEN None ELSE RetentionSent
    BY SentOnSave
  <2>2. gfs.listed /\ ~gfs.set
    BY <2>1
  <2>3. RetentionFits
    BY <2>1 DEF CalmInv, CalmPage
  <2>4. page.kind # "restore"
    BY <2>2, <2>3 DEF RetentionFits
  <2>5. KeepsRetention(server[r.id])
    BY <2>1, <2>2, <2>3, <2>4 DEF RetentionFits
  <2> QED BY <2>1, <2>2, <2>4, <2>5 DEF KeepsRetention, RetentionSent
<1>2. Spec => [][Keeps]_vars
  BY <1>1, CalmCorrect, PTL DEF Spec
<1> QED BY <1>2 DEF RetentionKept

(* No target that was put together here has a version of another system.     *)
THEOREM VersionIsOwn == Spec => OwnVersion
<1> DEFINE Owns ==
       \A r \in Sent : \A t \in r.job.targets :
          t.ver \in {t.vm, None} \/ (r.id # None /\ t \in server[r.id].targets)
<1>1. Inv /\ CalmInv /\ [Next]_vars => Owns
  <2> SUFFICES ASSUME Inv, CalmInv, [Next]_vars, NEW r \in Sent, NEW t \in r.job.targets
               PROVE t.ver \in {t.vm, None} \/ (r.id # None /\ t \in server[r.id].targets)
    OBVIOUS
  <2>1. /\ r.id = page.job /\ page.kind \in Kinds /\ ~haste /\ t \in systems.tgt
    BY SentOnSave
  <2> QED BY <2>1 DEF CalmInv, CalmPage, SystemOrLoaded
<1>2. Spec => [][Owns]_vars
  BY <1>1, CalmCorrect, PTL DEF Spec
<1> QED BY <1>2 DEF OwnVersion
=============================================================================
