---------------------------- MODULE ScheduleEditor ----------------------------
(***************************************************************************)
(* The editor of scheduled jobs in the web console (src/webui/js/a3.js,    *)
(* events.js): pages that make or change a backup, a restore or a          *)
(* replication, the lists they ask the appliance for, and what setSchedule *)
(* (src/appliance/shared_lib) stores of what they send.  Answers find      *)
(* their element by its id on whatever page is shown when they come, so    *)
(* that the answer to a page that was left fills the next one.             *)
(***************************************************************************)
EXTENDS Naturals, FiniteSets

CONSTANTS
    System,     \* virtual machines with backups
    XenHost,    \* hosts whose storage is a list of SRs
    HyperV,     \* hosts whose storage is a path, by default their own
    Profile,    \* GFS profiles
    First,      \* the profile that the service lists first
    JobId,      \* numbers of scheduled jobs, used or not
    Initial,    \* the scheduled jobs at the start: a function on JobId
    None,
    MaxOpen,    \* bound: editor pages opened
    MaxAct,     \* bound: what the user does on them
    MaxLate,    \* bound: what he does in all when he opens a second one
    Faults      \* "failed": the appliance answers a request with an error

Host == XenHost \cup HyperV

Kinds == {"backup", "restore", "replicate"}

Tabs == {"manual", "keyword", "wholehost"}

(* A line of "Systems to protect", with its destination, the host its       *)
(* storage belongs to and the system its version is of; None is the line    *)
(* "Please wait, loading source systems..." or no choice.                   *)
Target == [vm : System \cup {None}, dest : Host \cup {None},
           sr : XenHost \cup {None}, ver : System \cup {None}]

(* A scheduled job: what saveSchedule... sends and setSchedule stores.      *)
Job == [kind : Kinds, policy : 0..2, targets : SUBSET Target, hosts : SUBSET Host,
        gfs : Profile \cup {None}, cbt : BOOLEAN, now : BOOLEAN]

NoJob == [kind |-> None]

(* The versions select: of a system, of none, with its placeholder, empty.  *)
Loading == "loading"
Empty   == "empty"

(* Each target has no storage or one of its own destination; and no system  *)
(* is a target twice.                                                       *)
Fits(targets) == \A t \in targets : t.sr \in {t.dest, None}

Once(targets) == \A t, u \in targets : t.vm = u.vm => t = u

ASSUME EditorAssumption ==
    /\ None \notin System \cup Host \cup Profile \cup JobId
    /\ Loading \notin System /\ Empty \notin System
    /\ None \notin Kinds
    /\ XenHost \cap HyperV = {}
    /\ First \in Profile
    /\ Initial \in [JobId -> Job \cup {NoJob}]
    /\ MaxOpen \in Nat /\ MaxAct \in Nat /\ MaxLate \in Nat
    /\ Faults \subseteq {"failed"}

(* The jobs that are there at the start were saved by an editor.            *)
ASSUME SavedAssumption ==
    \A i \in JobId : Initial[i] # NoJob =>
        /\ Fits(Initial[i].targets)
        /\ Initial[i].kind \in {"restore", "replicate"} => Once(Initial[i].targets)

VARIABLES
    page,      \* the page: its kind, the job it changes, its number
    systems,   \* source list, targets, and how often the disks of each are listed
    hosts,     \* whole hosts: source list and targets
    tabs,      \* tabs of the selection: the active one, the disabled ones
    keyword,   \* a keyword has been entered
    gfs,       \* retention: a profile is used, the one selected; the list has arrived,
               \* the user has set it
    choice,    \* restore and replicate: systems, destination, storage, versions
    opts,      \* restore: run immediately; replicate: CBT
    acts,      \* number of things done on pages so far
    haste,     \* history: the user did not wait for an answer before acting
    flight,    \* requests without an answer
    server,    \* the scheduled jobs of the appliance
    ran        \* history: jobs that the appliance was told to run

formVars == <<page, systems, hosts, tabs, keyword, gfs, choice, opts, acts, haste>>
vars == <<formVars, flight, server, ran>>

ListCalls == {"sources", "hosts", "gfs", "versions", "disks"}

List(call, arg) == [call |-> call, arg |-> arg]

ListRequest == [call : {"sources"}, arg : Kinds] \cup [call : {"hosts"}, arg : {None}]
               \cup [call : {"gfs"}, arg : Profile \cup {None}]
               \cup [call : {"versions"}, arg : System \cup {None}]
               \cup [call : {"disks"}, arg : System]
IdRequest   == [call : {"schedule", "run"}, id : JobId]
SaveRequest == [call : {"save"}, id : JobId \cup {None}, job : Job,
                calm : BOOLEAN, asLoaded : BOOLEAN]
JobsRequest == [call : {"jobs"}]

TypeOK ==
    /\ page \in [kind : Kinds \cup {"list", "new", "jobs"}, job : JobId \cup {None},
                 no : 0..MaxOpen]
    /\ systems \in [src : SUBSET (System \cup {None}), tgt : SUBSET Target,
                    disks : [System -> 0..2]]
    /\ hosts \in [src : SUBSET Host, tgt : SUBSET Host]
    /\ tabs \in [active : Tabs, disabled : SUBSET Tabs]
    /\ keyword \in BOOLEAN
    /\ gfs \in [use : BOOLEAN, val : Profile \cup {None}, listed : BOOLEAN, set : BOOLEAN]
    /\ choice \in [vms : SUBSET System, dest : Host \cup {None},
                   sr : XenHost \cup {None}, vers : System \cup {None, Loading, Empty}]
    /\ opts \in [now : BOOLEAN, cbt : BOOLEAN]
    /\ acts \in 0..MaxAct
    /\ haste \in BOOLEAN
    /\ flight \subseteq ListRequest \cup IdRequest \cup SaveRequest \cup JobsRequest
    /\ server \in [JobId -> Job \cup {NoJob}]
    /\ ran \subseteq JobId
-----------------------------------------------------------------------------
(* Pages.  setupPage throws the fields of the last page away.  Requests     *)
(* outlive it; those for the disks of a line are left out, since their      *)
(* answer goes to a line that is on no page any more.                       *)
Pending == {r \in flight : r.call \in ListCalls \cup {"save"}}

Kept == {r \in flight : r.call # "disks"}

NoDisks == [v \in System |-> 0]

setupPage(kind, job, no) ==
    /\ page' = [kind |-> kind, job |-> job, no |-> no]
    /\ haste' = (kind \in Kinds /\ Pending # {})
    /\ UNCHANGED acts

Retention(use) == gfs' = [use |-> use, val |-> None, listed |-> FALSE, set |-> FALSE]

(* The fields of a backup, and of the two kinds with destinations.  The     *)
(* CBT radio button is set on every new panel.                              *)
renderBackupPanel(tgt, targetHosts) ==
    /\ systems' = [src |-> {None}, tgt |-> tgt,
                   disks |-> [v \in System |-> IF \E t \in tgt : t.vm = v THEN 1 ELSE 0]]
    /\ hosts' = [src |-> {}, tgt |-> targetHosts]
    /\ choice' = [vms |-> {}, dest |-> None, sr |-> None, vers |-> Empty]
    /\ opts' = [now |-> FALSE, cbt |-> FALSE]

renderReplicatePanel(tgt, cbt) ==
    /\ systems' = [src |-> {}, tgt |-> tgt, disks |-> NoDisks]
    /\ hosts' = [src |-> {}, tgt |-> {}]
    /\ tabs' = [active |-> "manual", disabled |-> {}]
    /\ keyword' = FALSE
    /\ choice' = [vms |-> {}, dest |-> None, sr |-> None, vers |-> Empty]
    /\ opts' = [now |-> FALSE, cbt |-> cbt]

renderRestorePanel(tgt, now) ==
    /\ systems' = [src |-> {}, tgt |-> tgt, disks |-> NoDisks]
    /\ hosts' = [src |-> {}, tgt |-> {}]
    /\ tabs' = [active |-> "manual", disabled |-> {}]
    /\ keyword' = FALSE
    /\ choice' = [vms |-> {}, dest |-> None, sr |-> None, vers |-> Empty]
    /\ opts' = [now |-> now, cbt |-> FALSE]
    /\ Retention(FALSE)

BlankPage(kind) ==
    /\ setupPage(kind, None, page.no)
    /\ renderRestorePanel({}, FALSE)

(* The list of schedules, and the choice of a new job's type.               *)
drawSchedulesTable == BlankPage("list")

GoSchedules ==
    /\ page.kind # "list"
    /\ drawSchedulesTable
    /\ flight' = Kept
    /\ UNCHANGED <<server, ran>>

handleEditSchedule ==
    /\ page.kind = "list"
    /\ BlankPage("new")
    /\ flight' = Kept
    /\ UNCHANGED <<server, ran>>
-----------------------------------------------------------------------------
(* New jobs.                                                                *)
NewPage(kind) ==
    /\ page.kind = "new"
    /\ page.no < MaxOpen
    /\ page.no > 0 => acts < MaxLate
    /\ setupPage(kind, None, page.no + 1)
    /\ UNCHANGED <<server, ran>>

createNewBackup ==
    /\ NewPage("backup")
    /\ renderBackupPanel({}, {})
    /\ tabs' = [active |-> "manual", disabled |-> {}]
    /\ keyword' = FALSE
    /\ Retention(FALSE)
    /\ flight' = Kept \cup {List("sources", "backup"), List("gfs", None)}

createNewRestore ==
    /\ NewPage("restore")
    /\ renderRestorePanel({}, TRUE)
    /\ flight' = Kept \cup {List("sources", "restore")}

createNewReplicate ==
    /\ NewPage("replicate")
    /\ renderReplicatePanel({}, TRUE)
    /\ Retention(FALSE)
    /\ flight' = Kept \cup {List("sources", "replicate"), List("gfs", None)}

(* How the appliance answers for a job.  Only a backup comes with its       *)
(* retention; a replication never has the option that stands for one.  A    *)
(* system that was not found when its pool was last read is left out, and so*)
(* is a restore's without a version, or whose version has been deleted.     *)
Found(j, t) == t.vm # None /\ (j.kind = "restore" => t.ver # None)

getSchedule(j) ==
    {[j EXCEPT !.targets = found, !.gfs = IF j.kind = "backup" THEN @ ELSE None] :
        found \in SUBSET {t \in j.targets : Found(j, t)}}

(* Jobs of the list.  A restore that runs immediately is not listed.        *)
ScheduleEdit(i) ==
    /\ page.kind = "list"
    /\ server[i] # NoJob
    /\ ~(server[i].kind = "restore" /\ server[i].now)
    /\ flight' = flight \cup {[call |-> "schedule", id |-> i]}
    /\ UNCHANGED <<formVars, server, ran>>

(* A job by host or by keyword has the other tabs disabled, and lists its   *)
(* hosts; one with a selection of systems disables nothing.                 *)
editBackupSchedule(r, j) ==
    /\ renderBackupPanel(j.targets, j.hosts)
    /\ tabs' = CASE j.policy = 2 ->
                      [active |-> "keyword", disabled |-> {"wholehost", "manual"}]
                 [] j.policy = 1 ->
                      [active |-> "wholehost", disabled |-> {"keyword", "manual"}]
                 [] OTHER -> [active |-> "manual", disabled |-> {}]
    /\ keyword' = (j.policy = 2)
    /\ Retention(j.gfs # None)
    /\ flight' = (Kept \ {r}) \cup {List("sources", "backup"), List("gfs", j.gfs)} \cup
                 (IF j.policy = 1 THEN {List("hosts", None)} ELSE {})

editRestSchedule(r, j) ==
    /\ renderRestorePanel(j.targets, j.now)
    /\ flight' = (Kept \ {r}) \cup {List("sources", "restore"), List("gfs", j.gfs)}

(* The click that follows the tick of "use GFS" takes it off again, unless  *)
(* CBT has disabled the box.  The answer has no retention for a replication,*)
(* so that the box is off with CBT or without it.                           *)
editRepSchedule(r, j) ==
    /\ renderReplicatePanel(j.targets, j.cbt)
    /\ Retention(j.gfs # None /\ j.cbt)
    /\ flight' = (Kept \ {r}) \cup {List("sources", "replicate"), List("gfs", j.gfs)}

AnswerSchedule(r) ==
    /\ r.call = "schedule"
    /\ UNCHANGED <<server, ran>>
    /\ \/ /\ page.no < MaxOpen
          /\ page.no > 0 => acts < MaxLate
          /\ \E j \in getSchedule(server[r.id]) :
                /\ setupPage(j.kind, r.id, page.no + 1)
                /\ \/ j.kind = "backup" /\ editBackupSchedule(r, j)
                   \/ j.kind = "restore" /\ editRestSchedule(r, j)
                   \/ j.kind = "replicate" /\ editRepSchedule(r, j)
       \/ /\ "failed" \in Faults
          /\ flight' = flight \ {r}
          /\ UNCHANGED formVars
-----------------------------------------------------------------------------
(* What the user does on a page.  haste remembers that something was done   *)
(* before every answer had come.                                            *)
Act(kinds) ==
    /\ page.kind \in kinds
    /\ acts < MaxAct
    /\ page.no > 1 => acts < MaxLate
    /\ acts' = acts + 1
    /\ haste' = (haste \/ Pending # {})
    /\ UNCHANGED <<page, server, ran>>

Line(v) == [vm |-> v, dest |-> None, sr |-> None, ver |-> None]

(* The tabs of a backup.  A click on a source moves it to the targets, asks *)
(* for its disks unless they are listed, and disables the other tabs.       *)
GoTab(t) ==
    /\ Act({"backup"})
    /\ t \notin tabs.disabled
    /\ t # tabs.active
    /\ tabs' = [tabs EXCEPT !.active = t]
    /\ flight' = flight \cup (IF t = "wholehost" THEN {List("hosts", None)} ELSE {})
    /\ UNCHANGED <<systems, hosts, keyword, gfs, choice, opts>>

MustAskAlways(v) == v \in System          \* faulty: a line is asked about each time

MustAskDisks(v) == v \in System /\ systems.disks[v] = 0

PickSystem(v) ==
    /\ Act({"backup"})
    /\ tabs.active = "manual"
    /\ v \in systems.src
    /\ systems' = [systems EXCEPT !.src = @ \ {v}, !.tgt = @ \cup {Line(v)}]
    /\ tabs' = [tabs EXCEPT !.disabled = @ \cup {"keyword", "wholehost"}]
    /\ flight' = flight \cup (IF MustAskDisks(v) THEN {List("disks", v)} ELSE {})
    /\ UNCHANGED <<hosts, keyword, gfs, choice, opts>>

TrashSystem(t) ==
    /\ Act({"backup"})
    /\ tabs.active = "manual"
    /\ t \in systems.tgt
    /\ systems' = [systems EXCEPT !.src = @ \cup {t.vm}, !.tgt = @ \ {t}]
    /\ tabs' = [tabs EXCEPT !.disabled =
                   IF systems.tgt = {t} THEN @ \ {"keyword", "wholehost"} ELSE @]
    /\ UNCHANGED <<hosts, keyword, gfs, choice, opts, flight>>

PickHost(h) ==
    /\ Act({"backup"})
    /\ tabs.active = "wholehost"
    /\ h \in hosts.src
    /\ hosts' = [src |-> hosts.src \ {h}, tgt |-> hosts.tgt \cup {h}]
    /\ tabs' = [tabs EXCEPT !.disabled = @ \cup {"keyword", "manual"}]
    /\ UNCHANGED <<systems, keyword, gfs, choice, opts, flight>>

(* The trash can of a host is one of a system too: both handlers run, and   *)
(* the first finds no system among the targets.                             *)
TrashHost(h) ==
    /\ Act({"backup"})
    /\ tabs.active = "wholehost"
    /\ h \in hosts.tgt
    /\ hosts' = [src |-> hosts.src \cup {h}, tgt |-> hosts.tgt \ {h}]
    /\ tabs' = [tabs EXCEPT !.disabled =
                   @ \ ((IF systems.tgt = {} THEN {"keyword", "wholehost"} ELSE {})
                        \cup (IF hosts.tgt = {h} THEN {"keyword", "manual"} ELSE {}))]
    /\ UNCHANGED <<systems, keyword, gfs, choice, opts, flight>>

TypeKeyword(some) ==
    /\ Act({"backup"})
    /\ tabs.active = "keyword"
    /\ some # keyword
    /\ keyword' = some
    /\ tabs' = [tabs EXCEPT !.disabled =
                   IF some THEN @ \cup {"manual", "wholehost"}
                           ELSE @ \ {"manual", "wholehost"}]
    /\ UNCHANGED <<systems, hosts, gfs, choice, opts, flight>>

UseGfs ==
    /\ Act({"backup", "replicate"})
    /\ ~opts.cbt
    /\ gfs' = [gfs EXCEPT !.use = ~@, !.set = TRUE]
    /\ UNCHANGED <<systems, hosts, tabs, keyword, choice, opts, flight>>

SetProcessor(cbt) ==
    /\ Act({"replicate"})
    /\ cbt # opts.cbt
    /\ opts' = [opts EXCEPT !.cbt = cbt]
    /\ UNCHANGED <<systems, hosts, tabs, keyword, gfs, choice, flight>>

SetFreq(now) ==
    /\ Act({"restore"})
    /\ now # opts.now
    /\ opts' = [opts EXCEPT !.now = now]
    /\ UNCHANGED <<systems, hosts, tabs, keyword, gfs, choice, flight>>

(* Destinations.  A HyperV host hides the list of storages and leaves what  *)
(* it had.                                                                  *)
showSrsForUuid(d) == IF d \in HyperV THEN choice.sr ELSE d

ChooseDest(d) ==
    /\ Act({"restore", "replicate"})
    /\ d # choice.dest
    /\ choice' = [choice EXCEPT !.dest = d, !.sr = showSrsForUuid(d)]
    /\ UNCHANGED <<systems, hosts, tabs, keyword, gfs, opts, flight>>

ChooseSystems(vms) ==
    /\ Act({"replicate"})
    /\ vms \subseteq systems.src /\ vms # choice.vms
    /\ choice' = [choice EXCEPT !.vms = vms]
    /\ UNCHANGED <<systems, hosts, tabs, keyword, gfs, opts, flight>>

(* faulty: asks for the versions of what was selected before *)
ChooseSystemLate(v) ==
    /\ Act({"restore"})
    /\ v \in systems.src
    /\ choice.vms # {v}
    /\ choice' = [choice EXCEPT !.vms = {v}, !.vers = Loading]
    /\ flight' = flight \cup {List("versions", w) : w \in choice.vms}
    /\ UNCHANGED <<systems, hosts, tabs, keyword, gfs, opts>>

ChooseSystem(v) ==
    /\ Act({"restore"})
    /\ v \in systems.src
    /\ choice.vms # {v}
    /\ choice' = [choice EXCEPT !.vms = {v}, !.vers = Loading]
    /\ flight' = flight \cup {List("versions", v)}
    /\ UNCHANGED <<systems, hosts, tabs, keyword, gfs, opts>>

(* A version is what the select shows, its placeholder and "No backups      *)
(* found" included, both of which are version 0.                            *)
Version == IF choice.vers \in System THEN choice.vers ELSE None

(* faulty: a target may be added again *)
NewTargetsAgain(vms, ver) ==
    {[vm |-> v, dest |-> choice.dest, sr |-> choice.sr, ver |-> ver] : v \in vms}

NewTargets(vms, ver) ==
    {[vm |-> v, dest |-> choice.dest, sr |-> choice.sr, ver |-> ver] :
        v \in {w \in vms : \A t \in systems.tgt : t.vm # w}}

AddRepSrc ==
    /\ Act({"replicate"})
    /\ choice.dest # None
    /\ choice.vms # {}
    /\ systems' = [systems EXCEPT !.tgt = @ \cup NewTargets(choice.vms, None)]
    /\ choice' = [choice EXCEPT !.vms = {}, !.dest = None]
    /\ UNCHANGED <<hosts, tabs, keyword, gfs, opts, flight>>

(* The change to no system asks for its versions too.                       *)
AddRestSrc ==
    /\ Act({"restore"})
    /\ choice.dest # None
    /\ choice.vms # {}
    /\ choice.vers # Empty
    /\ systems' = [systems EXCEPT !.tgt = @ \cup NewTargets(choice.vms, Version)]
    /\ choice' = [choice EXCEPT !.vms = {}, !.dest = None, !.vers = Empty]
    /\ flight' = flight \cup {List("versions", None)}
    /\ UNCHANGED <<hosts, tabs, keyword, gfs, opts>>

RepTrash(t) ==
    /\ Act({"restore", "replicate"})
    /\ t \in systems.tgt
    /\ systems' = [systems EXCEPT !.tgt = @ \ {t}]
    /\ UNCHANGED <<hosts, tabs, keyword, gfs, choice, opts, flight>>
-----------------------------------------------------------------------------
(* Saving.  A keyword wins over systems, and systems win over hosts.        *)
Policy == CASE keyword -> 2
            [] ~keyword /\ systems.tgt = {} -> 1
            [] OTHER -> 0

RetentionSent == IF gfs.use THEN gfs.val ELSE None

Save(job) ==
    /\ Act({job.kind})
    /\ flight' = flight \cup {[call |-> "save", id |-> page.job, job |-> job,
                               calm |-> ~haste /\ Pending = {},
                               asLoaded |-> gfs.listed /\ ~gfs.set]}
    /\ UNCHANGED <<systems, hosts, tabs, keyword, gfs, choice, opts>>

saveScheduleBackup ==
    /\ keyword \/ systems.tgt # {} \/ hosts.tgt # {}
    /\ Save([kind |-> "backup", policy |-> Policy, targets |-> systems.tgt,
             hosts |-> IF systems.tgt = {} THEN hosts.tgt ELSE {},
             gfs |-> RetentionSent, cbt |-> FALSE, now |-> FALSE])

saveScheduleRep ==
    /\ systems.tgt # {}
    /\ Save([kind |-> "replicate", policy |-> 0, targets |-> systems.tgt, hosts |-> {},
             gfs |-> RetentionSent, cbt |-> opts.cbt, now |-> FALSE])

saveScheduleRestore ==
    /\ systems.tgt # {}
    /\ Save([kind |-> "restore", policy |-> 0, targets |-> systems.tgt, hosts |-> {},
             gfs |-> None, cbt |-> FALSE, now |-> opts.now])

StoredAsSent(t) == t                       \* faulty: the SR of another host is kept

(* What setSchedule stores: the selection of the job's policy only, and no  *)
(* SR for a HyperV host.                                                    *)
StoredTarget(t) == [t EXCEPT !.sr = IF t.dest \in HyperV THEN None ELSE @]

setSchedule(job) ==
    [job EXCEPT !.targets = IF job.policy = 0 THEN {StoredTarget(t) : t \in @} ELSE {},
                !.hosts = IF job.policy = 1 THEN @ ELSE {}]

AfterSaveList(r, i) ==                      \* faulty: a restore is not run
    /\ flight' = Kept \ {r}
    /\ drawSchedulesTable

(* A restore to run immediately is run and its page stays until the list of *)
(* running jobs is drawn; any other job leads to the list of schedules.  An *)
(* error leaves everything.                                                 *)
AfterSave(r, i) ==
    \/ /\ r.job.kind = "restore" /\ r.job.now
       /\ flight' = (flight \ {r}) \cup {[call |-> "run", id |-> i]}
       /\ UNCHANGED formVars
    \/ /\ ~(r.job.kind = "restore" /\ r.job.now)
       /\ flight' = Kept \ {r}
       /\ drawSchedulesTable

AnswerSave(r) ==
    /\ r.call = "save"
    /\ UNCHANGED ran
    /\ \/ \E i \in JobId :
             /\ IF r.id = None THEN server[i] = NoJob ELSE i = r.id
             /\ server' = [server EXCEPT ![i] = setSchedule(r.job)]
             /\ AfterSave(r, i)
       \/ /\ "failed" \in Faults
          /\ flight' = flight \ {r}
          /\ UNCHANGED <<formVars, server>>

runSchedule(r) ==
    /\ r.call = "run"
    /\ ran' = ran \cup {r.id}
    /\ flight' = (flight \ {r}) \cup {[call |-> "jobs"]}
    /\ UNCHANGED <<formVars, server>>

(* The list of running jobs takes the place of whatever page there is.      *)
AnswerJobs(r) ==
    /\ r.call = "jobs"
    /\ BlankPage("jobs")
    /\ flight' = Kept \ {r}
    /\ UNCHANGED <<server, ran>>
-----------------------------------------------------------------------------
(* Lists.  They are put where the page has a place for them; the sources of *)
(* backups and replications share an id but not their kind of entries.      *)
Done(r) == flight' = flight \ {r}

TargetSystems == {t.vm : t \in systems.tgt}

(* New lines take the place of the old ones, which keep their answers.      *)
populateBackupSrc(r, listed) ==
    /\ systems' = [systems EXCEPT !.src = IF page.kind = "backup" THEN listed ELSE {},
                      !.disks = [v \in System |-> IF v \in TargetSystems THEN @[v] ELSE 0]]
    /\ flight' = {q \in flight \ {r} : q.call = "disks" => q.arg \in TargetSystems}
    /\ choice' = [choice EXCEPT !.vms = {}]

populateRepSrc(r, listed) ==
    /\ systems' = [systems EXCEPT !.src = IF page.kind = "replicate" THEN listed ELSE {}]
    /\ choice' = [choice EXCEPT !.vms = {}]
    /\ Done(r)

(* The first entry is selected, which asks for no versions.                 *)
populateRestSrc(r, listed) ==
    /\ systems' = [systems EXCEPT !.src = listed]
    /\ \/ listed = {} /\ choice' = [choice EXCEPT !.vms = {}]
       \/ \E v \in listed : choice' = [choice EXCEPT !.vms = {v}]
    /\ Done(r)

AnswerSources(r, ok) ==
    LET listed == IF ok THEN System ELSE {}
    IN  /\ r.call = "sources"
        /\ \/ r.arg = "backup" /\ page.kind \in {"backup", "replicate"}
                               /\ populateBackupSrc(r, listed)
           \/ r.arg = "replicate" /\ page.kind \in {"backup", "replicate"}
                                  /\ populateRepSrc(r, listed)
           \/ r.arg = "restore" /\ page.kind = "restore" /\ populateRestSrc(r, listed)
           \/ /\ page.kind \notin (IF r.arg = "restore" THEN {"restore"}
                                  ELSE {"backup", "replicate"})
              /\ UNCHANGED <<systems, choice>>
              /\ Done(r)
        /\ UNCHANGED <<hosts, gfs>>

(* faulty: lists hosts that are targets *)
populateAllHosts(r, ok) ==
    /\ r.call = "hosts"
    /\ hosts' = IF page.kind = "backup"
                THEN [hosts EXCEPT !.src = IF ok THEN Host ELSE {}] ELSE hosts
    /\ Done(r)
    /\ UNCHANGED <<systems, gfs, choice>>

populateSchedHosts(r, ok) ==
    /\ r.call = "hosts"
    /\ hosts' = IF page.kind = "backup"
                THEN [hosts EXCEPT !.src = (IF ok THEN Host ELSE {}) \ hosts.tgt]
                ELSE hosts
    /\ Done(r)
    /\ UNCHANGED <<systems, gfs, choice>>

(* faulty: selects the first profile *)
populateGfsFirst(r, ok) ==
    /\ r.call = "gfs"
    /\ gfs' = IF ok /\ page.kind \in {"backup", "replicate"}
              THEN [gfs EXCEPT !.val = First, !.listed = TRUE] ELSE gfs
    /\ Done(r)
    /\ UNCHANGED <<systems, hosts, choice>>

(* An error ends in an exception, and the select keeps what it had.         *)
populateGfsOpts(r, ok) ==
    /\ r.call = "gfs"
    /\ gfs' = IF ok /\ page.kind \in {"backup", "replicate"}
              THEN [gfs EXCEPT !.val = IF r.arg = None THEN First ELSE r.arg,
                               !.listed = TRUE]
              ELSE gfs
    /\ Done(r)
    /\ UNCHANGED <<systems, hosts, choice>>

populateRestVersions(r, ok) ==
    /\ r.call = "versions"
    /\ choice' = IF page.kind = "restore"
                 THEN [choice EXCEPT !.vers = IF ok THEN r.arg ELSE None]
                 ELSE choice
    /\ Done(r)
    /\ UNCHANGED <<systems, hosts, gfs>>

(* Disks are added to those that the line has.                              *)
populateDiskList(r, ok) ==
    /\ r.call = "disks"
    /\ systems' = [systems EXCEPT !.disks[r.arg] =
                      IF @ = 0 THEN 1 ELSE IF ok THEN 2 ELSE @]
    /\ Done(r)
    /\ UNCHANGED <<hosts, gfs, choice>>

AnswerList(r) ==
    /\ \E ok \in {TRUE, "failed" \notin Faults} :
          \/ AnswerSources(r, ok)
          \/ populateSchedHosts(r, ok)
          \/ populateGfsOpts(r, ok)
          \/ populateRestVersions(r, ok)
          \/ populateDiskList(r, ok)
    /\ UNCHANGED <<page, tabs, keyword, opts, acts, haste, server, ran>>
-----------------------------------------------------------------------------
Init ==
    /\ page = [kind |-> "list", job |-> None, no |-> 0]
    /\ systems = [src |-> {}, tgt |-> {}, disks |-> NoDisks]
    /\ hosts = [src |-> {}, tgt |-> {}]
    /\ tabs = [active |-> "manual", disabled |-> {}]
    /\ keyword = FALSE
    /\ gfs = [use |-> FALSE, val |-> None, listed |-> FALSE, set |-> FALSE]
    /\ choice = [vms |-> {}, dest |-> None, sr |-> None, vers |-> Empty]
    /\ opts = [now |-> FALSE, cbt |-> FALSE]
    /\ acts = 0
    /\ haste = FALSE
    /\ flight = {}
    /\ server = Initial
    /\ ran = {}

Open ==
    \/ GoSchedules \/ handleEditSchedule
    \/ createNewBackup \/ createNewRestore \/ createNewReplicate
    \/ \E i \in JobId : ScheduleEdit(i)

Edit ==
    \/ \E t \in Tabs : GoTab(t)
    \/ \E v \in System \cup {None} : PickSystem(v)
    \/ \E t \in systems.tgt : TrashSystem(t) \/ RepTrash(t)
    \/ \E h \in Host : PickHost(h) \/ TrashHost(h)
    \/ \E b \in BOOLEAN : TypeKeyword(b) \/ SetProcessor(b) \/ SetFreq(b)
    \/ UseGfs
    \/ \E d \in Host : ChooseDest(d)
    \/ \E vms \in SUBSET System : ChooseSystems(vms)
    \/ \E v \in System : ChooseSystem(v)
    \/ AddRepSrc \/ AddRestSrc
    \/ saveScheduleBackup \/ saveScheduleRep \/ saveScheduleRestore

Answer(r) ==
    \/ AnswerSchedule(r) \/ AnswerList(r) \/ AnswerSave(r)
    \/ runSchedule(r) \/ AnswerJobs(r)

Next == Open \/ Edit \/ \E r \in flight : Answer(r)

Spec == Init /\ [][Next]_vars

(* The appliance gets what it is asked to run, sooner or later.             *)
FairSpec == Spec /\ WF_vars(\E r \in flight : runSchedule(r))
-----------------------------------------------------------------------------
(* Whatever list of hosts comes when, a host is a source or a target.       *)
HostOnce == hosts.src \cap hosts.tgt = {}

(* A system is restored or replicated once by a job, whatever the order in  *)
(* which it was added, removed and listed again.                            *)
TargetOnce ==
    page.kind \in {"restore", "replicate"} => Once(systems.tgt)

(* No job stores a system on a storage of another host than its destination:*)
(* the page may send one that its list of storages still has.               *)
StorageFits ==
    \A i \in JobId : server[i] # NoJob => Fits(server[i].targets)

(* The disks of a line are listed once, if the user waits for answers: a    *)
(* line that went back to the sources and is picked again is not asked for. *)
DisksOnce == haste \/ \A v \in System : systems.disks[v] <= 1

(* Changing a backup whose retention the user has left alone, on a page he  *)
(* gave time to load, sends the retention that the backup has.  (That of a  *)
(* replication is lost by any change: its editor is never told of it.)      *)
Sent == {r \in flight' \ flight : r.call = "save" /\ r.calm}

RetentionKept ==
    [][\A r \in Sent :
          (r.asLoaded /\ r.id # None /\ server[r.id].kind = "backup")
          => r.job.gfs = server[r.id].gfs]_vars

(* What is put together on a page that was given time to load has no        *)
(* version of another system, but for the targets that the changed job had. *)
OwnVersion ==
    [][\A r \in Sent : \A t \in r.job.targets :
          t.ver \in {t.vm, None} \/ (r.id # None /\ t \in server[r.id].targets)]_vars

(* A restore that is saved to run immediately is told to run, wherever the  *)
(* user goes: it is on no list that he could run it from.                   *)
NotRun(i) == /\ server[i] # NoJob
             /\ server[i].kind = "restore" /\ server[i].now
             /\ i \notin ran

RunNowRuns == (\E i \in JobId : NotRun(i)) ~> (\A i \in JobId : ~NotRun(i))
=============================================================================
