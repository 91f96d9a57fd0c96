------------------------------- MODULE Console -------------------------------
(***************************************************************************)
(* The screens of the web console (src/webui/js/a3.js, events.js): which   *)
(* screen #dataTableDiv shows, the requests to the web service that are    *)
(* in flight, the timers that ask again, and the job log with its refresh  *)
(* loop.  JavaScript runs one callback at a time, so that a click, an      *)
(* answer and the tick of a timer are one action each.  Answers arrive in  *)
(* any order, and each runs its callback on whatever screen is shown then. *)
(***************************************************************************)
EXTENDS Naturals, FiniteSets

CONSTANTS
    Job,        \* jobs of the appliances that have a log to look at
    Site,       \* appliances (A3s) this console manages
    Menu,       \* the screens this user goes to
    Watched,    \* the parts of screens whose arrival an instance follows
    None,       \* no job and no site
    MaxClick,   \* bound: clicks of the user on a screen, a log or "cancel"
    Faults      \* "failed": the service answers with an error; "lost": it does not answer

ASSUME ConsoleAssumption ==
    /\ IsFiniteSet(Site)
    /\ None \notin Job \cup Site
    /\ MaxClick \in Nat
    /\ Faults \subseteq {"failed", "lost"}

Screens == {"dash", "jobsRun", "jobsHist", "schedules", "systems", "agents",
            "hosts", "insta", "abds", "backups", "vaults", "vmDetails", "a3s",
            "a3Details", "support", "subscription", "settings", "explorer",
            "joblog"}

(* What a draw function left behind: it ran to its end, it stopped for want *)
(* of data or of an A3, it threw after setupPage, or it waits for data.     *)
Stages == {"full", "empty", "noA3s", "error", "loading"}

(* The parts of a screen that a later answer fills in.                      *)
Parts == {"scheduleRows", "instaPart", "abdPart", "backupRows", "vaultRows", "vmHeader",
          "graph", "dashJobs", "alerts", "a3Settings", "minilog", "netUse",
          "gfsProfiles"}

Calls == Screens \cup Parts \cup {"metaA3s"}

(* A request remembers the click it serves, and one for a job log the       *)
(* status the job had when it was sent: the answer may be that old.         *)
Request ==
    [call : {"joblog"}, arg : Job, by : {0}, live : BOOLEAN] \cup
    [call : Calls \ {"joblog"}, arg : Site \cup {None}, by : 0..MaxClick, live : {FALSE}]

VARIABLES
    body,        \* the screen: its name, click, stage, and the job its log is of
    shown,       \* the parts of the screen that are filled in, with their site
    viewingJLD,  \* window.viewingJLD
    timer,       \* armed timers whose handle is kept: jobs list, job log, network use
    stray,       \* jobs with an armed log timer whose handle was overwritten
    flight,      \* requests without an answer yet
    a3Cache,     \* sessionStorage a3Cache: absent, [], or a list
    kept,        \* jobs whose finished log is in sessionStorage
    running,     \* jobs that have not ended
    noticed,     \* ended jobs that checkRunningJobs has seen
    asking,      \* the job of an open "Confirm Job Cancel?", or None
    clicks,      \* number of clicks so far
    logClick,    \* history: the last click that asked for a job log
    wanted       \* history: the job whose log it asked for

vars == <<body, shown, viewingJLD, timer, stray, flight, a3Cache, kept,
          running, noticed, asking, clicks, logClick, wanted>>

NoTimer == [jobs |-> FALSE, log |-> None, net |-> None]

Page(name, by, stage) ==
    [screen |-> name, by |-> by, stage |-> stage, job |-> None, live |-> FALSE]

TypeOK ==
    /\ body \in [screen : Screens, by : 0..MaxClick, stage : Stages,
                 job : Job \cup {None}, live : BOOLEAN]
    /\ shown \subseteq Parts \X (Site \cup {None})
    /\ viewingJLD \in BOOLEAN
    /\ timer \in [jobs : BOOLEAN, log : Job \cup {None}, net : Site \cup {None}]
    /\ stray \subseteq Job
    /\ flight \subseteq Request
    /\ a3Cache \in {"absent", "none", "some"}
    /\ kept \subseteq Job
    /\ running \subseteq Job
    /\ noticed \subseteq Job
    /\ asking \in Job \cup {None}
    /\ clicks \in 0..MaxClick
    /\ logClick \in 0..MaxClick
    /\ wanted \in Job \cup {None}
-----------------------------------------------------------------------------
(* Requests.  Two identical requests in flight are taken as one.            *)
Ask(call, arg, by) == [call |-> call, arg |-> arg, by |-> by, live |-> FALSE]

(* A request whose answer fills parts in belongs to no click.               *)
Fill(part, arg) == Ask(part, arg, 0)

FillPerSite(part) == {Fill(part, s) : s \in Site}

Followed(rs) == {r \in rs : r.call \in Parts => r.call \in Watched}

AskLog(j) == [call |-> "joblog", arg |-> j, by |-> 0, live |-> j \in running]

Send(rs) == flight' = flight \cup Followed(rs)

Receive(r, rs) == flight' = (flight \ {r}) \cup Followed(rs)

(* Where a draw function stops: an absent a3Cache makes checkNoA3s throw,   *)
(* and so does an error message that is read as if it were the data.        *)
checkNoA3s(outcome) ==
    CASE a3Cache = "absent" -> "error"
      [] a3Cache = "none"   -> "noA3s"
      [] OTHER              -> outcome

Outcomes == {"full", "empty"} \cup (IF "failed" \in Faults THEN {"error"} ELSE {})

(* Clear the timers and the screen; what the caller arms afterwards and     *)
(* what it sets viewingJLD to is passed in.                                 *)
clearTimer == timer' = NoTimer

(* faulty: the timers of the last screen go on *)
setupPageOnly(page, armed, viewing) ==
    /\ body' = page
    /\ shown' = {}
    /\ timer' = IF armed = NoTimer THEN timer ELSE armed
    /\ viewingJLD' = viewing

(* faulty: a log is still waited for *)
setupPageWaiting(page, armed, viewing) ==
    /\ body' = page
    /\ shown' = {}
    /\ timer' = armed
    /\ viewingJLD' = (viewing \/ viewingJLD)

setupPage(page, armed, viewing) ==
    /\ body' = page
    /\ shown' = {}
    /\ timer' = armed
    /\ viewingJLD' = viewing

Stay == UNCHANGED <<body, shown, viewingJLD, timer>>
-----------------------------------------------------------------------------
(* Clicks.  A menu entry sends a request and leaves the screen as it is, or *)
(* sets its screen up at once.                                              *)
Click ==
    /\ clicks < MaxClick
    /\ asking = None
    /\ clicks' = clicks + 1
    /\ UNCHANGED <<a3Cache, running, noticed, asking>>

Navigate(call, arg) ==
    /\ call \in Menu
    /\ Click
    /\ Send({Ask(call, arg, clicks + 1)})
    /\ Stay
    /\ UNCHANGED <<kept, stray, logClick, wanted>>

GoJobsRun      == Navigate("jobsRun", None)
GoJobsHist     == Navigate("jobsHist", None)
GoVms          == Navigate("systems", None)
GoAgents       == Navigate("agents", None)
GoHosts        == Navigate("hosts", None)
GoInsta        == Navigate("insta", None)
GoAbds         == Navigate("abds", None)
GoBackupHist   == Navigate("backups", None)
GoVaultHist    == Navigate("vaults", None)
ViewVmDetails  == /\ body.screen \in {"systems", "agents"}
                  /\ Navigate("vmDetails", None)
GoSettings     == Navigate("settings", None)
GoSubscription == Navigate("subscription", None)

(* The details of an appliance, from the list or from the dashboard; on an  *)
(* A3 that manages no others the menu leads there too.                      *)
GoA3Details(s) ==
    /\ body.screen \in {"a3s", "dash"} \/ a3Cache = "some"
    /\ Navigate("a3Details", s)

(* The backup explorer needs the first entry of a3Cache for its request.    *)
GoBackupExplorer == a3Cache = "some" /\ Navigate("explorer", None)

(* listA3s clears the timers of the present screen before it asks.          *)
GoA3s ==
    /\ "a3s" \in Menu
    /\ Click
    /\ Send({Ask("a3s", None, clicks + 1)})
    /\ clearTimer
    /\ UNCHANGED <<body, shown, viewingJLD, kept, stray, logClick, wanted>>

GoHelp ==
    /\ "support" \in Menu
    /\ Click
    /\ setupPage(Page("support", clicks + 1, "full"), NoTimer, FALSE)
    /\ UNCHANGED <<flight, kept, stray, logClick, wanted>>

(* drawDash: the screen at once, its data later.                            *)
GoDash ==
    /\ "dash" \in Menu
    /\ Click
    /\ setupPage(Page("dash", clicks + 1, "loading"), NoTimer, FALSE)
    /\ Send({Ask("dash", None, clicks + 1)})
    /\ UNCHANGED <<kept, stray, logClick, wanted>>

(* drawSchedulesTable: an empty table at once, its rows site by site.       *)
drawSchedulesTable ==
    LET stage == checkNoA3s("full")
    IN  /\ setupPage(Page("schedules", clicks + 1, stage), NoTimer, FALSE)
        /\ Send(IF stage = "full" THEN FillPerSite("scheduleRows") ELSE {})

GoSchedules ==
    /\ "schedules" \in Menu
    /\ Click
    /\ drawSchedulesTable
    /\ UNCHANGED <<kept, stray, logClick, wanted>>
-----------------------------------------------------------------------------
(* The job log.  The log of a job that ended is taken from sessionStorage   *)
(* and drawn in the same step; syncJoblog updates the log that is on the    *)
(* screen already, and any other screen is replaced.                        *)
JobLogPage(j, live) ==
    [screen |-> "joblog", by |-> 0, stage |-> "full", job |-> j, live |-> live]

OnScreen(j) == body.screen = "joblog" /\ body.job = j

doJLDRefreshOnce(j, live) == None          \* faulty: a log is not asked for again

(* Only a job that has not ended is asked for again.                        *)
doJLDRefresh(j, live) == IF live THEN j ELSE None

(* faulty: only a new log is refreshed *)
syncJoblogLast(j, live) ==
    /\ body' = [body EXCEPT !.live = live]
    /\ timer' = [timer EXCEPT !.log = None]
    /\ viewingJLD' = TRUE
    /\ UNCHANGED shown

syncJoblog(j, live) ==
    /\ body' = [body EXCEPT !.live = live]
    /\ timer' = [timer EXCEPT !.log = doJLDRefresh(j, live)]
    /\ viewingJLD' = TRUE
    /\ UNCHANGED shown

drawJoblog(j, live, viewing) ==
    \/ /\ ~viewing                              \* they clicked away
       /\ timer' = [timer EXCEPT !.log = None]
       /\ viewingJLD' = FALSE
       /\ UNCHANGED <<body, shown, kept>>
    \/ /\ viewing
       /\ kept' = IF live THEN kept ELSE kept \cup {j}
       /\ IF OnScreen(j)
          THEN syncJoblog(j, live)
          ELSE setupPage(JobLogPage(j, live),
                         [NoTimer EXCEPT !.log = doJLDRefresh(j, live)], TRUE)

(* The caller's timers are in armed: a tick has used its own up.            *)
getJobDetails(j, armed, viewing) ==
    \/ /\ j \in kept
       /\ drawJoblog(j, FALSE, viewing)
       /\ UNCHANGED flight
    \/ /\ j \notin kept
       /\ Send({AskLog(j)})
       /\ timer' = armed
       /\ viewingJLD' = viewing
       /\ UNCHANGED <<body, shown, kept>>

(* Lists of jobs link to their logs.                                        *)
GoJoblog(j) ==
    /\ body.screen \in {"jobsRun", "jobsHist", "dash", "a3Details", "backups",
                        "vmDetails"}
    /\ body.stage = "full"
    /\ Click
    /\ logClick' = clicks + 1
    /\ wanted' = j
    /\ getJobDetails(j, timer, TRUE)
    /\ UNCHANGED stray

(* The button "Cancel" of a live log asks first; the dialog covers the      *)
(* screen, which answers may replace meanwhile.                             *)
AskCancel ==
    /\ body.screen = "joblog" /\ body.live
    /\ clicks < MaxClick
    /\ asking = None
    /\ clicks' = clicks + 1
    /\ asking' = body.job
    /\ UNCHANGED <<body, shown, viewingJLD, timer, stray, flight, a3Cache,
                   kept, running, noticed, logClick, wanted>>

(* On "confirm" cancelJob starts another refresh: a timer that is armed     *)
(* already stays armed, and its handle is lost.                             *)
cancelJob ==
    /\ asking # None
    /\ stray' = stray \cup ({timer.log} \ {None})
    /\ timer' = [timer EXCEPT !.log = asking]
    /\ asking' = None
    /\ UNCHANGED <<body, shown, viewingJLD, flight, a3Cache, kept, running,
                   noticed, clicks, logClick, wanted>>

KeepAsking ==
    /\ asking # None
    /\ asking' = None
    /\ UNCHANGED <<body, shown, viewingJLD, timer, stray, flight, a3Cache,
                   kept, running, noticed, clicks, logClick, wanted>>

(* The refresh of the log, by the timer of the kept handle or by a stray one.*)
LogTick ==
    /\ timer.log # None
    /\ getJobDetails(timer.log, [timer EXCEPT !.log = None], viewingJLD)
    /\ UNCHANGED <<stray, a3Cache, running, noticed, asking, clicks, logClick, wanted>>

StrayTick(j) ==
    /\ j \in stray
    /\ stray' = stray \ {j}
    /\ getJobDetails(j, timer, viewingJLD)
    /\ UNCHANGED <<a3Cache, running, noticed, asking, clicks, logClick, wanted>>

(* The answer to a refresh shows the job as it was at some moment between   *)
(* the request and now; an error is reported and ends the refresh.          *)
AnswerJoblog(r) ==
    /\ r.call = "joblog"
    /\ Receive(r, {})
    /\ \/ \E live \in {r.live, r.arg \in running} :
             drawJoblog(r.arg, live, viewingJLD)
       \/ /\ "failed" \in Faults
          /\ Stay /\ UNCHANGED kept
    /\ UNCHANGED <<stray, a3Cache, running, noticed, asking, clicks, logClick, wanted>>
-----------------------------------------------------------------------------
(* Answers that draw a screen.  outcome is what the service sent: data, no  *)
(* entries, or an error.                                                    *)
Elsewhere == UNCHANGED <<stray, a3Cache, kept, running, noticed, asking, clicks,
                         logClick, wanted>>

Draw(r, name, stage, fills) ==
    /\ setupPage(Page(name, r.by, stage), NoTimer, FALSE)
    /\ Receive(r, IF stage = "full" THEN fills ELSE {})

(* An error has no onlyActive, so that even the list of running jobs fails  *)
(* as a job history, without a timer.                                       *)
drawJobsTable(r, outcome) ==
    LET act == r.call = "jobsRun" /\ outcome # "error"
    IN  /\ setupPage(Page(IF act THEN "jobsRun" ELSE "jobsHist", r.by, outcome),
                     [NoTimer EXCEPT !.jobs = act], FALSE)
        /\ Receive(r, {})

drawA3sTable(r, outcome) == Draw(r, "a3s", checkNoA3s(outcome), {})

drawAllSystemsTable(r, outcome) == Draw(r, "systems", checkNoA3s(outcome), {})

drawAgentsTable(r, outcome) == Draw(r, "agents", outcome, {})

drawHostsTable(r, outcome) == Draw(r, "hosts", checkNoA3s(outcome), {})

(* One placeholder per appliance, and a request for each.                   *)
drawInstaboots(r, outcome) ==
    Draw(r, "insta", checkNoA3s(outcome), FillPerSite("instaPart"))

drawABDsTable(r, outcome) ==
    Draw(r, "abds", checkNoA3s(outcome), FillPerSite("abdPart"))

(* setupBackupTable makes one table for the rows of all appliances.         *)
drawBackupsTable(r, outcome) ==
    Draw(r, r.call, checkNoA3s(outcome),
         FillPerSite(IF r.call = "backups" THEN "backupRows" ELSE "vaultRows"))

(* The header is asked for before the answer is looked at.                  *)
drawVmDetails(r, outcome) ==
    \E rows \in {"backupRows", "vaultRows"} :
        /\ setupPage(Page("vmDetails", r.by, outcome), NoTimer, FALSE)
        /\ Receive(r, {Fill("vmHeader", None)} \cup
                      (IF outcome = "full" THEN FillPerSite(rows) ELSE {}))

pollSysUseAsJob(armed, s) == [armed EXCEPT !.log = s]   \* faulty: the wrong handle

(* The details of an appliance poll its network use.                        *)
pollSysUse(armed, s) == [armed EXCEPT !.net = s]

drawA3Details(r, outcome) ==
    \/ /\ outcome = "error"
       /\ Receive(r, {})
       /\ Stay
    \/ /\ outcome = "full"
       /\ setupPage(Page("a3Details", r.by, "full"), pollSysUse(NoTimer, r.arg), FALSE)
       /\ Receive(r, {Fill("a3Settings", r.arg), Fill("graph", r.arg),
                      Fill("minilog", None)})

(* The dashboard replaces the body of whatever screen is shown: it does not *)
(* go through setupPage.  One A3, or a full node, has its network polled.   *)
drawDashInitial(r, outcome) ==
    \/ /\ outcome = "error"
       /\ Receive(r, {})
       /\ Stay
    \/ /\ outcome # "error"
       /\ body' = Page("dash", r.by, outcome)
       /\ shown' = {}
       /\ \E armed \in {timer} \cup {pollSysUse(timer, s) : s \in Site} :
             timer' = armed
       /\ UNCHANGED viewingJLD
       /\ Receive(r, {Fill("graph", None), Fill("dashJobs", None),
                      Fill("alerts", None)})

drawSubscription(r, outcome) == Draw(r, "subscription", outcome, {})

(* An error has no settings, and is found out before setupPage.             *)
drawSettings(r, outcome) ==
    IF outcome = "error" THEN Receive(r, {}) /\ Stay
    ELSE Draw(r, "settings", "full", {Fill("gfsProfiles", None)})

drawBackupExplorer(r, outcome) == Draw(r, "explorer", outcome, {})

AnswerScreen(r) ==
    /\ \E outcome \in Outcomes :
          \/ r.call \in {"jobsRun", "jobsHist"} /\ drawJobsTable(r, outcome)
          \/ r.call = "a3s" /\ drawA3sTable(r, outcome)
          \/ r.call = "systems" /\ drawAllSystemsTable(r, outcome)
          \/ r.call = "agents" /\ drawAgentsTable(r, outcome)
          \/ r.call = "hosts" /\ drawHostsTable(r, outcome)
          \/ r.call = "insta" /\ drawInstaboots(r, outcome)
          \/ r.call = "abds" /\ drawABDsTable(r, outcome)
          \/ r.call \in {"backups", "vaults"} /\ drawBackupsTable(r, outcome)
          \/ r.call = "vmDetails" /\ drawVmDetails(r, outcome)
          \/ r.call = "a3Details" /\ drawA3Details(r, outcome)
          \/ r.call = "dash" /\ drawDashInitial(r, outcome)
          \/ r.call = "subscription" /\ drawSubscription(r, outcome)
          \/ r.call = "settings" /\ drawSettings(r, outcome)
          \/ r.call = "explorer" /\ drawBackupExplorer(r, outcome)
    /\ Elsewhere
-----------------------------------------------------------------------------
(* Answers that fill a part of a screen.  They find their element by its    *)
(* id, on whatever screen has one of that id; without one nothing happens.  *)
Holds(part) ==
    CASE part = "scheduleRows" -> body.screen = "schedules" /\ body.stage = "full"
      [] part \in {"instaPart", "abdPart"} ->
            body.screen \in {"insta", "abds"} /\ body.stage = "full"
      [] part \in {"backupRows", "vaultRows"} ->
            /\ body.screen \in {"backups", "vaults", "vmDetails"}
            /\ body.stage = "full"
      [] part = "vmHeader" -> body.screen = "vmDetails"
      [] part \in {"dashJobs", "alerts"} ->
            body.screen = "dash" /\ body.stage # "loading"
      [] part \in {"graph", "netUse"} ->
            \/ body.screen = "dash" /\ body.stage # "loading"
            \/ body.screen = "a3Details"
      [] part \in {"a3Settings", "minilog"} -> body.screen = "a3Details"
      [] OTHER -> body.screen = "settings"

Put(part, s) == shown' = IF Holds(part) THEN shown \cup {<<part, s>>} ELSE shown

(* The element of an appliance holds one part, the last that was put in.    *)
Replace(part, s) ==
    shown' = IF Holds(part) THEN {p \in shown : p[2] # s} \cup {<<part, s>>}
             ELSE shown

(* An error is a message to the user; only the placeholders of InstaBoots   *)
(* and ABDs show it in their place.                                         *)
populateSchedules(r, ok) ==
    IF ok THEN Put("scheduleRows", r.arg) ELSE UNCHANGED shown

(* faulty: looks for an element without the number of its appliance *)
populateInstaboots(r, ok) == Replace("instaPart", None)

populateA3Instaboots(r, ok) == Replace("instaPart", r.arg)

populateA3ABDs(r, ok) == Replace("abdPart", r.arg)

populateBackupTable(r, ok) ==
    IF ok THEN Put("backupRows", r.arg) ELSE UNCHANGED shown

populateVaultTable(r, ok) ==
    IF ok THEN Put("vaultRows", r.arg) ELSE UNCHANGED shown

drawVmDetailHeader(r, ok) ==
    IF ok THEN Put("vmHeader", None) ELSE UNCHANGED shown

drawDashGraph(r, ok) == IF ok THEN Put("graph", r.arg) ELSE UNCHANGED shown

drawDashJobs(r, ok) == IF ok THEN Put("dashJobs", None) ELSE UNCHANGED shown

drawDashAlerts(r, ok) == IF ok THEN Put("alerts", None) ELSE UNCHANGED shown

assignA3Settings(r, ok) ==
    IF ok THEN Put("a3Settings", r.arg) ELSE UNCHANGED shown

updateMinilog(r, ok) == IF ok THEN Put("minilog", None) ELSE UNCHANGED shown

getA3NetUse(r, ok) == IF ok THEN Put("netUse", r.arg) ELSE UNCHANGED shown

gfsProfileList(r, ok) ==
    IF ok THEN Put("gfsProfiles", None) ELSE UNCHANGED shown

AnswerPart(r) ==
    /\ \E ok \in {TRUE, "failed" \notin Faults} :
          \/ r.call = "scheduleRows" /\ populateSchedules(r, ok)
          \/ r.call = "instaPart" /\ populateA3Instaboots(r, ok)
          \/ r.call = "abdPart" /\ populateA3ABDs(r, ok)
          \/ r.call = "backupRows" /\ populateBackupTable(r, ok)
          \/ r.call = "vaultRows" /\ populateVaultTable(r, ok)
          \/ r.call = "vmHeader" /\ drawVmDetailHeader(r, ok)
          \/ r.call = "graph" /\ drawDashGraph(r, ok)
          \/ r.call = "dashJobs" /\ drawDashJobs(r, ok)
          \/ r.call = "alerts" /\ drawDashAlerts(r, ok)
          \/ r.call = "a3Settings" /\ assignA3Settings(r, ok)
          \/ r.call = "minilog" /\ updateMinilog(r, ok)
          \/ r.call = "netUse" /\ getA3NetUse(r, ok)
          \/ r.call = "gfsProfiles" /\ gfsProfileList(r, ok)
    /\ Receive(r, {})
    /\ UNCHANGED <<body, viewingJLD, timer>>
    /\ Elsewhere
-----------------------------------------------------------------------------
(* Timers.  The list of running jobs is drawn again 5 s after it was drawn, *)
(* the network use every 2 s; a poll waits here for the answer to the last. *)
getActiveJobs ==
    /\ timer.jobs
    /\ timer' = [timer EXCEPT !.jobs = FALSE]
    /\ Send({Ask("jobsRun", None, body.by)})
    /\ UNCHANGED <<body, shown, viewingJLD>>
    /\ Elsewhere

NetTick ==
    /\ timer.net # None
    /\ Fill("netUse", timer.net) \notin flight
    /\ Send({Fill("netUse", timer.net)})
    /\ Stay
    /\ Elsewhere

(* checkRunningJobs, in the answer to the ribbon: a job has left the list.  *)
(* The job history is asked for again, and after a job that refreshed the   *)
(* meta data the caches are cleared and built again.                        *)
checkRunningJobs(j) ==
    /\ j \notin running \cup noticed
    /\ noticed' = noticed \cup {j}
    /\ \E clearCache \in BOOLEAN :
          /\ a3Cache' = IF clearCache THEN "absent" ELSE a3Cache
          /\ Send((IF body.screen = "jobsHist"
                   THEN {Ask("jobsHist", None, body.by)} ELSE {})
                  \cup (IF clearCache THEN {Fill("metaA3s", None)} ELSE {}))
    /\ Stay
    /\ UNCHANGED <<stray, kept, running, asking, clicks, logClick, wanted>>

(* buildMetaCaches gets the list of appliances.                             *)
AnswerMeta(r) ==
    /\ r.call = "metaA3s"
    /\ a3Cache' \in {IF Site = {} THEN "none" ELSE "some"} \cup
                    (IF "failed" \in Faults THEN {a3Cache} ELSE {})
    /\ Receive(r, {})
    /\ Stay
    /\ UNCHANGED <<stray, kept, running, noticed, asking, clicks, logClick, wanted>>

(* The environment: jobs end; a request times out, which calls nothing.     *)
JobEnds(j) ==
    /\ j \in running
    /\ running' = running \ {j}
    /\ Stay
    /\ UNCHANGED <<stray, flight, a3Cache, kept, noticed, asking, clicks, logClick, wanted>>

Lost(r) ==
    /\ "lost" \in Faults
    /\ Receive(r, {})
    /\ Stay
    /\ Elsewhere

(* checkCurrentSession: the dashboard, and the caches from nothing.         *)
Init ==
    /\ body = Page("dash", 0, "loading")
    /\ shown = {}
    /\ viewingJLD = FALSE
    /\ timer = NoTimer
    /\ stray = {}
    /\ flight = {Ask("dash", None, 0), Fill("metaA3s", None)}
    /\ a3Cache = "absent"
    /\ kept = {}
    /\ running = Job
    /\ noticed = {}
    /\ asking = None
    /\ clicks = 0
    /\ logClick = 0
    /\ wanted = None

User ==
    \/ GoJobsRun \/ GoJobsHist \/ GoVms \/ GoAgents \/ GoHosts \/ GoInsta
    \/ GoAbds \/ GoBackupHist \/ GoVaultHist \/ ViewVmDetails \/ GoSettings
    \/ GoSubscription \/ GoBackupExplorer \/ GoA3s \/ GoHelp \/ GoDash
    \/ GoSchedules
    \/ \E s \in Site : GoA3Details(s)
    \/ \E j \in Job : GoJoblog(j)
    \/ AskCancel \/ cancelJob \/ KeepAsking

Ticks == getActiveJobs \/ NetTick \/ LogTick \/ \E j \in Job : StrayTick(j)

Answer(r) == AnswerScreen(r) \/ AnswerJoblog(r) \/ AnswerPart(r) \/ AnswerMeta(r)

Next ==
    \/ User
    \/ Ticks
    \/ \E r \in flight : Answer(r) \/ Lost(r)
    \/ \E j \in Job : JobEnds(j) \/ checkRunningJobs(j)

Spec == Init /\ [][Next]_vars

(* The service answers everything that it is asked, and timers fire; what   *)
(* the user does, and when a job ends, is up to them.                       *)
IsPoll(r) == r.call \in {"joblog", "jobsRun", "jobsHist", "netUse"}

Fairness ==
    /\ WF_vars(\E r \in flight : ~IsPoll(r) /\ Answer(r))
    /\ \A j \in Job : WF_vars(\E r \in flight : r.arg = j /\ Answer(r))
    /\ \A j \in Job : WF_vars(StrayTick(j))
    /\ WF_vars(LogTick)

FairSpec == Spec /\ Fairness
-----------------------------------------------------------------------------
(* A timer belongs to the screen that armed it, or to one that the          *)
(* dashboard has painted over: setupPage clears what the last screen left.  *)
TimersBelong ==
    /\ timer.jobs => body.screen \in {"jobsRun", "dash"}
    /\ timer.net # None => body.screen \in {"a3Details", "dash"}

(* A log of a job that is shown as active is being refreshed: its timer is  *)
(* armed, or its request in flight; or the user's way to the list of A3s,   *)
(* whose click clears the timers, is.                                       *)
LiveLogPolled ==
    body.screen = "joblog" /\ body.live =>
        \/ body.job \in stray \cup {timer.log}
        \/ \E r \in flight : r.call \in {"joblog", "a3s"}
                             /\ (r.call = "joblog" => r.arg = body.job)

(* The late answer to a job log never takes the screen from a page that the *)
(* user asked for after the last click on a log.                            *)
LogNotStolen ==
    [][body'.screen = "joblog" /\ body.screen # "joblog"
          => logClick' > body.by]_vars

(* The log of a job that has ended comes to show that it has, or leaves the *)
(* screen: no order of answers stops its refresh or leaves an old one last. *)
LogShowsEnd ==
    \A j \in Job :
        (body.screen = "joblog" /\ body.job = j /\ j \notin running)
            ~> ~(body.screen = "joblog" /\ body.job = j /\ body.live)

(* The log that takes the screen is the one that was clicked last.          *)
LogIsWanted ==
    [][body'.screen = "joblog" /\ <<body'.screen, body'.job>> # <<body.screen, body.job>>
          => body'.job = wanted']_vars

(* "Loading ... details from ..." is replaced by what the appliance says.   *)
LoadingEnds ==
    \A s \in Site :
        (body.screen \in {"insta", "abds"} /\ body.stage = "full")
            ~> \/ body.screen \notin {"insta", "abds"} \/ body.stage # "full"
               \/ \E part \in {"instaPart", "abdPart"} : <<part, s>> \in shown
=============================================================================
