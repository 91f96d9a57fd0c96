---------------------------- MODULE ConsoleProofs ----------------------------
(* Theorems about Console, for any jobs, appliances, menus, number of clicks *)
(* and faults.                                                               *)
EXTENDS Console, TLAPS

(* What steps do to the screen and to the requests, in three shapes that     *)
(* the invariants are proved from.                                           *)
Timers == [jobs : BOOLEAN, log : Job \cup {None}, net : Site \cup {None}]

(* A page other than a log is set up for click n.                            *)
Painted(n) ==
    /\ body' \in [screen : Screens \ {"joblog"}, by : {n}, stage : Stages,
                  job : {None}, live : {FALSE}]
    /\ shown' = {}
    /\ viewingJLD' = FALSE
    /\ timer' \in Timers
    /\ timer'.jobs => body'.screen = "jobsRun"
    /\ timer'.net # None => body'.screen = "a3Details"

(* The dashboard takes the place of a page, without setupPage.               *)
PaintedOver(n) ==
    /\ body' \in [screen : {"dash"}, by : {n}, stage : Stages, job : {None},
                  live : {FALSE}]
    /\ shown' = {}
    /\ timer' \in Timers
    /\ UNCHANGED viewingJLD

(* A log is drawn, dropped or asked for.                                     *)
Logged(viewing) ==
    \/ /\ UNCHANGED <<body, shown, kept>>
       /\ timer' \in Timers
       /\ timer'.jobs => timer.jobs
       /\ timer'.net # None => timer.net # None
       /\ viewingJLD' = viewing
    \/ /\ viewing
       /\ viewingJLD' = TRUE
       /\ shown' \in {shown, {}}
       /\ kept' \subseteq Job
       /\ timer' \in Timers
       /\ timer'.jobs => timer.jobs /\ body.screen = "joblog"
       /\ timer'.net # None => timer.net # None /\ body.screen = "joblog"
       /\ body'.screen = "joblog"
       /\ body' \in [screen : Screens, by : 0..MaxClick, stage : Stages,
                     job : Job \cup {None}, live : BOOLEAN]
       /\ body'.by \in {0, body.by}

(* New requests serve no click later than n, and none is for the dashboard.  *)
Asked(n) ==
    /\ flight' \subseteq Request
    /\ \A q \in flight' : q \in flight \/ (q.call # "dash" /\ q.by <= n)

LEMMA Click0 == 0 \in 0..MaxClick /\ MaxClick \in Nat
  BY ConsoleAssumption

LEMMA FillTyped ==
    ASSUME NEW part \in Parts \cup {"metaA3s"}, NEW a \in Site \cup {None}
    PROVE Fill(part, a) \in Request /\ Fill(part, a).call # "dash" /\ Fill(part, a).by = 0
  BY Click0 DEF Fill, Ask, Request, Calls, Parts

(* The requests of a draw function, one kind of them to each appliance.      *)
LEMMA FillsTyped ==
    ASSUME NEW part \in Parts
    PROVE \A q \in FillPerSite(part) : q \in Request /\ q.call # "dash" /\ q.by = 0
  BY FillTyped DEF FillPerSite

LEMMA ReceiveAsks ==
    ASSUME TypeOK, NEW r \in flight, NEW rs, Receive(r, rs), NEW n \in 0..MaxClick,
           \A q \in rs : q \in Request /\ q.call # "dash" /\ q.by <= n
    PROVE Asked(n)
  BY DEF Receive, Followed, Asked, TypeOK

LEMMA SendAsks ==
    ASSUME TypeOK, NEW rs, Send(rs), NEW n \in 0..MaxClick,
           \A q \in rs : q \in Request /\ q.call # "dash" /\ q.by <= n
    PROVE Asked(n)
  BY DEF Send, Followed, Asked, TypeOK

(* setupPage with a page of a draw function.                                 *)
LEMMA SetupPaints ==
    ASSUME NEW name \in Screens \ {"joblog"}, NEW n \in 0..MaxClick, NEW stage \in Stages,
           NEW armed \in Timers, setupPage(Page(name, n, stage), armed, FALSE),
           armed.jobs => name = "jobsRun", armed.net # None => name = "a3Details"
    PROVE Painted(n)
  BY DEF setupPage, Page, Painted

LEMMA NoTimerTyped == NoTimer \in Timers /\ ~NoTimer.jobs /\ NoTimer.net = None
  BY DEF NoTimer, Timers

LEMMA StagesOf ==
    ASSUME NEW outcome \in Outcomes
    PROVE outcome \in Stages /\ checkNoA3s(outcome) \in Stages
  BY DEF Outcomes, Stages, checkNoA3s

(* Draw: a page without timers and the requests of its parts.                *)
LEMMA DrawShape ==
    ASSUME TypeOK, NEW r \in flight, NEW name \in Screens \ {"joblog"}, NEW stage \in Stages,
           NEW fills, Draw(r, name, stage, fills),
           \A q \in fills : q \in Request /\ q.call # "dash" /\ q.by = 0
    PROVE Painted(r.by) /\ Asked(0)
<1>1. r.by \in 0..MaxClick
  BY Click0 DEF TypeOK, Request
<1>2. Painted(r.by)
  BY <1>1, SetupPaints, NoTimerTyped DEF Draw
<1>3. Asked(0)
  <2> DEFINE rs == IF stage = "full" THEN fills ELSE {}
  <2>1. Receive(r, rs)
    BY DEF Draw
  <2>2. \A q \in rs : q \in Request /\ q.call # "dash" /\ q.by <= 0
    OBVIOUS
  <2> HIDE DEF rs
  <2> QED BY <2>1, <2>2, Click0, ReceiveAsks
<1> QED BY <1>2, <1>3

(* Whatever screen an answer draws, it sets a page up, or is the dashboard,  *)
(* or leaves the screen alone.                                               *)
LEMMA ScreenShape ==
    ASSUME TypeOK, NEW r \in flight, AnswerScreen(r)
    PROVE /\ Asked(0)
          /\ \/ Painted(r.by)
             \/ Stay
             \/ r.call = "dash" /\ PaintedOver(r.by)
<1> DEFINE Goal == /\ Asked(0)
                   /\ \/ Painted(r.by)
                      \/ Stay
                      \/ r.call = "dash" /\ PaintedOver(r.by)
<1>0. PICK outcome \in Outcomes :
          \/ r.call \in {"jobsRun", "jobsHist"} /\ drawJobsTable(r, outcome)
          \/ r.call = "a3s" /\ drawA3sTable(r, outcome)
          \/ r.call = "systems" /\ drawAllSystemsTable(r, outcome)
          \/ r.call = "agents" /\ drawAgentsTable(r, outcome)
          \/ r.call = "hosts" /\ drawHostsTable(r, outcome)
          \/ r.call = "insta" /\ drawInstaboots(r, outcome)
          \/ r.call = "abds" /\ drawABDsTable(r, outcome)
          \/ r.call \in {"backups", "vaults"} /\ drawBackupsTable(r, outcome)
          \/ r.call = "vmDetails" /\ drawVmDetails(r, outcome)
          \/ r.call = "a3Details" /\ drawA3Details(r, outcome)
          \/ r.call = "dash" /\ drawDashInitial(r, outcome)
          \/ r.call = "subscription" /\ drawSubscription(r, outcome)
          \/ r.call = "settings" /\ drawSettings(r, outcome)
          \/ r.call = "explorer" /\ drawBackupExplorer(r, outcome)
  BY DEF AnswerScreen
<1>1. /\ r.by \in 0..MaxClick
      /\ r.call # "joblog" => r.arg \in Site \cup {None}
      /\ 0 \in 0..MaxClick
  BY Click0 DEF TypeOK, Request
<1>2. outcome \in Stages /\ checkNoA3s(outcome) \in Stages /\ "full" \in Stages
  BY StagesOf DEF Stages
<1>3. \A name \in Screens \ {"joblog"}, stage \in Stages :
          Draw(r, name, stage, {}) => Goal
  BY DrawShape
<1>4. \A name \in Screens \ {"joblog"}, stage \in Stages, part \in Parts :
          Draw(r, name, stage, FillPerSite(part)) => Goal
  BY DrawShape, FillsTyped
<1>5. CASE drawJobsTable(r, outcome) /\ r.call \in {"jobsRun", "jobsHist"}
  <2> DEFINE act == r.call = "jobsRun" /\ outcome # "error"
             name == IF act THEN "jobsRun" ELSE "jobsHist"
             armed == [NoTimer EXCEPT !.jobs = act]
  <2>1. setupPage(Page(name, r.by, outcome), armed, FALSE) /\ Receive(r, {})
    BY <1>5 DEF drawJobsTable
  <2>2. name \in Screens \ {"joblog"} /\ (armed.jobs => name = "jobsRun")
    BY DEF Screens, NoTimer
  <2>3. armed \in Timers /\ armed.net = None
    BY DEF NoTimer, Timers
  <2> HIDE DEF name, armed
  <2>4. Painted(r.by)
    BY <1>1, <1>2, <2>1, <2>2, <2>3, SetupPaints
  <2>5. Asked(0)
    BY <1>1, <2>1, ReceiveAsks
  <2> QED BY <2>4, <2>5
<1>6. CASE \/ drawA3sTable(r, outcome) \/ drawAllSystemsTable(r, outcome)
           \/ drawAgentsTable(r, outcome) \/ drawHostsTable(r, outcome)
           \/ drawSubscription(r, outcome) \/ drawBackupExplorer(r, outcome)
  BY <1>2, <1>3, <1>6 DEF drawA3sTable, drawAllSystemsTable, drawAgentsTable,
     drawHostsTable, drawSubscription, drawBackupExplorer, Screens
<1>7. CASE drawInstaboots(r, outcome) \/ drawABDsTable(r, outcome)
  BY <1>2, <1>4, <1>7 DEF drawInstaboots, drawABDsTable, Screens, Parts
<1>8. CASE r.call \in {"backups", "vaults"} /\ drawBackupsTable(r, outcome)
  <2> DEFINE part == IF r.call = "backups" THEN "backupRows" ELSE "vaultRows"
  <2>1. part \in Parts /\ r.call \in Screens \ {"joblog"}
    BY <1>8 DEF Parts, Screens
  <2>2. Draw(r, r.call, checkNoA3s(outcome), FillPerSite(part))
    BY <1>8 DEF drawBackupsTable
  <2> HIDE DEF part
  <2> QED BY <1>2, <1>4, <2>1, <2>2
<1>9. CASE drawVmDetails(r, outcome)
  <2>1. PICK rows \in {"backupRows", "vaultRows"} :
            /\ setupPage(Page("vmDetails", r.by, outcome), NoTimer, FALSE)
            /\ Receive(r, {Fill("vmHeader", None)} \cup
                          (IF outcome = "full" THEN FillPerSite(rows) ELSE {}))
    BY <1>9 DEF drawVmDetails
  <2>2. "vmDetails" \in Screens \ {"joblog"} /\ rows \in Parts /\ "vmHeader" \in Parts
    BY DEF Screens, Parts
  <2>3. Painted(r.by)
    BY <1>1, <1>2, <2>1, <2>2, SetupPaints, NoTimerTyped
  <2> DEFINE rs == {Fill("vmHeader", None)} \cup
                   (IF outcome = "full" THEN FillPerSite(rows) ELSE {})
  <2>4. \A q \in rs : q \in Request /\ q.call # "dash" /\ q.by <= 0
    BY <2>2, FillTyped, FillsTyped
  <2>5. Receive(r, rs)
    BY <2>1
  <2> HIDE DEF rs
  <2>6. Asked(0)
    BY <1>1, <2>4, <2>5, ReceiveAsks
  <2> QED BY <2>3, <2>6
<1>10. CASE r.call = "a3Details" /\ drawA3Details(r, outcome)
  <2>1. CASE Receive(r, {}) /\ Stay
    BY <1>1, <2>1, ReceiveAsks
  <2>2. CASE /\ setupPage(Page("a3Details", r.by, "full"), pollSysUse(NoTimer, r.arg), FALSE)
             /\ Receive(r, {Fill("a3Settings", r.arg), Fill("graph", r.arg),
                            Fill("minilog", None)})
    <3> DEFINE rs == {Fill("a3Settings", r.arg), Fill("graph", r.arg),
                      Fill("minilog", None)}
               armed == pollSysUse(NoTimer, r.arg)
    <3>1. "a3Details" \in Screens \ {"joblog"} /\ {"a3Settings", "graph", "minilog"} \subseteq Parts
      BY DEF Screens, Parts
    <3>2. armed \in Timers /\ ~armed.jobs
      BY <1>1, <1>10 DEF pollSysUse, NoTimer, Timers
    <3>3. \A q \in rs : q \in Request /\ q.call # "dash" /\ q.by <= 0
      BY <1>1, <1>10, <3>1, FillTyped
    <3>4. setupPage(Page("a3Details", r.by, "full"), armed, FALSE) /\ Receive(r, rs)
      BY <2>2
    <3> HIDE DEF rs, armed
    <3>5. Painted(r.by)
      BY <1>1, <1>2, <3>1, <3>2, <3>4, SetupPaints
    <3>6. Asked(0)
      BY <1>1, <3>3, <3>4, ReceiveAsks
    <3> QED BY <3>5, <3>6
  <2> QED BY <1>10, <2>1, <2>2 DEF drawA3Details
<1>11. CASE r.call = "dash" /\ drawDashInitial(r, outcome)
  <2>1. CASE Receive(r, {}) /\ Stay
    BY <1>1, <2>1, ReceiveAsks
  <2>2. CASE /\ body' = Page("dash", r.by, outcome)
             /\ shown' = {}
             /\ \E armed \in {timer} \cup {pollSysUse(timer, s) : s \in Site} :
                   timer' = armed
             /\ UNCHANGED viewingJLD
             /\ Receive(r, {Fill("graph", None), Fill("dashJobs", None),
                            Fill("alerts", None)})
    <3> DEFINE rs == {Fill("graph", None), Fill("dashJobs", None), Fill("alerts", None)}
    <3>1. {"graph", "dashJobs", "alerts"} \subseteq Parts
      BY DEF Parts
    <3>2. \A q \in rs : q \in Request /\ q.call # "dash" /\ q.by <= 0
      BY <3>1, FillTyped
    <3>3. Receive(r, rs)
      BY <2>2
    <3> HIDE DEF rs
    <3>4. Asked(0)
      BY <1>1, <3>2, <3>3, ReceiveAsks
    <3>5. timer \in Timers
      BY DEF TypeOK, Timers
    <3>6. timer' \in Timers
      BY <2>2, <3>5 DEF pollSysUse, Timers
    <3>7. PaintedOver(r.by)
      BY <1>1, <1>2, <2>2, <3>6 DEF PaintedOver, Page
    <3> QED BY <1>11, <3>4, <3>7
  <2> QED BY <1>11, <2>1, <2>2 DEF drawDashInitial
<1>12. CASE drawSettings(r, outcome)
  <2>1. CASE Receive(r, {}) /\ Stay
    BY <1>1, <2>1, ReceiveAsks
  <2>2. CASE Draw(r, "settings", "full", {Fill("gfsProfiles", None)})
    <3>1. "settings" \in Screens \ {"joblog"} /\ "gfsProfiles" \in Parts
      BY DEF Screens, Parts
    <3>2. \A q \in {Fill("gfsProfiles", None)} : q \in Request /\ q.call # "dash" /\ q.by = 0
      BY <3>1, FillTyped
    <3> QED BY <1>2, <2>2, <3>1, <3>2, DrawShape
  <2> QED BY <1>12, <2>1, <2>2 DEF drawSettings
<1> QED BY <1>0, <1>5, <1>6, <1>7, <1>8, <1>9, <1>10, <1>11, <1>12

(* The log of a job is drawn over another page, or in its place, or dropped. *)
LEMMA DrawLogShape ==
    ASSUME TypeOK, NEW j \in Job, NEW live \in BOOLEAN, NEW viewing \in BOOLEAN,
           drawJoblog(j, live, viewing)
    PROVE Logged(viewing)
<1>1. doJLDRefresh(j, live) \in Job \cup {None} /\ 0 \in 0..MaxClick
  BY Click0 DEF doJLDRefresh
<1>2. timer \in Timers
  BY DEF TypeOK, Timers
<1>3. CASE ~viewing
  BY <1>2, <1>3 DEF drawJoblog, Logged, Timers
<1>4. CASE viewing /\ OnScreen(j)
  <2>1. syncJoblog(j, live) /\ kept' \subseteq Job
    BY <1>4 DEF drawJoblog, TypeOK
  <2> QED BY <1>1, <1>2, <1>4, <2>1 DEF syncJoblog, OnScreen, Logged, Timers, TypeOK
<1>5. CASE viewing /\ ~OnScreen(j)
  <2>1. /\ setupPage(JobLogPage(j, live), [NoTimer EXCEPT !.log = doJLDRefresh(j, live)], TRUE)
        /\ kept' \subseteq Job
    BY <1>5 DEF drawJoblog, TypeOK
  <2>2. body' = JobLogPage(j, live) /\ viewingJLD' = TRUE /\ shown' = {}
    BY <2>1 DEF setupPage
  <2>3. timer' \in Timers /\ ~timer'.jobs /\ timer'.net = None
    BY <1>1, <2>1 DEF setupPage, NoTimer, Timers
  <2>4. /\ body' \in [screen : Screens, by : 0..MaxClick, stage : Stages,
                      job : Job \cup {None}, live : BOOLEAN]
        /\ body'.by = 0 /\ body'.screen = "joblog"
    BY <1>1, <2>2 DEF JobLogPage, Screens, Stages
  <2> QED BY <1>5, <2>1, <2>2, <2>3, <2>4 DEF Logged
<1> QED BY <1>3, <1>4, <1>5

LEMMA JobDetailsShape ==
    ASSUME TypeOK, NEW j \in Job, NEW armed \in Timers, NEW viewing \in BOOLEAN,
           armed.jobs => timer.jobs, armed.net # None => timer.net # None,
           getJobDetails(j, armed, viewing)
    PROVE Logged(viewing) /\ Asked(0)
<1>1. CASE drawJoblog(j, FALSE, viewing) /\ UNCHANGED flight
  <2>1. Logged(viewing)
    BY <1>1, DrawLogShape
  <2> QED BY <1>1, <2>1 DEF Asked, TypeOK
<1>2. CASE /\ Send({AskLog(j)})
           /\ timer' = armed
           /\ viewingJLD' = viewing
           /\ UNCHANGED <<body, shown, kept>>
  <2>1. Logged(viewing)
    BY <1>2 DEF Logged
  <2>2. AskLog(j) \in Request /\ AskLog(j).call # "dash" /\ AskLog(j).by = 0
    BY DEF AskLog, Request
  <2>3. Asked(0)
    BY <1>2, <2>2, Click0, SendAsks
  <2> QED BY <2>1, <2>3
<1> QED BY <1>1, <1>2 DEF getJobDetails

-----------------------------------------------------------------------------
(* The inductive invariant: no request and no page serves a click that was   *)
(* not made, a log on the screen is one that viewingJLD waits for, and while *)
(* viewingJLD is set, a page that is not a log, or an answer that will put   *)
(* the dashboard over it, is older than the last click on a log.             *)
Waiting ==
    /\ body.screen # "joblog" => body.by < logClick
    /\ \A r \in flight : r.call = "dash" => r.by < logClick

LogInv ==
    /\ body.by <= clicks /\ logClick <= clicks
    /\ \A r \in flight : r.by <= clicks
    /\ body.screen = "joblog" => viewingJLD
    /\ viewingJLD => Waiting

ScreenType ==
    /\ body \in [screen : Screens, by : 0..MaxClick, stage : Stages,
                 job : Job \cup {None}, live : BOOLEAN]
    /\ shown \subseteq Parts \X (Site \cup {None})
    /\ viewingJLD \in BOOLEAN
    /\ timer \in Timers
    /\ flight \subseteq Request

Inv == TypeOK /\ TimersBelong /\ LogInv

Goal == ScreenType' /\ TimersBelong' /\ LogInv'

LEMMA Numbers ==
    ASSUME TypeOK
    PROVE /\ clicks \in Nat /\ logClick \in Nat /\ body.by \in Nat
          /\ \A q \in Request : q.by \in Nat
<1>1. 0..MaxClick \subseteq Nat
  BY Click0
<1>2. ASSUME NEW q \in Request PROVE q.by \in Nat
  <2>1. q.by \in {0} \cup 0..MaxClick
    BY <1>2 DEF Request
  <2> QED BY <1>1, <2>1
<1>3. clicks \in Nat /\ logClick \in Nat /\ body.by \in Nat
  <2>1. clicks \in 0..MaxClick /\ logClick \in 0..MaxClick /\ body.by \in 0..MaxClick
    BY DEF TypeOK
  <2> QED BY <1>1, <2>1
<1> QED BY <1>2, <1>3

(* A page is set up that is no log.                                          *)
LEMMA PaintedStep ==
    ASSUME Inv, NEW n \in 0..MaxClick, Painted(n), n <= clicks', logClick' <= clicks',
           flight' \subseteq Request, \A q \in flight' : q.by <= clicks'
    PROVE Goal
<1>1. ScreenType'
  BY DEF Painted, ScreenType
<1>2. TimersBelong'
  BY DEF Painted, TimersBelong
<1>3. LogInv'
  BY DEF Painted, LogInv
<1> QED BY <1>1, <1>2, <1>3 DEF Goal

(* The dashboard is painted over the page; its answer was asked for before   *)
(* the last click on a log, if one is waited for.                            *)
LEMMA PaintedOverStep ==
    ASSUME Inv, NEW r \in flight, r.call = "dash", PaintedOver(r.by), Asked(0),
           UNCHANGED <<clicks, logClick>>
    PROVE Goal
<1> USE DEF Inv
<1>1. r.by \in 0..MaxClick /\ r.by <= clicks
  BY Click0 DEF TypeOK, Request, LogInv
<1>2. ScreenType'
  BY <1>1 DEF PaintedOver, ScreenType, Asked, Screens, TypeOK
<1>3. TimersBelong'
  BY DEF PaintedOver, TimersBelong
<1>4. viewingJLD' => Waiting'
  BY DEF LogInv, Waiting, PaintedOver, Asked
<1>5. body'.by <= clicks' /\ body'.screen # "joblog"
  BY <1>1 DEF PaintedOver
<1>6. \A q \in flight' : q.by <= clicks'
  BY Numbers DEF Asked, LogInv
<1>7. logClick' <= clicks'
  BY DEF LogInv
<1> QED BY <1>2, <1>3, <1>4, <1>5, <1>6, <1>7 DEF Goal, LogInv

(* The page stays, whatever parts of it are filled in and timers disarmed.   *)
LEMMA StayStep ==
    ASSUME Inv, UNCHANGED <<body, viewingJLD, logClick>>,
           shown' \subseteq Parts \X (Site \cup {None}),
           timer' \in Timers, timer'.jobs => timer.jobs,
           timer'.net # None => timer.net # None,
           clicks' \in Nat, clicks <= clicks', NEW n \in Nat, n <= clicks', Asked(n)
    PROVE Goal
<1> USE DEF Inv
<1>1. ScreenType'
  BY DEF ScreenType, Asked, TypeOK
<1>2. TimersBelong'
  BY DEF TimersBelong
<1>3. \A q \in flight' : q.by <= clicks'
  BY Numbers DEF Asked, LogInv
<1>4. body'.by <= clicks' /\ logClick' <= clicks'
  BY Numbers DEF LogInv
<1>5. viewingJLD' => Waiting'
  BY DEF LogInv, Waiting, Asked
<1> QED BY <1>1, <1>2, <1>3, <1>4, <1>5 DEF Goal, LogInv

(* A log is drawn, dropped or asked for: it must have been waited for, or    *)
(* been clicked just now.                                                    *)
LEMMA LoggedStep ==
    ASSUME Inv, NEW viewing \in BOOLEAN, Logged(viewing), Asked(0),
           clicks' \in Nat, clicks <= clicks', logClick' \in Nat, logClick' <= clicks',
           \/ viewing = viewingJLD /\ logClick' = logClick
           \/ viewing = TRUE /\ logClick' > clicks
    PROVE Goal
<1> USE DEF Inv
<1>1. /\ clicks \in Nat /\ logClick \in Nat /\ body.by \in Nat /\ body.by <= clicks
      /\ \A q \in flight : q.by \in Nat /\ q.by <= clicks
  BY Numbers DEF LogInv, TypeOK
<1>2. \A q \in flight' : q.by <= clicks' /\ (q.call = "dash" => q \in flight)
  BY <1>1, Numbers DEF Asked
<1>3. ScreenType'
  BY DEF Logged, ScreenType, Asked, TypeOK
<1>4. TimersBelong'
  BY DEF Logged, TimersBelong
<1>5. body'.by <= clicks' /\ (body'.screen = "joblog" => viewingJLD')
  <2>1. CASE UNCHANGED body /\ viewingJLD' = viewing
    BY <1>1, <2>1 DEF Logged, LogInv, TypeOK
  <2> QED BY <1>1, <2>1 DEF Logged
<1>6. viewingJLD' => Waiting'
  <2>1. CASE viewing = viewingJLD /\ logClick' = logClick
    BY <1>2, <2>1 DEF Logged, LogInv, Waiting
  <2>2. CASE viewing = TRUE /\ logClick' > clicks
    BY <1>1, <1>2, <2>2 DEF Logged, Waiting
  <2> QED BY <2>1, <2>2
<1> QED BY <1>2, <1>3, <1>4, <1>5, <1>6 DEF Goal, LogInv

(* Everything that a step does to the rest keeps its type.                   *)
RestType ==
    /\ stray \subseteq Job
    /\ a3Cache \in {"absent", "none", "some"}
    /\ kept \subseteq Job
    /\ running \subseteq Job
    /\ noticed \subseteq Job
    /\ asking \in Job \cup {None}
    /\ clicks \in 0..MaxClick
    /\ logClick \in 0..MaxClick
    /\ wanted \in Job \cup {None}

LEMMA Parted == TypeOK <=> ScreenType /\ RestType
  BY DEF TypeOK, ScreenType, RestType, Timers

-----------------------------------------------------------------------------
(* The clicks of the user.                                                   *)
LEMMA NavigateStep ==
    ASSUME Inv, NEW call \in Calls \ {"dash", "joblog"}, NEW a \in Site \cup {None},
           Navigate(call, a)
    PROVE Goal /\ RestType'
<1> USE DEF Inv
<1>1. /\ clicks' = clicks + 1 /\ clicks' \in 0..MaxClick /\ clicks' \in Nat
      /\ clicks \in Nat
  BY Click0, Numbers DEF Navigate, Click, TypeOK
<1>2. Ask(call, a, clicks + 1) \in Request /\ Ask(call, a, clicks + 1).call # "dash"
      /\ Ask(call, a, clicks + 1).by = clicks'
  BY <1>1 DEF Ask, Request
<1>3. Asked(clicks')
  BY <1>1, <1>2, SendAsks DEF Navigate
<1>4. RestType'
  BY <1>1 DEF Navigate, Click, Stay, RestType, TypeOK
<1>5. Goal
  BY <1>1, <1>3, StayStep DEF Navigate, Stay, TypeOK, Timers
<1> QED BY <1>4, <1>5

LEMMA UserStep ==
    ASSUME Inv, User
    PROVE Goal /\ RestType'
<1> USE DEF Inv
<1>1. {"jobsRun", "jobsHist", "systems", "agents", "hosts", "insta", "abds", "backups",
       "vaults", "vmDetails", "settings", "subscription", "explorer", "a3Details",
       "a3s"} \subseteq Calls \ {"dash", "joblog"}
  BY DEF Calls, Screens
<1>2. CASE \/ GoJobsRun \/ GoJobsHist \/ GoVms \/ GoAgents \/ GoHosts \/ GoInsta
           \/ GoAbds \/ GoBackupHist \/ GoVaultHist \/ ViewVmDetails \/ GoSettings
           \/ GoSubscription \/ GoBackupExplorer
  <2>1. \E call \in Calls \ {"dash", "joblog"} : Navigate(call, None)
    BY <1>1, <1>2 DEF GoJobsRun, GoJobsHist, GoVms, GoAgents, GoHosts, GoInsta, GoAbds,
       GoBackupHist, GoVaultHist, ViewVmDetails, GoSettings, GoSubscription,
       GoBackupExplorer
  <2> QED BY <2>1, NavigateStep
<1>3. ASSUME NEW s \in Site, GoA3Details(s) PROVE Goal /\ RestType'
  BY <1>1, <1>3, NavigateStep DEF GoA3Details
<1>4. ASSUME Click
      PROVE /\ clicks' = clicks + 1 /\ clicks' \in 0..MaxClick /\ clicks' \in Nat
            /\ clicks \in Nat /\ clicks <= clicks'
            /\ (UNCHANGED <<kept, stray, logClick, wanted>> => RestType')
  <2>1. /\ clicks' = clicks + 1 /\ clicks' \in 0..MaxClick /\ clicks' \in Nat
        /\ clicks \in Nat
    BY <1>4, Click0, Numbers DEF Click, TypeOK
  <2>2. UNCHANGED <<kept, stray, logClick, wanted>> => RestType'
    BY <1>4, <2>1 DEF Click, TypeOK, RestType
  <2> QED BY <2>1, <2>2
<1>5. logClick <= clicks /\ logClick \in Nat /\ body.by <= clicks /\ body.by \in Nat
      /\ \A q \in flight : q.by <= clicks /\ q.by \in Nat
  BY Numbers DEF LogInv, TypeOK
<1>6. CASE GoA3s
  <2>1. Click /\ UNCHANGED <<body, shown, viewingJLD, kept, stray, logClick, wanted>>
        /\ Send({Ask("a3s", None, clicks + 1)}) /\ timer' = NoTimer
    BY <1>6 DEF GoA3s, clearTimer
  <2>2. Ask("a3s", None, clicks + 1) \in Request /\ Ask("a3s", None, clicks + 1).call # "dash"
        /\ Ask("a3s", None, clicks + 1).by = clicks'
    BY <1>1, <1>4, <2>1 DEF Ask, Request
  <2>3. Asked(clicks')
    BY <1>4, <2>1, <2>2, SendAsks
  <2>4. shown' \subseteq Parts \X (Site \cup {None})
    BY <2>1 DEF TypeOK
  <2>5. Goal
    BY <1>4, <2>1, <2>3, <2>4, NoTimerTyped, StayStep
  <2> QED BY <1>4, <2>1, <2>5
<1>7. CASE GoHelp
  <2>1. Painted(clicks')
    <3>1. "support" \in Screens \ {"joblog"} /\ "full" \in Stages
      BY DEF Screens, Stages
    <3> QED BY <1>4, <1>7, <3>1, SetupPaints, NoTimerTyped DEF GoHelp
  <2>2. Goal
    BY <1>4, <1>5, <1>7, <2>1, PaintedStep DEF GoHelp, TypeOK
  <2> QED BY <1>4, <1>7, <2>2 DEF GoHelp
<1>8. CASE GoDash
  <2>1. Painted(clicks')
    <3>1. "dash" \in Screens \ {"joblog"} /\ "loading" \in Stages
      BY DEF Screens, Stages
    <3> QED BY <1>4, <1>8, <3>1, SetupPaints, NoTimerTyped DEF GoDash
  <2>2. Ask("dash", None, clicks + 1) \in Request /\ Ask("dash", None, clicks + 1).by = clicks'
    BY <1>4, <1>8 DEF GoDash, Ask, Request, Calls, Screens
  <2>3. flight' \subseteq Request /\ \A q \in flight' : q.by <= clicks'
    BY <1>4, <1>5, <1>8, <2>2 DEF GoDash, Send, Followed, TypeOK
  <2>4. Goal
    BY <1>4, <1>5, <1>8, <2>1, <2>3, PaintedStep DEF GoDash
  <2> QED BY <1>4, <1>8, <2>4 DEF GoDash
<1>9. CASE GoSchedules
  <2> DEFINE stage == checkNoA3s("full")
             rs == IF stage = "full" THEN FillPerSite("scheduleRows") ELSE {}
  <2>1. /\ setupPage(Page("schedules", clicks + 1, stage), NoTimer, FALSE) /\ Send(rs)
        /\ Click
    BY <1>9 DEF GoSchedules, drawSchedulesTable
  <2>2. "schedules" \in Screens \ {"joblog"} /\ stage \in Stages /\ "scheduleRows" \in Parts
    BY DEF Screens, Stages, checkNoA3s, Parts
  <2>3. \A q \in rs : q \in Request /\ q.call # "dash" /\ q.by <= 0
    BY <2>2, FillsTyped
  <2> HIDE DEF stage, rs
  <2>4. Asked(0)
    BY <2>1, <2>3, Click0, SendAsks
  <2>5. Painted(clicks')
    BY <1>4, <2>1, <2>2, SetupPaints, NoTimerTyped
  <2>6. flight' \subseteq Request /\ \A q \in flight' : q.by <= clicks'
    BY <1>4, <1>5, <2>1, <2>4, Numbers DEF Asked
  <2>7. Goal
    BY <1>4, <1>5, <1>9, <2>1, <2>5, <2>6, PaintedStep DEF GoSchedules
  <2> QED BY <1>4, <1>9, <2>1, <2>7 DEF GoSchedules
<1>10. ASSUME NEW j \in Job, GoJoblog(j) PROVE Goal /\ RestType'
  <2>1. Click /\ logClick' = clicks + 1 /\ wanted' = j /\ UNCHANGED stray
        /\ getJobDetails(j, timer, TRUE)
    BY <1>10 DEF GoJoblog
  <2>2. timer \in Timers
    BY DEF TypeOK, Timers
  <2>3. Logged(TRUE) /\ Asked(0)
    BY <2>1, <2>2, JobDetailsShape
  <2>4. Goal
    <3>1. /\ clicks' \in Nat /\ clicks <= clicks' /\ logClick' \in Nat
          /\ logClick' <= clicks' /\ logClick' > clicks
      BY <1>4, <2>1
    <3>2. TRUE \in BOOLEAN
      OBVIOUS
    <3> QED BY <2>3, <3>1, <3>2, LoggedStep
  <2>5. kept' \subseteq Job
    BY <2>3 DEF Logged, TypeOK
  <2> QED BY <1>4, <2>1, <2>4, <2>5 DEF RestType, Click, TypeOK
<1>11. CASE AskCancel
  <2>1. clicks' \in 0..MaxClick /\ clicks' \in Nat /\ clicks' = clicks + 1 /\ clicks \in Nat
    BY <1>11, Numbers, Click0 DEF AskCancel, TypeOK
  <2>2. Asked(0) /\ timer' \in Timers /\ shown' \subseteq Parts \X (Site \cup {None})
    BY <1>11 DEF AskCancel, Asked, TypeOK, Timers
  <2>3. Goal
    BY <1>11, <2>1, <2>2, StayStep DEF AskCancel
  <2>4. RestType'
    BY <1>11, <2>1 DEF AskCancel, RestType, TypeOK
  <2> QED BY <2>3, <2>4
<1>12. CASE cancelJob \/ KeepAsking
  <2>1. timer' \in Timers /\ (timer'.jobs => timer.jobs)
        /\ (timer'.net # None => timer.net # None)
    BY <1>12 DEF cancelJob, KeepAsking, TypeOK, Timers
  <2>2. Asked(0) /\ shown' \subseteq Parts \X (Site \cup {None})
    BY <1>12 DEF cancelJob, KeepAsking, Asked, TypeOK
  <2>3. UNCHANGED <<body, viewingJLD, logClick, clicks>> /\ clicks \in Nat
    BY <1>12, Numbers DEF cancelJob, KeepAsking
  <2>4. Goal
    BY <2>1, <2>2, <2>3, StayStep
  <2>5. RestType'
    BY <1>12 DEF cancelJob, KeepAsking, RestType, TypeOK
  <2> QED BY <2>4, <2>5
<1> QED BY <1>2, <1>3, <1>6, <1>7, <1>8, <1>9, <1>10, <1>11, <1>12 DEF User

-----------------------------------------------------------------------------
(* Answers and timers.                                                       *)
LEMMA AnswerLogStep ==
    ASSUME Inv, NEW r \in flight, AnswerJoblog(r)
    PROVE Goal /\ RestType'
<1> USE DEF Inv
<1>1. r.arg \in Job /\ r.live \in BOOLEAN
  BY DEF AnswerJoblog, TypeOK, Request
<1>2. Asked(0)
  BY Click0, ReceiveAsks DEF AnswerJoblog
<1>3. UNCHANGED <<stray, a3Cache, running, noticed, asking, clicks, logClick, wanted>>
  BY DEF AnswerJoblog
<1>4. CASE \E live \in {r.live, r.arg \in running} : drawJoblog(r.arg, live, viewingJLD)
  <2>1. \/ drawJoblog(r.arg, r.live, viewingJLD)
        \/ drawJoblog(r.arg, r.arg \in running, viewingJLD)
    BY <1>4, Zenon
  <2>2. viewingJLD \in BOOLEAN
    BY DEF TypeOK
  <2>3. Logged(viewingJLD)
    <3>1. (r.arg \in running) \in BOOLEAN
      OBVIOUS
    <3>2. CASE drawJoblog(r.arg, r.live, viewingJLD)
      BY <1>1, <2>2, <3>2, DrawLogShape
    <3>3. CASE drawJoblog(r.arg, r.arg \in running, viewingJLD)
      <4> DEFINE live == r.arg \in running
      <4>1. live \in BOOLEAN /\ drawJoblog(r.arg, live, viewingJLD)
        BY <3>1, <3>3
      <4> HIDE DEF live
      <4> QED BY <1>1, <2>2, <4>1, DrawLogShape
    <3> QED BY <2>1, <3>2, <3>3
  <2>4. clicks' \in Nat /\ clicks <= clicks' /\ logClick' \in Nat /\ logClick' <= clicks'
    BY <1>3, Numbers DEF LogInv
  <2>5. Goal
    BY <1>2, <1>3, <2>2, <2>3, <2>4, LoggedStep
  <2>6. kept' \subseteq Job
    BY <2>3 DEF Logged, TypeOK
  <2> QED BY <1>3, <2>5, <2>6 DEF RestType, TypeOK
<1>5. CASE Stay /\ UNCHANGED kept
  <2>1. Goal
    BY <1>2, <1>3, <1>5, Numbers, StayStep DEF Stay, TypeOK, Timers
  <2> QED BY <1>3, <1>5, <2>1 DEF RestType, TypeOK
<1> QED BY <1>4, <1>5 DEF AnswerJoblog

LEMMA AnswerScreenStep ==
    ASSUME Inv, NEW r \in flight, AnswerScreen(r)
    PROVE Goal /\ RestType'
<1> USE DEF Inv
<1>1. UNCHANGED <<stray, a3Cache, kept, running, noticed, asking, clicks, logClick, wanted>>
  BY DEF AnswerScreen, Elsewhere
<1>2. Asked(0) /\ \/ Painted(r.by)
                  \/ Stay
                  \/ r.call = "dash" /\ PaintedOver(r.by)
  BY ScreenShape
<1>3. RestType'
  BY <1>1 DEF RestType, TypeOK
<1>4. CASE Painted(r.by)
  <2>1. r.by \in 0..MaxClick /\ r.by <= clicks' /\ logClick' <= clicks'
    BY <1>1, Click0 DEF LogInv, TypeOK, Request
  <2>2. flight' \subseteq Request /\ \A q \in flight' : q.by <= clicks'
    BY <1>1, <1>2, Numbers DEF Asked, LogInv
  <2> QED BY <1>3, <1>4, <2>1, <2>2, PaintedStep
<1>5. CASE Stay
  <2>1. Goal
    BY <1>1, <1>2, <1>5, Numbers, StayStep DEF Stay, TypeOK, Timers
  <2> QED BY <1>3, <2>1
<1>6. CASE r.call = "dash" /\ PaintedOver(r.by)
  BY <1>1, <1>2, <1>3, <1>6, PaintedOverStep
<1> QED BY <1>2, <1>4, <1>5, <1>6

LEMMA AnswerPartStep ==
    ASSUME Inv, NEW r \in flight, AnswerPart(r)
    PROVE Goal /\ RestType'
<1> USE DEF Inv
<1>1. /\ UNCHANGED <<body, viewingJLD, timer>>
      /\ UNCHANGED <<stray, a3Cache, kept, running, noticed, asking, clicks, logClick, wanted>>
  BY DEF AnswerPart, Elsewhere
<1>2. r.call # "joblog" => r.arg \in Site \cup {None}
  BY DEF TypeOK, Request
<1>3. \A part \in Parts, s \in Site \cup {None} :
         Put(part, s) \/ Replace(part, s) => shown' \subseteq Parts \X (Site \cup {None})
  BY DEF Put, Replace, TypeOK
<1>4. {"scheduleRows", "instaPart", "abdPart", "backupRows", "vaultRows", "vmHeader",
       "graph", "dashJobs", "alerts", "a3Settings", "minilog", "netUse",
       "gfsProfiles"} = Parts
  BY DEF Parts
<1>5. \/ UNCHANGED shown
      \/ \E part \in Parts, s \in Site \cup {None} : Put(part, s) \/ Replace(part, s)
  BY <1>2, <1>4 DEF AnswerPart, populateSchedules, populateA3Instaboots, populateA3ABDs,
     populateBackupTable, populateVaultTable, drawVmDetailHeader, drawDashGraph,
     drawDashJobs, drawDashAlerts, assignA3Settings, updateMinilog, getA3NetUse,
     gfsProfileList
<1>6. shown' \subseteq Parts \X (Site \cup {None})
  BY <1>3, <1>5 DEF TypeOK
<1>7. Asked(0)
  BY Click0, ReceiveAsks DEF AnswerPart
<1>8. Goal
  BY <1>1, <1>6, <1>7, Numbers, StayStep DEF TypeOK, Timers
<1>9. RestType'
  BY <1>1 DEF RestType, TypeOK
<1> QED BY <1>8, <1>9

(* Steps that leave the screen, its parts and viewingJLD as they are.        *)
LEMMA TickStep ==
    ASSUME Inv, getActiveJobs \/ NetTick
    PROVE Goal /\ RestType'
<1> USE DEF Inv
<1>1. /\ UNCHANGED <<body, shown, viewingJLD>>
      /\ UNCHANGED <<stray, a3Cache, kept, running, noticed, asking, clicks, logClick, wanted>>
  BY DEF getActiveJobs, NetTick, Stay, Elsewhere
<1>2. timer' \in Timers /\ (timer'.jobs => timer.jobs)
      /\ (timer'.net # None => timer.net # None)
  BY DEF getActiveJobs, NetTick, Stay, TypeOK, Timers
<1>3. body.by \in 0..MaxClick /\ body.by <= clicks /\ clicks \in Nat /\ body.by \in Nat
  BY Numbers DEF TypeOK, LogInv
<1>4. \E n \in Nat : n <= clicks /\ Asked(n)
  <2>1. CASE getActiveJobs
    <3>1. /\ Ask("jobsRun", None, body.by) \in Request
          /\ Ask("jobsRun", None, body.by).call # "dash"
          /\ Ask("jobsRun", None, body.by).by = body.by
      BY <1>3 DEF Ask, Request, Calls, Screens
    <3>2. Send({Ask("jobsRun", None, body.by)})
      BY <2>1 DEF getActiveJobs
    <3>3. Asked(body.by)
      BY <1>3, <3>1, <3>2, SendAsks
    <3> QED BY <1>3, <3>3
  <2>2. CASE NetTick
    <3>1. /\ Fill("netUse", timer.net) \in Request
          /\ Fill("netUse", timer.net).call # "dash"
          /\ Fill("netUse", timer.net).by <= 0
      BY FillTyped DEF Parts, TypeOK
    <3>2. Send({Fill("netUse", timer.net)})
      BY <2>2 DEF NetTick
    <3>3. Asked(0)
      BY <3>1, <3>2, Click0, SendAsks
    <3> QED BY <1>3, <3>3
  <2> QED BY <2>1, <2>2
<1>5. shown' \subseteq Parts \X (Site \cup {None})
  BY <1>1 DEF TypeOK
<1>6. Goal
  BY <1>1, <1>2, <1>3, <1>4, <1>5, StayStep
<1>7. RestType'
  BY <1>1 DEF RestType, TypeOK
<1> QED BY <1>6, <1>7

LEMMA LogTickStep ==
    ASSUME Inv, LogTick \/ \E j \in Job : StrayTick(j)
    PROVE Goal /\ RestType'
<1> USE DEF Inv
<1>1. PICK j \in Job, armed \in {timer, [timer EXCEPT !.log = None]} :
         getJobDetails(j, armed, viewingJLD)
  BY DEF LogTick, StrayTick, TypeOK
<1>2. /\ UNCHANGED <<a3Cache, running, noticed, asking, clicks, logClick, wanted>>
      /\ stray' \subseteq Job
  BY DEF LogTick, StrayTick, TypeOK
<1>3. /\ armed \in Timers /\ (armed.jobs => timer.jobs)
      /\ (armed.net # None => timer.net # None)
  BY DEF TypeOK, Timers
<1>4. viewingJLD \in BOOLEAN
  BY DEF TypeOK
<1>5. Logged(viewingJLD) /\ Asked(0)
  BY <1>1, <1>3, <1>4, JobDetailsShape
<1>6. clicks' \in Nat /\ clicks <= clicks' /\ logClick' \in Nat /\ logClick' <= clicks'
  BY <1>2, Numbers DEF LogInv
<1>7. Goal
  BY <1>2, <1>4, <1>5, <1>6, LoggedStep
<1>8. kept' \subseteq Job
  BY <1>5 DEF Logged, TypeOK
<1> QED BY <1>2, <1>7, <1>8 DEF RestType, TypeOK

LEMMA OtherStep ==
    ASSUME Inv, \/ \E r \in flight : AnswerMeta(r) \/ Lost(r)
                \/ \E j \in Job : JobEnds(j) \/ checkRunningJobs(j)
    PROVE Goal /\ RestType'
<1> USE DEF Inv
<1>1. Stay /\ UNCHANGED <<kept, asking, clicks, logClick, wanted, stray>>
  BY DEF AnswerMeta, Lost, JobEnds, checkRunningJobs, Elsewhere
<1>2. RestType'
  BY <1>1 DEF AnswerMeta, Lost, JobEnds, checkRunningJobs, Elsewhere, RestType, TypeOK
<1>3. body.by \in 0..MaxClick /\ body.by <= clicks /\ clicks \in Nat /\ body.by \in Nat
  BY Numbers DEF TypeOK, LogInv
<1>4. \E n \in Nat : n <= clicks /\ Asked(n)
  <2>1. CASE \E r \in flight : AnswerMeta(r) \/ Lost(r)
    <3>1. PICK r \in flight : Receive(r, {})
      BY <2>1 DEF AnswerMeta, Lost
    <3>2. Asked(0)
      BY <3>1, Click0, ReceiveAsks
    <3> QED BY <1>3, <3>2
  <2>2. CASE \E j \in Job : JobEnds(j)
    <3>1. Asked(0)
      BY <2>2 DEF JobEnds, Asked, TypeOK
    <3> QED BY <1>3, <3>1
  <2>3. CASE \E j \in Job : checkRunningJobs(j)
    <3>1. PICK clearCache \in BOOLEAN :
              Send((IF body.screen = "jobsHist"
                    THEN {Ask("jobsHist", None, body.by)} ELSE {})
                   \cup (IF clearCache THEN {Fill("metaA3s", None)} ELSE {}))
      BY <2>3 DEF checkRunningJobs
    <3> DEFINE rs == (IF body.screen = "jobsHist"
                    THEN {Ask("jobsHist", None, body.by)} ELSE {})
                   \cup (IF clearCache THEN {Fill("metaA3s", None)} ELSE {})
    <3>2. /\ Ask("jobsHist", None, body.by) \in Request
          /\ Ask("jobsHist", None, body.by).call # "dash"
          /\ Ask("jobsHist", None, body.by).by = body.by
      BY <1>3 DEF Ask, Request, Calls, Screens
    <3>3. /\ Fill("metaA3s", None) \in Request /\ Fill("metaA3s", None).call # "dash"
          /\ Fill("metaA3s", None).by = 0
      BY FillTyped
    <3>4. \A q \in rs : q \in Request /\ q.call # "dash" /\ q.by <= body.by
      BY <1>3, <3>2, <3>3
    <3>5. Send(rs)
      BY <3>1
    <3> HIDE DEF rs
    <3>6. Asked(body.by)
      BY <1>3, <3>4, <3>5, SendAsks
    <3> QED BY <1>3, <3>6
  <2> QED BY <2>1, <2>2, <2>3
<1>5. shown' \subseteq Parts \X (Site \cup {None}) /\ timer' \in Timers
  BY <1>1 DEF Stay, TypeOK, Timers
<1>6. Goal
  BY <1>1, <1>3, <1>4, <1>5, StayStep DEF Stay
<1> QED BY <1>2, <1>6
-----------------------------------------------------------------------------
LEMMA InitInv == Init => Inv
<1> SUFFICES ASSUME Init PROVE Inv
  OBVIOUS
<1>1. 0 \in 0..MaxClick
  BY Click0
<1>2. flight \subseteq Request /\ \A q \in flight : q.by = 0
  <2>1. /\ Ask("dash", None, 0) \in Request /\ Ask("dash", None, 0).by = 0
    BY <1>1 DEF Ask, Request, Calls, Screens
  <2>2. Fill("metaA3s", None) \in Request /\ Fill("metaA3s", None).by = 0
    BY FillTyped
  <2> QED BY <2>1, <2>2 DEF Init
<1>3. TypeOK
  BY <1>1, <1>2 DEF Init, TypeOK, Page, NoTimer, Screens, Stages
<1>4. TimersBelong
  BY DEF Init, TimersBelong, NoTimer
<1>5. LogInv
  BY <1>2 DEF Init, LogInv, Page
<1> QED BY <1>3, <1>4, <1>5 DEF Inv

LEMMA StepInv == Inv /\ [Next]_vars => Inv'
<1> SUFFICES ASSUME Inv, [Next]_vars PROVE Inv'
  OBVIOUS
<1>1. ASSUME Goal, RestType' PROVE Inv'
  <2>1. TypeOK'
    BY <1>1 DEF Goal, TypeOK, ScreenType, RestType, Timers
  <2> QED BY <1>1, <2>1 DEF Goal, Inv
<1>2. CASE User
  BY <1>1, <1>2, UserStep
<1>3. CASE Ticks
  BY <1>1, <1>3, TickStep, LogTickStep DEF Ticks
<1>4. CASE \E r \in flight : Answer(r) \/ Lost(r)
  BY <1>1, <1>4, AnswerScreenStep, AnswerLogStep, AnswerPartStep, OtherStep DEF Answer
<1>5. CASE \E j \in Job : JobEnds(j) \/ checkRunningJobs(j)
  BY <1>1, <1>5, OtherStep
<1>6. CASE UNCHANGED vars
  BY <1>6 DEF vars, Inv, TypeOK, TimersBelong, LogInv, Waiting
<1> QED BY <1>2, <1>3, <1>4, <1>5, <1>6 DEF Next

(* Types, timers and the log are kept by every click, timer and answer.      *)
THEOREM Invariance == Spec => []Inv
  BY InitInv, StepInv, PTL DEF Spec

(* Every variable keeps its type, whatever answers come when: no answer of a *)
(* log is taken for that of an appliance, and no poll is armed for a job.    *)
THEOREM TypeCorrect == Spec => []TypeOK
<1>1. Inv => TypeOK
  BY DEF Inv
<1> QED BY <1>1, Invariance, PTL

(* Every timer that is armed belongs to the screen that is shown, or to one  *)
(* that the dashboard was painted over.                                      *)
THEOREM TimersDoBelong == Spec => []TimersBelong
<1>1. Inv => TimersBelong
  BY DEF Inv
<1> QED BY <1>1, Invariance, PTL

(* The late answer to a job log never takes the screen from a page that the  *)
(* user asked for after the last click on a log: while a log is waited for,  *)
(* the page is older than that click, and so is any answer that may be       *)
(* painted over it.                                                          *)
THEOREM LogIsNotStolen == Spec => LogNotStolen
<1> DEFINE Taken == body'.screen = "joblog" /\ body.screen # "joblog"
           OrClicked == Taken => logClick' > body.by
<1>1. Inv /\ [Next]_vars => OrClicked
  <2> SUFFICES ASSUME Inv, [Next]_vars, Taken PROVE logClick' > body.by
    OBVIOUS
  <2> USE DEF Inv
  <2>1. ASSUME viewingJLD, UNCHANGED logClick PROVE logClick' > body.by
    BY <2>1, Numbers DEF LogInv, Waiting
  <2>2. ~Stay /\ ~UNCHANGED body
    BY DEF Stay
  <2>3. ~(\E n \in 0..MaxClick : Painted(n)) /\ ~(\E n \in 0..MaxClick : PaintedOver(n))
    BY DEF Painted, PaintedOver
  <2>4. CASE User
    <3>1. CASE \E j \in Job : GoJoblog(j)
      BY <3>1, Numbers DEF GoJoblog, LogInv
    <3>2. CASE \/ GoJobsRun \/ GoJobsHist \/ GoVms \/ GoAgents \/ GoHosts \/ GoInsta
               \/ GoAbds \/ GoBackupHist \/ GoVaultHist \/ ViewVmDetails \/ GoSettings
               \/ GoSubscription \/ GoBackupExplorer \/ \E s \in Site : GoA3Details(s)
      <4>1. Stay
        BY <3>2 DEF GoJobsRun, GoJobsHist, GoVms, GoAgents, GoHosts, GoInsta, GoAbds,
           GoBackupHist, GoVaultHist, ViewVmDetails, GoSettings, GoSubscription,
           GoBackupExplorer, GoA3Details, Navigate
      <4> QED BY <2>2, <4>1
    <3>3. CASE GoA3s \/ AskCancel \/ cancelJob \/ KeepAsking
      BY <2>2, <3>3 DEF GoA3s, AskCancel, cancelJob, KeepAsking
    <3>4. CASE GoHelp \/ GoDash \/ GoSchedules
      <4>1. body'.screen \in {"support", "dash", "schedules"}
        BY <3>4 DEF GoHelp, GoDash, GoSchedules, drawSchedulesTable, setupPage, Page
      <4> QED BY <4>1
    <3> QED BY <2>4, <3>1, <3>2, <3>3, <3>4 DEF User
  <2>5. CASE Ticks
    <3>1. CASE getActiveJobs \/ NetTick
      BY <2>2, <3>1 DEF getActiveJobs, NetTick, Stay
    <3>2. CASE LogTick \/ \E j \in Job : StrayTick(j)
      <4>1. UNCHANGED logClick /\ \E j \in Job, armed \in {timer, [timer EXCEPT !.log = None]} :
               getJobDetails(j, armed, viewingJLD)
        BY <3>2 DEF LogTick, StrayTick, TypeOK
      <4>2. viewingJLD
        BY <2>2, <4>1 DEF getJobDetails, drawJoblog
      <4> QED BY <2>1, <4>1, <4>2
    <3> QED BY <2>5, <3>1, <3>2 DEF Ticks
  <2>6. ASSUME NEW r \in flight, Answer(r) \/ Lost(r) PROVE logClick' > body.by
    <3>1. CASE AnswerScreen(r)
      <4>1. r.by \in 0..MaxClick
        BY Click0 DEF TypeOK, Request
      <4> QED BY <2>2, <2>3, <3>1, <4>1, ScreenShape
    <3>2. CASE AnswerJoblog(r)
      BY <2>1, <2>2, <3>2 DEF AnswerJoblog, drawJoblog
    <3>3. CASE AnswerPart(r) \/ AnswerMeta(r) \/ Lost(r)
      BY <2>2, <3>3 DEF AnswerPart, AnswerMeta, Lost, Stay
    <3> QED BY <2>6, <3>1, <3>2, <3>3 DEF Answer
  <2>7. CASE (\E j \in Job : JobEnds(j) \/ checkRunningJobs(j)) \/ UNCHANGED vars
    BY <2>2, <2>7 DEF JobEnds, checkRunningJobs, Stay, vars
  <2> QED BY <2>4, <2>5, <2>6, <2>7 DEF Next
<1>2. Inv /\ [Next]_vars => [OrClicked]_vars
  BY <1>1
<1> QED BY <1>2, Invariance, PTL DEF Spec, LogNotStolen
-----------------------------------------------------------------------------
(* The refresh of a live log, as long as the service answers.                *)
LogViewed == body.screen = "joblog" => viewingJLD /\ body.job \in Job

PollInv == LiveLogPolled /\ LogViewed

(* Steps to another page, and those that leave the log and its refresh.      *)
LEMMA OtherPagePolled == ASSUME body'.screen # "joblog" PROVE PollInv'
  BY DEF PollInv, LiveLogPolled, LogViewed

LEMMA StayPolled ==
    ASSUME PollInv, UNCHANGED <<body, viewingJLD>>,
           timer'.log = timer.log \/ timer.log \in stray',
           stray \subseteq stray',
           \A r \in flight : r.call \in {"joblog", "a3s"} => r \in flight'
    PROVE PollInv'
<1>1. LogViewed'
  BY DEF PollInv, LogViewed
<1>2. ASSUME body.screen = "joblog", body.live, ~(body.job \in stray' \cup {timer'.log})
      PROVE \E r \in flight' : r.call \in {"joblog", "a3s"}
                               /\ (r.call = "joblog" => r.arg = body.job)
  <2>1. body.job \notin stray \cup {timer.log}
    BY <1>2
  <2> QED BY <1>2, <2>1 DEF PollInv, LiveLogPolled
<1>3. LiveLogPolled'
  BY <1>2 DEF LiveLogPolled
<1> QED BY <1>1, <1>3 DEF PollInv

(* A log that is drawn takes the place of what refreshed it.                 *)
LEMMA DrawPolled ==
    ASSUME PollInv, NEW j \in Job, NEW live \in BOOLEAN, NEW viewing,
           viewing \in {TRUE, viewingJLD}, TypeOK, drawJoblog(j, live, viewing)
    PROVE PollInv'
<1>1. CASE ~viewing /\ UNCHANGED <<body, shown, kept>>
  <2>1. body'.screen # "joblog"
    BY <1>1 DEF PollInv, LogViewed, TypeOK
  <2> QED BY <2>1, OtherPagePolled
<1>2. CASE viewing
  <2>1. viewingJLD' = TRUE /\ body'.job = j /\ body'.live = live
        /\ timer'.log = doJLDRefresh(j, live)
    <3>1. CASE OnScreen(j)
      BY <1>2, <3>1 DEF drawJoblog, syncJoblog, OnScreen, TypeOK
    <3>2. CASE ~OnScreen(j)
      BY <1>2, <3>2 DEF drawJoblog, setupPage, JobLogPage, NoTimer
    <3> QED BY <3>1, <3>2
  <2> QED BY <2>1 DEF PollInv, LiveLogPolled, LogViewed, doJLDRefresh
<1> QED BY <1>1, <1>2 DEF drawJoblog

LEMMA DetailsPolled ==
    ASSUME PollInv, TypeOK, NEW j \in Job, NEW viewing, viewing \in {TRUE, viewingJLD},
           NEW armed, armed.log = timer.log \/ timer.log = j, stray \ {j} \subseteq stray',
           getJobDetails(j, armed, viewing)
    PROVE PollInv'
<1>1. CASE drawJoblog(j, FALSE, viewing)
  BY <1>1, DrawPolled
<1>2. CASE Send({AskLog(j)}) /\ timer' = armed /\ viewingJLD' = viewing /\ UNCHANGED body
  <2>1. LogViewed'
    BY <1>2 DEF PollInv, LogViewed
  <2>2. AskLog(j).call = "joblog" /\ AskLog(j).arg = j
    BY DEF AskLog
  <2>3. AskLog(j) \in flight' /\ flight \subseteq flight'
    BY <1>2, <2>2 DEF Send, Followed, Parts
  <2>4. LiveLogPolled'
    BY <1>2, <2>2, <2>3 DEF PollInv, LiveLogPolled
  <2> QED BY <2>1, <2>4 DEF PollInv
<1> QED BY <1>1, <1>2 DEF getJobDetails

LEMMA SendKeeps ==
    ASSUME NEW rs, Send(rs)
    PROVE \A r \in flight : r.call \in {"joblog", "a3s"} => r \in flight'
  BY DEF Send

LEMMA UserPolled == ASSUME Inv, PollInv, User PROVE PollInv'
<1>1. CASE \/ GoJobsRun \/ GoJobsHist \/ GoVms \/ GoAgents \/ GoHosts \/ GoInsta
           \/ GoAbds \/ GoBackupHist \/ GoVaultHist \/ ViewVmDetails \/ GoSettings
           \/ GoSubscription \/ GoBackupExplorer \/ \E s \in Site : GoA3Details(s)
  <2>1. PICK rs : Send(rs) /\ Stay /\ UNCHANGED stray
    BY <1>1 DEF GoJobsRun, GoJobsHist, GoVms, GoAgents, GoHosts, GoInsta, GoAbds,
       GoBackupHist, GoVaultHist, ViewVmDetails, GoSettings, GoSubscription,
       GoBackupExplorer, GoA3Details, Navigate
  <2> QED BY <2>1, SendKeeps, StayPolled DEF Stay
<1>2. CASE GoA3s
  <2> DEFINE r == Ask("a3s", None, clicks + 1)
  <2>1. r.call = "a3s" /\ r \in flight'
    BY <1>2 DEF GoA3s, Send, Followed, Ask, Parts
  <2> HIDE DEF r
  <2>2. LiveLogPolled'
    BY <2>1 DEF LiveLogPolled
  <2>3. LogViewed'
    BY <1>2 DEF GoA3s, PollInv, LogViewed
  <2> QED BY <2>2, <2>3 DEF PollInv
<1>3. CASE GoHelp \/ GoDash \/ GoSchedules
  <2>1. body'.screen \in {"support", "dash", "schedules"}
    BY <1>3 DEF GoHelp, GoDash, GoSchedules, drawSchedulesTable, setupPage, Page
  <2> QED BY <2>1, OtherPagePolled
<1>4. ASSUME NEW j \in Job, GoJoblog(j) PROVE PollInv'
  BY <1>4, DetailsPolled DEF GoJoblog, Inv
<1>5. CASE AskCancel \/ KeepAsking
  BY <1>5, StayPolled DEF AskCancel, KeepAsking
<1>6. CASE cancelJob
  <2>1. stray \subseteq stray' /\ UNCHANGED <<body, viewingJLD, flight>>
    BY <1>6 DEF cancelJob
  <2>2. CASE timer.log \in stray'
    BY <2>1, <2>2, StayPolled
  <2>3. CASE timer.log = None
    <3>1. body.screen = "joblog" => body.job # timer.log
      BY <2>3, ConsoleAssumption DEF PollInv, LogViewed
    <3> QED BY <2>1, <3>1 DEF PollInv, LiveLogPolled, LogViewed
  <2> QED BY <1>6, <2>2, <2>3 DEF cancelJob
<1> QED BY <1>1, <1>2, <1>3, <1>4, <1>5, <1>6 DEF User

LEMMA AnswerPolled ==
    ASSUME Inv, PollInv, Faults = {}, NEW r \in flight, Answer(r)
    PROVE PollInv'
<1>1. ASSUME UNCHANGED <<body, viewingJLD, timer, stray>>, NEW rs, Receive(r, rs),
             r.call \notin {"joblog", "a3s"}
      PROVE PollInv'
  <2>1. \A q \in flight : q.call \in {"joblog", "a3s"} => q \in flight'
    BY <1>1 DEF Receive
  <2> QED BY <1>1, <2>1, StayPolled
<1>2. CASE AnswerScreen(r)
  <2>1. CASE Stay
    <3>1. r.call # "joblog" /\ UNCHANGED stray
      BY <1>2 DEF AnswerScreen, Elsewhere
    <3>2. CASE r.call = "a3s"
      <4>1. PICK stage : Draw(r, "a3s", stage, {})
        BY <1>2, <3>2 DEF AnswerScreen, drawA3sTable
      <4> QED BY <4>1, OtherPagePolled DEF Draw, setupPage, Page
    <3>3. CASE r.call # "a3s"
      <4>1. flight \ {r} \subseteq flight'
        BY <1>2 DEF AnswerScreen, Receive, Draw, drawJobsTable, drawAllSystemsTable,
           drawAgentsTable, drawHostsTable, drawInstaboots, drawABDsTable,
           drawBackupsTable, drawVmDetails, drawA3Details, drawDashInitial,
           drawSubscription, drawSettings, drawBackupExplorer, drawA3sTable
      <4> QED BY <2>1, <3>1, <3>3, <4>1, StayPolled DEF Stay
    <3> QED BY <3>2, <3>3
  <2>2. CASE Painted(r.by) \/ PaintedOver(r.by)
    BY <2>2, OtherPagePolled DEF Painted, PaintedOver
  <2> QED BY <1>2, <2>1, <2>2, ScreenShape DEF Inv
<1>3. CASE AnswerJoblog(r)
  <2> DEFINE now == r.arg \in running
  <2>0. now \in BOOLEAN
    OBVIOUS
  <2>1. r.arg \in Job /\ r.live \in BOOLEAN
    BY <1>3 DEF AnswerJoblog, Inv, TypeOK, Request
  <2>2. drawJoblog(r.arg, r.live, viewingJLD) \/ drawJoblog(r.arg, now, viewingJLD)
    BY <1>3 DEF AnswerJoblog
  <2>3. UNCHANGED stray
    BY <1>3 DEF AnswerJoblog
  <2> HIDE DEF now
  <2> QED BY <2>0, <2>1, <2>2, <2>3, DrawPolled DEF Inv
<1>4. CASE AnswerPart(r)
  <2>1. r.call \notin {"joblog", "a3s"}
    BY <1>4 DEF AnswerPart
  <2> QED BY <1>1, <1>4, <2>1 DEF AnswerPart, Elsewhere
<1>5. CASE AnswerMeta(r)
  BY <1>1, <1>5 DEF AnswerMeta, Stay
<1> QED BY <1>2, <1>3, <1>4, <1>5 DEF Answer

LEMMA StepPolled == Faults = {} /\ Inv /\ PollInv /\ [Next]_vars => PollInv'
<1> SUFFICES ASSUME Faults = {}, Inv, PollInv, [Next]_vars PROVE PollInv'
  OBVIOUS
<1>1. CASE User
  BY <1>1, UserPolled
<1>2. CASE getActiveJobs \/ NetTick
  <2>1. PICK rs : Send(rs) /\ UNCHANGED <<body, viewingJLD, stray>> /\ timer'.log = timer.log
    BY <1>2 DEF getActiveJobs, NetTick, Stay, Elsewhere, Inv, TypeOK
  <2> QED BY <2>1, SendKeeps, StayPolled
<1>3. CASE LogTick
  <2> DEFINE armed == [timer EXCEPT !.log = None]
  <2>1. getJobDetails(timer.log, armed, viewingJLD) /\ timer.log \in Job /\ UNCHANGED stray
    BY <1>3 DEF LogTick, Inv, TypeOK
  <2> HIDE DEF armed
  <2> QED BY <2>1, DetailsPolled DEF Inv
<1>4. ASSUME NEW j \in Job, StrayTick(j) PROVE PollInv'
  BY <1>4, DetailsPolled DEF StrayTick, Inv
<1>5. ASSUME NEW r \in flight, Answer(r) PROVE PollInv'
  BY <1>5, AnswerPolled
<1>6. ~\E r \in flight : Lost(r)
  BY DEF Lost
<1>7. ASSUME NEW j \in Job, JobEnds(j) PROVE PollInv'
  BY <1>7, StayPolled DEF JobEnds, Stay
<1>8. ASSUME NEW j \in Job, checkRunningJobs(j) PROVE PollInv'
  <2>1. PICK rs : Send(rs) /\ Stay /\ UNCHANGED stray
    BY <1>8 DEF checkRunningJobs
  <2> QED BY <2>1, SendKeeps, StayPolled DEF Stay
<1>9. CASE UNCHANGED vars
  BY <1>9 DEF vars, PollInv, LiveLogPolled, LogViewed
<1> QED BY <1>1, <1>2, <1>3, <1>4, <1>5, <1>6, <1>7, <1>8, <1>9 DEF Next, Ticks

(* As long as the service answers, and not with an error, the log of a job   *)
(* that is shown as active keeps a timer or a request: an answer arms the    *)
(* timer of the log that it draws, a tick sends a request for the log whose  *)
(* timer it was, and a cancel keeps the timer whose handle it overwrites.    *)
THEOREM LiveLogIsPolled == Faults = {} /\ Spec => []LiveLogPolled
<1>1. Init => PollInv
  BY DEF Init, PollInv, LiveLogPolled, LogViewed, Page
<1>2. PollInv => LiveLogPolled
  BY DEF PollInv
<1> SUFFICES ASSUME Faults = {} PROVE Spec => []LiveLogPolled
  OBVIOUS
<1>3. Inv /\ PollInv /\ [Next]_vars => PollInv'
  BY StepPolled
<1> QED BY <1>1, <1>2, <1>3, Invariance, PTL DEF Spec
=============================================================================
