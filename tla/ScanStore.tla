----------------------------- MODULE ScanStore -----------------------------
(***************************************************************************)
(* The menu bar app's store (Core/ScanStore.swift): it runs `doctordock    *)
(* report' at launch, on a timer and on demand, keeps the latest report    *)
(* and notifies about what got worse.                                      *)
(*                                                                         *)
(* Everything runs on the main actor, so a step is what a task does from   *)
(* one await to the next; other tasks run in between.  refresh awaits the  *)
(* scan, then up to two notifications.  Left out: lastUpdated,             *)
(* binaryVersion and previousScore, which no decision reads.               *)
(***************************************************************************)
EXTENDS Naturals

CONSTANTS
  First,      \* the task that init starts
  Timer,      \* the tasks the timer starts, one at a time
  Users,      \* the tasks buttons and menus start
  Criticals,  \* identities of critical findings: rule, resource and title
  Reports     \* what a scan may return

Tasks == {First, Timer} \cup Users
Report == [score : 0..100, criticals : SUBSET Criticals]
Blank == [score |-> 0, criticals |-> {}]

ASSUME StoreAssumption ==
  /\ Reports \subseteq Report
  /\ First # Timer /\ First \notin Users /\ Timer \notin Users

VARIABLES
  state,              \* "idle", "scanning", "loaded" or "failed"
  report,             \* the report of a loaded state
  isRefreshing,
  notifiedCritical,
  notifyOnScoreDrop, notifyOnNewCritical,
  permission,         \* Notifier: "unasked", "asking", "granted" or "denied"
  started,            \* init's task has run
  timer,              \* refreshInterval is above zero and the timer is scheduled
  pc,                 \* where each task's refresh is waiting
  got,                \* the report it holds
  alerts,             \* history: alerts per critical since a report was without it, up to 2
  seen,               \* history: criticals on screen when the latest scan returned
  streak              \* history: scans in a row that succeeded with alerts on, up to 2

store == <<state, report, isRefreshing, notifiedCritical, permission, pc, got>>
settings == <<notifyOnScoreDrop, notifyOnNewCritical, timer>>
history == <<alerts, seen, streak>>
vars == <<store, settings, started, history>>

TypeOK ==
  /\ state \in {"idle", "scanning", "loaded", "failed"}
  /\ report \in Report
  /\ isRefreshing = \E t \in Tasks : pc[t] # "idle"
  /\ notifiedCritical \subseteq Criticals
  /\ notifyOnScoreDrop \in BOOLEAN /\ notifyOnNewCritical \in BOOLEAN
  /\ permission \in {"unasked", "asking", "granted", "denied"}
  /\ started \in BOOLEAN /\ timer \in BOOLEAN
  /\ pc \in [Tasks -> {"idle", "scanning", "dropSent", "criticalSent"}]
  /\ got \in [Tasks -> Report]
  /\ alerts \in [Criticals -> 0..2]
  /\ seen \subseteq Criticals
  /\ streak \in 0..2

Init ==
  /\ state = "idle" /\ report = Blank /\ isRefreshing = FALSE
  /\ notifiedCritical = {}
  /\ notifyOnScoreDrop \in BOOLEAN /\ notifyOnNewCritical \in BOOLEAN
  /\ permission = "unasked" /\ started = FALSE /\ timer = FALSE
  /\ pc = [t \in Tasks |-> "idle"] /\ got = [t \in Tasks |-> Blank]
  /\ alerts = [c \in Criticals |-> 0] /\ seen = {} /\ streak = 0

-----------------------------------------------------------------------------
(* Starting a refresh. *)

\* Mutant: the guard on isRefreshing is missing.
MayAlwaysRefresh == TRUE

MayRefresh == ~isRefreshing

\* A report stays on screen while the next scan runs.
Begin(t) ==
  /\ isRefreshing' = TRUE
  /\ state' = IF state = "loaded" THEN "loaded" ELSE "scanning"
  /\ pc' = [pc EXCEPT ![t] = "scanning"]
  /\ UNCHANGED <<report, notifiedCritical, permission, got>>

\* A call that finds another refresh under way returns at once: no step here.
Refresh(t) ==
  /\ pc[t] = "idle" /\ MayRefresh
  /\ Begin(t)
  /\ UNCHANGED <<settings, started, history>>

\* init's task: schedule the timer, if the interval asks for one, then refresh.
FirstScan ==
  /\ ~started /\ started' = TRUE
  /\ timer' \in BOOLEAN
  /\ \/ MayRefresh /\ Begin(First)
     \/ ~MayRefresh /\ UNCHANGED store
  /\ UNCHANGED <<notifyOnScoreDrop, notifyOnNewCritical, history>>

Tick == timer /\ Refresh(Timer)

UserRefreshes == \E t \in Users : Refresh(t)

-----------------------------------------------------------------------------
(* After the scan. *)

\* Mutant: an early throw skips the reset of isRefreshing.
ReleaseNothing(t) ==
  /\ pc' = [pc EXCEPT ![t] = "idle"]
  /\ UNCHANGED <<isRefreshing, got>>

Release(t) ==
  /\ isRefreshing' = FALSE
  /\ pc' = [pc EXCEPT ![t] = "idle"]
  /\ got' = [got EXCEPT ![t] = Blank]

\* Any error of the bridge, the process or the decoding.
ScanFails(t) ==
  /\ pc[t] = "scanning"
  /\ state' = "failed"
  /\ Release(t)
  /\ streak' = 0
  /\ UNCHANGED <<report, notifiedCritical, permission, settings, started, alerts, seen>>

\* The first notification ever asks the user for permission, and waits; without
\* a bundle identifier there is nobody to ask.
Send ==
  \/ permission = "unasked" /\ permission' \in {"asking", "denied"}
  \/ permission # "unasked" /\ UNCHANGED permission

Suspend(t, at, r) ==
  /\ Send
  /\ pc' = [pc EXCEPT ![t] = at]
  /\ got' = [got EXCEPT ![t] = r]
  /\ UNCHANGED isRefreshing

\* Findings that have been fixed are forgotten, and the refresh is over.
Complete(t, r) ==
  /\ notifiedCritical' = notifiedCritical \cap r.criticals
  /\ Release(t)
  /\ UNCHANGED permission

Fresh(r) == r.criticals \ notifiedCritical

\* Mutant: what has been notified is not remembered.
TellAndForget(t, r, counts) ==
  IF notifyOnNewCritical /\ Fresh(r) # {}
  THEN /\ UNCHANGED notifiedCritical
       /\ alerts' = [c \in Criticals |->
            IF c \in Fresh(r) /\ counts[c] < 2 THEN counts[c] + 1 ELSE counts[c]]
       /\ Suspend(t, "criticalSent", r)
  ELSE Complete(t, r) /\ alerts' = counts

\* One notification for all criticals not notified yet.  counts are the alerts
\* up to now.
TellCriticals(t, r, counts) ==
  IF notifyOnNewCritical /\ Fresh(r) # {}
  THEN /\ notifiedCritical' = notifiedCritical \cup Fresh(r)
       /\ alerts' = [c \in Criticals |->
            IF c \in Fresh(r) /\ counts[c] < 2 THEN counts[c] + 1 ELSE counts[c]]
       /\ Suspend(t, "criticalSent", r)
  ELSE Complete(t, r) /\ alerts' = counts

\* Only a drop of more than five points from the report on screen is notified.
Dropped(r) == notifyOnScoreDrop /\ r.score + 5 < report.score

\* Nothing is compared unless a report was on screen when the scan returned.
ScanSucceeds(t, r) ==
  LET counts == [c \in Criticals |-> IF c \in r.criticals THEN alerts[c] ELSE 0]
  IN /\ pc[t] = "scanning"
     /\ state' = "loaded" /\ report' = r
     /\ seen' = IF state = "loaded" THEN report.criticals ELSE {}
     /\ streak' = IF notifyOnNewCritical THEN (IF streak = 0 THEN 1 ELSE 2) ELSE 0
     /\ \/ state # "loaded" /\ Complete(t, r) /\ alerts' = counts
        \/ /\ state = "loaded" /\ Dropped(r)
           /\ Suspend(t, "dropSent", r)
           /\ UNCHANGED notifiedCritical /\ alerts' = counts
        \/ state = "loaded" /\ ~Dropped(r) /\ TellCriticals(t, r, counts)
     /\ UNCHANGED <<settings, started>>

\* Mutant: a score drop has been told, so the criticals are not.
DropSentIsAll(t) ==
  /\ pc[t] = "dropSent" /\ permission # "asking"
  /\ Complete(t, got[t])
  /\ UNCHANGED <<state, report, settings, started, alerts, seen, streak>>

\* Mutant: a notification the user has denied is never handed over.
DropSentIfGranted(t) ==
  /\ pc[t] = "dropSent" /\ permission = "granted"
  /\ TellCriticals(t, got[t], alerts)
  /\ UNCHANGED <<state, report, settings, started, seen, streak>>

DropSent(t) ==
  /\ pc[t] = "dropSent" /\ permission # "asking"
  /\ TellCriticals(t, got[t], alerts)
  /\ UNCHANGED <<state, report, settings, started, seen, streak>>

CriticalSent(t) ==
  /\ pc[t] = "criticalSent" /\ permission # "asking"
  /\ Complete(t, got[t])
  /\ UNCHANGED <<state, report, settings, started, history>>

-----------------------------------------------------------------------------
(* The user, outside of refreshing. *)

\* The answer to the system's permission dialog.
AnswerDialog ==
  /\ permission = "asking"
  /\ permission' \in {"granted", "denied"}
  /\ UNCHANGED <<state, report, isRefreshing, notifiedCritical, pc, got,
                 settings, started, history>>

\* The settings window: scheduleTimer replaces the timer.
SetInterval ==
  /\ timer' \in BOOLEAN
  /\ UNCHANGED <<store, notifyOnScoreDrop, notifyOnNewCritical, started, history>>

SetNotify ==
  /\ notifyOnScoreDrop' \in BOOLEAN /\ notifyOnNewCritical' \in BOOLEAN
  /\ streak' = 0
  /\ UNCHANGED <<store, timer, started, alerts, seen>>

ScanEnds(t) == ScanFails(t) \/ \E r \in Reports : ScanSucceeds(t, r)

Next ==
  \/ FirstScan \/ Tick \/ UserRefreshes
  \/ \E t \in Tasks : ScanEnds(t) \/ DropSent(t) \/ CriticalSent(t)
  \/ AnswerDialog \/ SetInterval \/ SetNotify

\* The command ends by itself (its calls to Docker share the 60 s --timeout), a
\* notification is handed over, and a scheduled timer fires; nobody has to
\* answer a dialog or press a button.
Fairness ==
  /\ WF_vars(FirstScan) /\ WF_vars(Tick)
  /\ \A t \in Tasks : WF_vars(ScanEnds(t)) /\ WF_vars(DropSent(t) \/ CriticalSent(t))

Spec == Init /\ [][Next]_vars
FairSpec == Spec /\ Fairness

-----------------------------------------------------------------------------
(* Properties. *)

Sending(t) == pc[t] \in {"dropSent", "criticalSent"}

\* A report is only replaced between refreshes: what a suspended refresh is
\* about to compare and prune against is still the report on screen.
HeldIsOnScreen ==
  \A t \in Tasks : Sending(t) => state = "loaded" /\ got[t] = report

\* "so one unfixed problem does not produce a notification every five minutes":
\* a critical finding alerts once, until a scan has come back without it,
\* through failed scans, changed settings and suspended notifications.
NoNagging == \A c \in Criticals : alerts[c] <= 1

\* No critical finding is lost to a failed scan or to a score drop told first:
\* after two successful scans in a row with alerts on, every critical finding
\* of the report has alerted, and nothing else is remembered.
CriticalsAreTold ==
  ~isRefreshing /\ streak = 2 => report.criticals = notifiedCritical

\* Inductive with TypeOK, and what the three above follow from: refreshes do not
\* overlap; an alert is remembered, and survives the pruning to come; a streak
\* means that a report is on screen and that the setting is on.
StoreInv ==
  /\ \A t, u \in Tasks : pc[t] # "idle" /\ pc[u] # "idle" => t = u
  /\ HeldIsOnScreen /\ NoNagging /\ CriticalsAreTold
  /\ \A c \in Criticals : alerts[c] = 1 =>
       c \in notifiedCritical /\ \A t \in Tasks : Sending(t) => c \in got[t].criticals
  /\ \A t \in Tasks : pc[t] = "criticalSent" => got[t].criticals \subseteq notifiedCritical
  /\ streak > 0 => state = "loaded" /\ notifyOnNewCritical

\* A failed scan is tried again while the timer is on: nothing a refresh meets
\* leaves isRefreshing set behind it.
FailureIsRetried == state = "failed" ~> (state = "scanning" \/ ~timer)

\* A refresh ends, or waits for the user to answer the permission dialog.
RefreshEnds == isRefreshing ~> (~isRefreshing \/ permission = "asking")

\* "A refresh that fails should not blank a report the user is reading, so the
\* previous one stays on screen until a new one replaces it."
ReportStays == [][state = "loaded" => state' = "loaded"]_vars

\* "Only genuinely new critical findings are worth interrupting for": what was
\* on screen already does not alert.
OnlyNewAlerts ==
  [][\A c \in Criticals : alerts'[c] > alerts[c] => c \notin seen']_vars
============================================================================
