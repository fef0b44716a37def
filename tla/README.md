# DoctorDock in TLA+

DoctorDock inspects a Docker daemon, scores what it finds, and removes what is
no longer used. It is a Go command line program and a Swift menu bar app that
runs that program as a child process. This directory holds TLA+ models of its
stateful parts, the TLC configurations that check them and the proofs TLAPS
checks. Paths below are relative to `src/`.

The program persists nothing. What makes it hard is that it works on a daemon
it shares with other people, deletes things there, and is stopped by deadlines,
signals and failing calls; and that the app interleaves timers, buttons, child
processes and dialogs. Those two places are modelled as processes; the rules,
the score and the screens, which are sequential, as operators that a scan's
processes feed.

## 1. Inventory

| component | state it keeps | operations | talks to |
|---|---|---|---|
| **cleanup** (`internal/cleanup`, `internal/cli/cleanup.go`, `internal/docker/prune.go`) | the plan, with Removed and Error per item; the context | collect, plan, show, ask, apply item by item, exit code | the daemon: lists, inspects, Remove\* |
| **collection** (`internal/scanner/scanner.go` Collect, `link.go`, `internal/docker/*.go`) | the environment under construction, the first error, the effective-user cache | lists in parallel, an inspect per container in a pool of eight, linking | the daemon; cleanup and scan read the result |
| **rules** (`internal/rules`) | none | 18 checks over one environment | scan |
| **evaluation and score** (`scanner.Evaluate`, `internal/score`, `pkg/model`) | none | select, run, sort, deduplicate, penalise, grade, summarise | rules, report |
| **configuration, exit codes** (`internal/config`, `internal/cli/root.go`) | none after loading | search, decode, validate, merge flags, `--fail-on` | every command |
| **report** (`internal/report`) | none | group, select, suggest, render | stdout |
| **daemon client** (`internal/docker/client.go`) | connection, negotiated version | connect, `forEach` | Docker |
| **scan store** (`app/macos/.../Core/ScanStore.swift`) | the state on screen, isRefreshing, notifiedCritical, the timer, permission | init, refresh, scheduleTimer, notifyIfWorse, prune | CLI bridge, UserNotifications, views |
| **cleanup panel** (`app/macos/.../Panel/CleanupView.swift`) | targets, plan, dialog, isPlanning, isApplying, result | toggle, preview, confirm, apply | CLI bridge, scan store |
| **CLI bridge** (`app/macos/.../Core/DoctorDockCLI.swift`) | a child process, two pipes, a deadline | run, decode, check the schema | the CLI |
| views, share card, self-test, explanations, docs generator, informational commands | none worth modelling | layout, text, one list call each | |

What is hard in each of them, and what makes it correct:

- **Cleanup.** Other users start, create, stop, rebuild and remove between any
  two of its calls; the four lists describe four different instants; a removal
  may fail, or be carried out without the answer arriving, even after the run is
  over; a deadline or Ctrl-C may end the context anywhere, at the prompt or while a
  removal is out. Correct means: nothing goes that was not agreed to, volumes only
  on the word that volumes take; nothing a running container needs is taken, nor
  what the run knew a kept one to need; recent things stay; an interrupt spares what
  was not begun; marks and exit code tell the truth; a run ends and a second one
  finds nothing.
- **Collection.** Concurrency inside one process: the pool starts each index
  once and joins, the cache is filled in two critical sections, one failed list
  drops the whole snapshot. Correct means: every container is built once, nobody
  writes into a snapshot that was dropped, and what a container used throughout the
  collection is not called unused, unless its inspect failed (finding 8).
- **Rules, evaluation, score.** Sequential; what can be wrong is arithmetic and
  order: a score that rises when a finding is added, a finding lost by
  deduplication, a report that depends on the order of the rules.
- **Scan store.** Three kinds of callers start refreshes; a refresh suspends at
  the scan and at each of two notifications, the first of which may wait for the
  user to answer a permission dialog. Correct means: no two refreshes overlap, a
  failure is retried, every critical finding is told and none is told twice.
- **Configuration and exit codes.** Suppressions and thresholds come from a file
  and from flags and pass through several normalisations. Correct means: what
  somebody suppressed is suppressed or the run fails, and an exit code below 10
  is about a complete set of answers.
- **Cleanup panel and bridge.** Previews overtake each other, apply runs on
  whatever the toggles say by then, a background refresh can take the view away,
  and an apply that removed some of the plan exits 1 with a whole document.
  Correct means: what goes is what was shown, one apply at a time, volumes only
  if ticked, and a result is not lost while its view is there.

The full list of hazards, each at its line and with the properties that watch
it, is `hazards` in `PROJECT.json`. Where a property exempts a part of its hazard
because the code does not prevent it, the hazard's note says which, and section 4
collects them.

## 2. The modules

| module | models | rests on |
|---|---|---|
| `Docker` | the daemon and its other users (external: from the calls and the refusals `internal/docker` relies on) | |
| `CleanupPlan` | targets, linking and `cleanup.Plan` as operators over one environment | `Docker` |
| `CleanupRun` | one `doctordock cleanup`, flags to exit code | `CleanupPlan` |
| `CleanupProperties` | its properties and the inductive invariant | `CleanupRun`, `Approval` |
| `Approval` | what a cleanup promises, without any of the above | |
| `Docker_proofs` | what a step of another user preserves | `Docker` |
| `CleanupRun_proofs` | type correctness, consent, the count of steps left | `CleanupProperties`, `Docker_proofs` |
| `CleanupEffects_proofs` | what a run does to the daemon, its marks and its exit code; refinement of `Approval` | `CleanupRun_proofs` |
| `Rules` | the container the rules judge, and the eighteen rules, as operators | `CleanupPlan` |
| `ScanReport` | order, penalty, summary, what the screens show, as operators | `Rules` |
| `ScanRun` | one `doctordock scan`, `security`, `report` or resource command, config file to exit code | `ScanReport` |
| `ScanProperties` | its properties | `ScanRun` |
| `ScanReport_proofs` | the rules, the order of a report, its counts and its screens, as facts about the operators | `ScanReport` |
| `ScanRun_proofs` | the inductive invariant of a scan and what follows | `ScanProperties`, `ScanReport_proofs`, `Docker_proofs` |
| `Collect` | the worker pool and the effective-user cache inside `ListContainers`, with their properties | `ContainerList` |
| `ContainerList` | what `ListContainers` promises | |
| `Collect_proofs` | types, the pool's bound, the cache, the equivalence with a sequential collection, and the safety part of the refinement | `Collect` |
| `ScanStore` | the app's store, with its properties | |
| `ScanStore_proofs` | its inductive invariant and what follows | `ScanStore` |
| `CliBridge` | what a run of the binary comes to in the app, as operators | |
| `CleanupPanel` | the app's cleanup section, with its properties | `CliBridge` |
| `CleanupPanel_proofs` | its inductive invariant and what follows | `CleanupPanel` |
| `MCCleanup`, `MCScan`, `MCCollect`, `MCScanStore`, `MCPanel` | small instances for TLC | |

### Docker, CleanupPlan, CleanupRun

`Docker` keeps, per object, what removal decisions read: a container's state,
the networks in its settings (`joined`), the image ID it runs and the reference it
came from; which image each tag names; which images, volumes and networks exist,
and the networks' names, which two may share; what is younger than `--keep-since`.
Each removal call is a pair: `Refuses...`, the daemon's conflict, and the action
for its effect. The other users (`UserStep`) create, start, stop and remove
containers, connect them to networks and disconnect them, up or down, move tags,
make or drop volumes and drop networks; `MaxUserSteps` bounds how often, which also
tells a step of theirs from a step of the run: only theirs spends `budget`.

`CleanupRun` follows `runCleanup`:

| action | code |
|---|---|
| `ListContainers`, `ListImages`, `ListVolumes`, `ListNetworks` | the goroutines of `Collect`: each list is the daemon's state at its own instant |
| `InspectContainer` | `buildContainer` for one container, some time after the list: it reads the mounts and the networks of that moment. A container whose inspect fails is kept as a record without either |
| `CollectFails` | connecting, `Info` or any list returns an error |
| `Decide` | from linking and `Plan` to the prompt, the start of `Apply`, a dry run's end, or an error: local to the process, so one step |
| `Answer` | `confirm` reading the terminal: `y`, or `delete` when volumes are in the plan |
| `Send` | one turn of the loop in `Apply`: `ctx.Err()` is looked at; the item is marked with it, or the removal call goes out |
| `Answered` | the call returns with the daemon's answer, the item is marked Removed or with an error |
| `GiveUp` | the call returns without an answer: the connection broke, or the context ended while it was out. The item is marked with an error, whatever becomes of the request |
| `CarriesOut`, `ComesToNothing` | the daemon deals with a request in its own time, also after the client has given up or the process is gone: it is carried out, refused, or, with nobody waiting, lost |
| `Finish` | the applied plan is printed, the exit code chosen |
| `Cancel`, `Kill` | the deadline of `--timeout` or a signal ends the context; the process is killed |

What may go wrong is chosen per instance by `Faults`. The plan is a set: order
is kept between kinds (`Turn`), and items of one kind are taken in any order,
since the code orders them by size, which the model leaves out. `out` is the item
whose call has not returned, `requests` what the daemon has not dealt with,
`carried` what it has carried out; the three differ as soon as an answer is lost.
`deleted` (what the daemon dropped through this run's calls), `doubt` (items whose
call ended without an answer) and `begun` (items settled or called for when the
context ended) are history. Of the guards only `ComesToNothing` reads one: a request
may get lost once its item is in `doubt`.

Doomed containers and users are kept by ID where the code keeps them by name, which
is the same because the daemon gives no two containers one name. Networks are linked
by name, as the code does it: of two listed networks of one name only one is given
the users (`LinkedByName`).

`Approval` is the header comment of `internal/cleanup/cleanup.go` as a
specification: one set of things is agreed to, once; only those are asked for, and
only what was asked for goes; when it is over nothing more is asked for, and what is
still waiting may go or not. `Promise` in `CleanupProperties` maps
the run to it, for containers, networks and volumes. Images are not in the
mapping because the code does not keep the promise for them (finding 1).

### ScanStore

Everything in the store runs on the main actor, so a step is what a task does
between two awaits. `Refresh` is the guard and the first half of `refresh`;
`ScanFails` and `ScanSucceeds` are what follows the scan, `DropSent` and
`CriticalSent` what follows the notifications. `FirstScan` is the task of
`init`, `Tick` the timer, `UserRefreshes` the buttons and menus, `SetInterval`
and `SetNotify` the settings window, `AnswerDialog` the system's permission
dialog. `alerts`, `seen` and `streak` are history, capped at two, one more than
any property distinguishes.

### Rules, ScanReport, ScanRun

`Rules` starts from the daemon's answers: `BuildContainer` is `buildContainer`
with its conversions, and each rule is the set of findings its `Check` returns,
a finding being its rule, severity, resource and, where one resource can have
several, the mount or port. `ScanReport` sorts them, computes the penalty in
units of which every n-th of a weight is a whole number (`PenaltyUnit` of them
make one of the code's, 27720 in the run), and derives summary,
groups, caps and next steps. The daemon, its other users and the links between
resources are those of the cleanup: one model of "unused" serves both programs,
which is what `CleanupAgrees` compares.

| action | code |
|---|---|
| `LoadConfig` | `config.Load`: the named file, or the nearest that exists; it must be readable and valid |
| `ParseFlags` | `--ignore`, `--only`, `--fail-on`, `--format`, in `runScanCommand` and `report` |
| `Connect` | `docker.Connect` with its ping |
| `Info`, `ListContainers`, `ListImages`, `ListVolumes`, `ListNetworks` | the five goroutines of `Collect`, each at its own instant, each able to fail |
| `InspectContainers` | `buildContainer` and `resolveEffectiveUser` as one step; `Collect` has the steps within |
| `Join` | `wg.Wait`, then the errors, then `link` |
| `Evaluate` | selection, suppression, the rules, sorting, score and summary; the context is looked at before each rule |
| `Render` | the report is written and the exit code chosen, or writing fails |
| `Cancel`, `Others` | the deadline or a signal; other users of the daemon |

### Collect

One goroutine per index with its position in the work as `stage`; `sem` is the
channel, `cache` the map under the mutex, `out` the result. The two critical
sections of `resolveEffectiveUser` are `Lookup` and `Store`, with the call `Ask`
between them. `Release` and `Done` are the deferred calls, in their order. The
`n <= 1` case has the caller do the work (`CallInline`). `asked` and `refused`
are history.

### CleanupPanel, CliBridge

The view runs on the main actor: a step is what an event or a task does up to its
next await. `Toggle`, `PickKeepSince` and `SelectEverythingExceptVolumes` change
the choice and start a preview; `PreviewReturns` takes any preview in flight,
newest or oldest; `Press`, `Type`, `Dismiss`, `Confirm` are the button and the
dialog; `ApplyReturns`, `Done`, `DoneContinues` the rest. `Done` awaits the store's
refresh, and the first refresh of the process with something to tell opens the
system's permission dialog and waits in it (`StoreAsks`, `AnswerDialog`); meanwhile
no other refresh starts, and another Done goes on at once. `Navigate` and
`StoreChanges` make the view appear and disappear, the latter because a failed
refresh takes the report off the store and with it the whole detail pane
(finding 5); what the view had in flight then returns to nobody. How a run ends
is an `Ending`, and `RunOutcome` in `CliBridge` says what the app makes of it.

Taken from SwiftUI, whose code is not here: a task that an event starts runs
before the next event; a new `taskKey` cancels the old task, which stops nothing
because `run` has no cancellation point; the dialog belongs to its window, so the
controls behind it do not respond while it is up; a view that goes loses its
`@State`; and the buttons of an open dialog follow the plan. Only the second way
into finding 7 needs the last one. A task that a button starts runs before the next
event: that is why `Confirm` sets `isApplying` in the step of the button. `agreed`,
`hasty`, `ticked`, `unread` and `viewGone` are history.

## 3. The runs

| run | instance | checks | what it shows |
|---|---|---|---|
| `cleanup` | 6 command lines, 1 step of another user, every fault; 1.30M states | `TypeOK VolumeGate KeepSinceHolds InterruptSpares FailedMeansIntact OneRunConverges ExitTellsTruth RunEnds` | consent, age, marks, exit codes, what an interrupt spares, convergence and termination hold whatever fails, answers that are given up and removals that come late included |
| `cleanup_busy` | 2 command lines that do apply, 2 steps of other users anywhere, failing inspects, the context ending, the process killed; 1.35M states | `KeptContainersStayWhole RunningContainersUntouched KeepsPromise` | planning by use-after-cleanup and the daemon's refusals together protect running containers, and kept ones up to the exemptions below, images apart; the run implements `Approval`, a kill with a removal out included |
| `cleanup_retag` | 1 user step | `OnlyPlannedGoes`: violated | finding 1 |
| `cleanup_multitag` | two tags, nobody else | `RemovedMeansGone`: violated | finding 2 |
| `cleanup_order` | 1 user step | `FailureSparesVolumes`: violated | finding 3 |
| `store` | 3 tasks, 2 critical findings, 3 scores; 56k states | `TypeOK HeldIsOnScreen NoNagging CriticalsAreTold FailureIsRetried RefreshEnds` | alerts are told once and never lost, refreshing never gets stuck |
| `store_blank` | the same | `ReportStays`: violated | finding 5 |
| `store_alerts` | the same | `OnlyNewAlerts`: violated | finding 6 |
| `scan` | 14 command lines with config files, 1 step of another user, two networks of one name, every fault; 360k states | `TypeOK UnusedIsUnused CleanupAgrees SummaryAgrees OneExposureOnce EveryFixCounts ScreensLoseNothing SuppressionsTakeEffect ExitMeans ScanEnds` | a report made of five instants calls nothing unused that was in use throughout, agrees with cleanup and with its own summary, loses nothing on the screens, and the exit code speaks of whole reports only |
| `collect` | up to 5 containers, 2 workers, failing inspects; 140k states | `TypeOK PoolBound AsksBounded RootOnlyIfSo SameAsSequential KeepsPromise` | every interleaving of pool, cache and slots describes each container once, from its own answers, and returns after all are done |
| `panel` | 2 kinds, 2 ages, 2 previews in flight, runs that succeed, succeed in part or fail, a permission dialog; 687k states | `TypeOK PatientSeesWhatGoes OneApplyPerView VolumesAskedFor ResultStaysInView SpinnerEnds ApplyIsTold` | whatever the order of events and answers: one apply, volumes only if ticked, a result stays in the view that got it, the spinner gives way unless the permission dialog is left open; a user who waits gets what was shown |
| `panel_confirm` | the same | `VolumesSeenBeforeAgreed`: violated | finding 7 |

**Exemptions.** `KeptContainersStayWhole` says of every container the run leaves
alive that its image and volumes stay; of networks it speaks only for those an
inspect of this run showed for a container the plan keeps, and only where no other
listed network has the same name. `OneRunConverges` is about runs nobody disturbed
and in which no inspect failed, and leaves out images with several tags and networks
of one name. `UnusedIsUnused` is about containers that were there throughout and, for
volumes and networks, were inspected. `FailedMeansIntact` leaves out items whose call
ended without an answer, and `InterruptSpares` the one removal that was out. What
each of these leaves out does happen: see section 4.

**Bounds.** Two containers: one that is there or not, stopped or up, and one
that does not exist when the run starts, which are the two a race needs. Two
images and one tag let a reference move; a second tag is only needed for an
image with two and is in its own run. One volume and one of the daemon's
built-in networks next to an ordinary one cover every branch of the planner.
Each hazard of a shared daemon takes one or two steps of others (create and
start; stop and remove; connect; move a tag), which is what `cleanup_busy`
allows them. The command lines cover `--apply`, `--yes`, a terminal or none, an
unknown format, JSON, `--keep-since`, and the targets none,
`--all` and `--all --volumes`. `MCInit` narrows the daemon's initial states to these, `FullInit`
those of the run with every fault to the ones with the most to remove, and
neither changes what the run does. For the store: two findings make "some new,
some known" possible; the scores 50, 54 and 60 lie on both sides of the
five-point threshold; one task of each kind is what the guard has to keep apart.
For the scan: `c1` is made so that DD001, DD003 to DD010 and DD013 all have
something to say of it, with seven sensitive mounts and seven findings of one
rule, one more than any cap lets through, two of them at different severities;
two networks share a name; `c2` is privileged, unhealthy, started or not, or
appears while the lists are being taken, and takes its user from its image. Five
command lines reach the daemon and nine are mistakes that end before. For the
pool: two workers and five containers, three of one image, keep the semaphore
full while the cache is being filled. For the panel: only the previews in flight
and the Dones that wait are bounded, so users may go on for ever; two kinds are
enough because only volumes are treated apart, and two previews because a third
overtakes like the second. What the bounds leave open, the theorems below cover
where they apply.

**Deadlock.** Checked in every run. A cleanup that is over stutters explicitly
(`Terminated`), so do a scan and a list that have returned (`Finished`); the
store and the panel never stop.

**Fairness.** `cleanup`: weak fairness of the process's own steps, because the
process runs on and every call to the daemon ends, by an answer or by the
context, and the daemon deals with what it is sent. Nobody must answer the
prompt, no fault must happen, and other users need not move; so `RunEnds` allows
waiting at the prompt, and only there. `store`: a scan ends because the child
limits itself (its `--timeout`, 60 s by default; the app's own deadline is not
relied on, see section 6), a scheduled timer fires, and a notification is handed
over. Nobody must answer the permission dialog or press a button, which is why
`RefreshEnds` allows waiting for the dialog. `scan`: the process's own steps, as
for cleanup. `collect`: the loop goes on and each goroutine is scheduled; each
call to the daemon returns, with an error if need be. `panel`: every run of the
CLI returns, again because of its own `--timeout`, and a refresh of the store
ends unless it waits in the permission dialog. Nobody has to press anything or
answer the dialog, which is why `SpinnerEnds` allows waiting for it.

**Mutants.** Every property of a passing run has a mutant in `PROJECT.json`: a
definition of the model changed the way a bug in the code would change it, under
which the run finds the property violated. They are the operators marked
`Mutant:` in the modules.

## 4. Where the code and its words disagree

1. `cleanup_retag`: an image is removed by its display tag. If that tag moves
   between list and call, another image goes, one no plan listed, and the planned
   one stays (`internal/cleanup/cleanup.go:379`).
2. `cleanup_multitag`: an image with two tags loses one, is marked Removed, and
   its bytes are counted, while it is still there.
3. `cleanup_order`: Apply's comment says a failure stops the run before the
   volumes; the loop goes on, as the same comment says one paragraph later.
4. With `--format json` on a terminal the prompt asks about a list that was not
   shown (`internal/cli/cleanup.go:138`). A fact about one line, read off the
   code; no run.
5. `store_blank`: a failed scan takes the report off the screen, which the comment
   in `refresh` rules out.
6. `store_alerts`: the second scan alerts about what was on screen since the first.
7. `panel_confirm`: apply sends the toggles, the dialog is worded by the plan. Tick
   volumes while the preview without them is running: its plan arrives, "Remove"
   asks for no word, and the volumes go (`CleanupView.swift:293`). A preview that
   fails under the open dialog also turns the typed-word dialog into the plain one.

Read off the code without a run, each with its quotation in `PROJECT.json`:

8. a failed inspect makes a container's volumes and networks look unused, and the
   container root, without healthcheck or restart policy (`containers.go:63`);
9. "one inspect per distinct image" is up to eight, and a failed one is cached as
   root (`client.go:98`);
10. `security --only DD015` runs no rule and reports 100, nothing skipped
    (`scan.go:112`);
11. the next steps are ordered by severity, not by what they cost
    (`terminal.go:444`);
12. 100 does not mean "no findings", and the rounded score does saturate
    (`terminal.go:84`);
13. DD017 says DoctorDock never deletes a volume (`resource_rules.go:20`);
14. `safeDefaults` is not what the CLI considers without flags
    (`CleanupPlan.swift:103`);
15. the pipes are read in turn and the deadline starts after both
    (`DoctorDockCLI.swift:123`);
16. `applied` is not looked at before "removed" is shown (`CleanupPlan.swift:72`);
17. "root:root" is uid 0 and not recognised (`container.go:104`);
18. which credential directory a path is described by depends on the order of a
    map (`security_rules.go:237`);
19. `version --check-docker --format json` exits 0 without a daemon
    (`version.go:70`).

Besides these, the code lets some things happen that no text of the repository
rules out. The properties exempt them, and a reader should know of them:

- A network goes although a stopped container still has it in its settings, if the
  container was created, or connected to it, after the run had asked about it, or if
  its inspect failed: the daemon refuses only networks with running endpoints. That
  container cannot start until the network is made again. Its image and volumes are
  safe.
- Of two networks with one name, the users are credited to one; the other is listed
  as unused, by scan and cleanup, and goes if nothing running is attached to it.
- A removal whose answer does not come is marked failed and may be carried out, at
  once or later. After Ctrl-C or the deadline that can be the one item that was out.
- Exit 10 after the applied plan could not be written means that all of it was
  carried out or tried; the code does not tell it from a failure before anything
  was done.
- The result of an apply is gone with its view: when the user picks another section,
  or when a background refresh fails (finding 5).
- While the permission dialog is open the section whose Done opened it shows a bare
  spinner (`CleanupView.swift:229`, `ScanStore.swift:181`).

## 5. What is proved

Each component's theorems follow from one inductive invariant. A property is
seldom inductive: below is what had to be added to it, and why.

### Cleanup

For every set of containers, images, volumes and networks, every set of command
lines and faults and any number of user steps (`CleanupRun_proofs`,
`CleanupEffects_proofs`):

| theorem | states |
|---|---|
| `TypeCorrect` | `Spec => [](TypeOK /\ GateInv)` |
| `VolumesGated` | a volume goes only under `--apply` and `--volumes`, and after `--yes` or the typed `delete` |
| `PromiseKept` | the run implements `Approval`, requests still out after its end included |
| `NothingRunningIsTouched` | no step of the run touches a running container or what it uses |
| `InterruptIsHeeded` | what was not begun when the deadline passed or a signal came is spared, however late the daemon deals with what was |
| `RecentIsKept` | nothing goes that is younger than `--keep-since` |
| `FailedIsIntact` | what is reported as failed was not taken by another item's removal |
| `ExitIsTrue` | the exit code says what became of the plan, 10 after consent included |
| `KeptStaysWhole` | no step of the run takes the image or a volume of a container it leaves alive, or a network its inspect showed for one the plan keeps |
| `OneRunIsEnough` | after an undisturbed run that exits 0 the same command line plans nothing |
| `RunWindsDown` | among unsettled items one always has its turn, and every step of the run leaves fewer to take |

`VolumeGate` alone is not inductive: that a volume is gone says nothing about
the plan, the plan nothing about the flags. `GateInv` closes the chain: how far
the run has come decides what has been agreed to; the approval is the one the
plan's contents call for; a volume is planned only under `--volumes`; and what is gone,
images apart, is in the plan. The step that matters is `NothingElseGoes`: a
removal call takes nothing but its own item and images, because `RemoveVolumes`
and `Force` are false. `TypeOK` needs `GateInv` in turn (an item is only ever
marked if planned), so the two are proved together.

`RunInv` adds what the others need: the plan is the one the lists call for
(`PlanInv`); the daemon holds together, nothing refers to what is gone (`Coherent`);
what is marked Removed was carried out, and outside images what was carried out is
gone and nothing else is (`MarksInv`); once the context has ended, what is out, in
doubt or marked Removed was begun before (`InterruptInv`); the exit code is the one
the marks call for (`ExitInv`).

`InterruptIsHeeded` needs the two before the last together: `GoneWasAskedFor` leads
from a resource that is gone to an item that was carried out, which is removed, out
or in doubt, and `InterruptInv` says that was begun. `KeptStaysWhole` is an action
property, because other users may undo anything between two steps: a step of the run
is a removal or leaves the daemon alone (`OwnStep`); after a removal the daemon still
holds together, so what a live container runs on and mounts is there; and a network
that goes is a planned one, so by `PlanInv` no kept container was seen with it.
`PromiseKept` maps each step by what it does to plan, phase, requests and what is
gone; the step that matters is `CarriesOut`, where the one item dealt with is the
only thing that goes (`RequestKeys`).

`OneRunIsEnough` compares two plans of different instants: `LessInv` says that,
where nobody else moved, the daemon holds what the lists said
less what it has carried out, object by object and list by list, from the first list on;
then planning from the daemon again yields the empty set. Images with several
tags are exempt, which is finding 2, and networks of one name, of which another may
be credited with the users the next time.

`RunWindsDown` is the safety part of `RunEnds`. What is left is a set: the lists
and inspects not heard, the items not sent for, the requests not dealt with, the
items not settled, the places the run may still come to, the context not lost. Every
step of the run, and of the daemon with what it was sent, takes something out of it
and puts nothing back, steps of other users leave it alone, and it is finite for a daemon
with finitely many resources and tags. Together with the fairness of section 3
that is why a run ends, for any plan and any order of failures.

### Scan

For every environment, every config file and command line, any number of steps
of other users and every fault (`ScanRun_proofs`): `ScanTypes`,
`UsedIsNeverUnused`, `CleanupOffersTheSame`, `SummaryTellsTheSame`,
`ExposedOnce`, `SuppressionsHold`, `ExitSpeaksTrue`, `ScreensTellAll`,
`EveryFixLowers`, each stating the property of the `scan` run whose name is
nearest. With them go two about every list of findings, `FixingLowersPenalty` and
`FewerCostNoMore`; `ThresholdsAreFilledIn`, that the rules' thresholds are
positive once normalized and that normalizing twice, as `config` and `scanner`
do between them, changes nothing; and `ScanWindsDown`, that the join of the five
calls never waits for one that cannot answer and that every step of the run
leaves fewer to take, by the argument of `RunWindsDown`.

`ScanInv` has five parts: the types; what configuration and flags were let
through (`AcceptedInv`); that the rules run on all five answers or not at all
(`AnsweredInv`); that the report is the one made of some worst-first listing of
what the rules find in the answers, and the exit code the one it calls for
(`ReportInv`); and that a container which was there all the time is on the list,
once it has been taken, runs what the list says, and was inspected with every network
it stayed joined to (`SteadyInv`, `JoinsInv`). What the rules
find does not depend on the pc any more once all calls have returned, so a
statement about the report becomes one about `Check` and the answers, and the
rest is reasoning about operators, which is in `ScanReport_proofs`:

- `RulesSpeakForThemselves`: each of the eighteen rules returns finitely many
  findings, all under its own number and with a severity that exists;
- folds: the community modules fold over a set by a recursive function that they
  take with CHOOSE, so `FoldExists` first shows that there is one, by induction on
  the size of the subsets it is defined on. The library's induction theorems take
  an operator and cannot be used, so induction is over sets (`NatSetInduction`,
  `SubsetInduction`), from the well-foundedness of the naturals. `AppendFold` then
  says what a fold that appends lists, and `SumFold` what one that adds comes to:
  the sizes of parts that do not overlap add up to the size of the whole;
- `SortedWorstFirst`: `SortFindings` lists each finding of a finite set once,
  none before a worse one (`AppendFold`); `InOrderLists` is the same for the
  places of a list that a filter keeps;
- `PortsOnce`, `ExposuresApart`: `ConvertPorts` keeps one binding of each port,
  and the rules that could report one exposure twice exclude each other;
- `SummaryCounts`, `PlanOffers`, `RulesName`: what the summary's loops, the
  planner and the rules say of one environment, side by side;
- `FindingsPointAtResources`: a finding names a resource that the environment
  has, of the kind it says, which is why every finding has a row in a table
  (`IssuesAddUp`, by `SumFold` over the rows);
- `GroupsLoseNothing`: the groups of the scan screen partition the findings, each
  line names or counts its whole group, and the first findings of the groups keep
  the order of the report; `NextStepsAreWorst` and `ListedIs` say what the
  two lists that are cut leave out;
- the penalty: that a fix lowers it is not evident, because the findings after the
  one that is fixed move up and each costs more than it did. The argument counts
  it instead of adding it. `PenaltyIs` says that it is the number of triples
  (r, k, t) for which at least k findings of rule r cost t units each as the k-th
  (`Units`), and this is where the order, worst first, is needed. A smaller set of
  findings reaches fewer of them (`UnitsGrow`), so costs no more
  (`FewerCostNoMore`), however ties are ordered; and without one of a rule's m
  findings the first unit of an m-th is reached no longer (`FixingLowersPenalty`).
  It needs that a finding's share is never rounded down to nothing:
  `RulesSayLittle` counts what one rule can find.

### Collection

For every length of the list, every size of the pool and every assignment of
images and users (`Collect_proofs`):

- `PoolTypes`: the variables keep their types;
- `PoolBounded`: no more inspects in flight than workers;
- `AsksAreBounded`: no image is asked about more often than that;
- `RootIsNoMistake`: nobody is called root by another's answer;
- `PoolIsSequential`: without a failed image inspect, the result is that of the
  sequential loop;
- `PoolKeepsPromise`: the pool implements `ContainerList` as far as safety goes;
- `PoolRunsDown`: until the call returns the loop, `wg.Wait` or some goroutine may
  step, and each step leaves fewer to take, of at most seven for a container and
  one.

`PoolBound` is not inductive: it needs that the semaphore holds exactly as many
tokens as there are goroutines between taking and returning theirs. For
`AsksBounded` the invariant says that once an image is in the cache nobody starts
to ask about it any more, and that until then every ask belongs to a goroutine
still in flight: the bound on asks is the bound on the pool. The next two rest
on one invariant about where an answer may be at each stage, in `local`, in
`cache` or in a slot, and what it may say of which image. The refinement needs
that a slot is blank until its own goroutine has finished (`BlankInv`), so that
no slot is written twice. `PoolRunsDown` needs the count of tokens once more: when
no goroutine may step none holds one, so the loop is not kept waiting for the
semaphore.

### The app

For every number of tasks, every set of findings and every set of reports
(`ScanStore_proofs`):

- `StoreTypeCorrect`, which contains that `isRefreshing` is up exactly while a
  refresh is under way;
- `ScreenIsHeld`, `NoNaggingEver`, `CriticalsTold`: the three safety properties.

All follow from `StoreInv`, which adds what makes them inductive: two tasks are
never in `refresh` at once; a finding that has alerted is remembered, and is in
the report a suspended refresh will prune against, so pruning cannot forget it;
after the alert every critical of that report is remembered; a streak of
successes means a report is on screen and alerts are on.

For every set of kinds and ages, any number of previews and applies, and every
way a run may end (`CleanupPanel_proofs`):

- `PanelTypes`, `PatientUserSees`, `OneApply`, `VolumesWereTicked`,
  `ResultStays`.

`PanelInv` is the conjunction of what they need: the applies in flight are as
many as `isApplying` says, and the button that starts one is out while it is up;
volumes are among the toggles only if ticked; and, for the user who waits, the
plan on screen is of the current choice whenever no preview is in flight, and the
only preview in flight is of the current choice otherwise. The last part is where
the dialog matters: while it is open no control changes the choice. `ResultStays` is
inductive as it is: only Done takes a result away, and a view that goes leaves
`viewGone` behind.

### Assumptions

They are the named ASSUMEs on the constants, which TLC evaluates in the runs:
the shape of the daemon's relations, subsets of the command lines and faults;
finitely many resources, mounts and published ports, and one mount per
destination, which the daemon enforces; a `PenaltyUnit` that every number of
findings one rule can have divides, which is a choice of unit and always
possible (27720 serves up to twelve; the code's floats are taken to be exact);
reports with a score in 0..100 and tasks that are told apart; a pool of at least
one worker and user names that differ from "not cached"; networks and volumes
among the kinds, and a document only from a run that was started and did not
exit 10.

### Only model-checked

- The liveness part of `Collect`'s `KeepsPromise`, and `RunEnds`,
  `FailureIsRetried`, `RefreshEnds`, `ScanEnds`, `SpinnerEnds`, `ApplyIsTold`:
  liveness under fairness and ENABLED are out of the prover's reach. For the
  pool, the cleanup and the scan the two facts it rests on besides fairness are
  proved: what they wait for can come, and no step can be taken for ever. The
  store and the panel have no such count, since their users may go on for ever.

## 6. What is not modelled, and the plan

Left out of the modelled parts: sizes, reasons, wording and the order of items
of one kind; `previousScore`, `lastUpdated` and the binary's version, which
decide nothing; titles and descriptions of findings; the exponential curve from
penalty to score with its rounding, and the grade, since TLC has integers only;
the order of findings that agree in severity and rule; the items of a plan in
the panel, of which only the kinds matter there; a container whose image has no
ID.

**The bridge's pipes and deadline.** `run` reads stdout to its end, then stderr to
its end, then starts the deadline. A model of two bounded pipes would show a
child that fills stderr and is never read; `doctordock` writes an error of some
lines there and its whole document to stdout, so the state does not occur with
the only child there is. And since it closes its pipes by exiting, the deadline
has nothing to wait for. Both are finding 15; the
models rely on the CLI's own `--timeout` instead.

**Not modelled at all.** `explain.go`, the docs generator, `rules`, `explain` and
`version` print static text or one answer. `fake.go` is a test double. Table
layout, colour and wrapping, the JSON encoding, the share card, the previews and
the self-test are drawing or tooling. The remaining views lay out the store's
state; the one decision among them, which section is shown while the store has no
report, is in `CleanupPanel`.

Every invariant of the passing runs is stated by a theorem of section 5, and so
is every action property. What a change to the code would call for first: a model
of the bridge's two pipes, should it ever run another child than `doctordock`; and
the curve from penalty to score, whose monotonicity carries `EveryFixLowers` over
to the score on the screen up to its rounding.
