-------------------------- MODULE ScanStore_proofs --------------------------
(***************************************************************************)
(* What holds of the scan store for any number of tasks, critical findings *)
(* and reports.                                                            *)
(***************************************************************************)
EXTENDS ScanStore, TLAPS

LEMMA StoreInit ==
  ASSUME Init
  PROVE  TypeOK /\ StoreInv
<1>1. Blank \in Report
  BY DEF Blank, Report
<1>2. isRefreshing = \E t \in Tasks : pc[t] # "idle"
  BY DEF Init
<1>3. TypeOK
  <2>1. started \in BOOLEAN /\ timer \in BOOLEAN
    BY Zenon DEF Init
  <2>2. alerts \in [Criticals -> 0..2] /\ streak \in 0..2
    BY DEF Init
  <2>3. /\ pc \in [Tasks -> {"idle", "scanning", "dropSent", "criticalSent"}]
        /\ got \in [Tasks -> Report]
    BY <1>1 DEF Init
  <2>4. QED  BY <1>1, <1>2, <2>1, <2>2, <2>3 DEF Init, TypeOK
<1>4. StoreInv
  BY DEF Init, StoreInv, HeldIsOnScreen, NoNagging, CriticalsAreTold, Sending
<1>5. QED  BY <1>3, <1>4

-----------------------------------------------------------------------------
(* The pieces the steps are made of. *)

\* A refresh that begins finds no other one, and leaves reports and alerts.
LEMMA BeginStep ==
  ASSUME TypeOK, StoreInv, NEW t \in Tasks, MayRefresh, Begin(t), UNCHANGED history,
         UNCHANGED <<notifyOnScoreDrop, notifyOnNewCritical>>,
         started' \in BOOLEAN, timer' \in BOOLEAN
  PROVE  TypeOK' /\ StoreInv'
<1> USE DEF Begin, history
<1>1. \A u \in Tasks : pc[u] = "idle" /\ (pc'[u] = IF u = t THEN "scanning" ELSE "idle")
  BY DEF TypeOK, MayRefresh
<1>2. TypeOK'
  BY <1>1 DEF TypeOK
<1>3. StoreInv'
  BY <1>1 DEF TypeOK, StoreInv, HeldIsOnScreen, NoNagging, CriticalsAreTold, Sending
<1>4. QED  BY <1>2, <1>3

\* A refresh that ends is the only one.
LEMMA ReleaseStep ==
  ASSUME TypeOK, StoreInv, NEW t \in Tasks, pc[t] # "idle", Release(t)
  PROVE  /\ isRefreshing' = \E u \in Tasks : pc'[u] # "idle"
         /\ isRefreshing' = FALSE
         /\ pc' \in [Tasks -> {"idle", "scanning", "dropSent", "criticalSent"}]
         /\ got' \in [Tasks -> Report]
         /\ \A u \in Tasks : pc'[u] = "idle"
<1>1. \A u \in Tasks : u # t => pc[u] = "idle"
  BY DEF StoreInv
<1>2. Blank \in Report
  BY DEF Blank, Report
<1>3. QED
  BY <1>1, <1>2 DEF Release, TypeOK

\* A refresh that waits for a notification to be handed over is the only one.
LEMMA SuspendStep ==
  ASSUME TypeOK, StoreInv, NEW t \in Tasks, pc[t] # "idle", NEW r \in Report,
         NEW at \in {"dropSent", "criticalSent"}, Suspend(t, at, r)
  PROVE  /\ isRefreshing' = \E u \in Tasks : pc'[u] # "idle"
         /\ isRefreshing' = TRUE
         /\ pc' = [u \in Tasks |-> IF u = t THEN at ELSE "idle"]
         /\ got' \in [Tasks -> Report] /\ got'[t] = r
         /\ permission' \in {"unasked", "asking", "granted", "denied"}
<1>1. \A u \in Tasks : u # t => pc[u] = "idle"
  BY DEF StoreInv
<1>2. isRefreshing = TRUE
  BY DEF TypeOK
<1>3. pc' = [u \in Tasks |-> IF u = t THEN at ELSE "idle"]
  BY <1>1 DEF Suspend, TypeOK
<1>4. isRefreshing' = TRUE /\ pc'[t] # "idle"
  BY <1>2, <1>3 DEF Suspend
<1>5. permission' \in {"unasked", "asking", "granted", "denied"}
  BY DEF Suspend, Send, TypeOK
<1>6. got' \in [Tasks -> Report] /\ got'[t] = r
  BY DEF Suspend, TypeOK
<1>7. QED  BY <1>3, <1>4, <1>5, <1>6

\* What is known when the scan has returned r and counts are the alerts since.
Counted(r, counts) ==
  /\ counts \in [Criticals -> 0..2]
  /\ \A c \in Criticals : counts[c] <= 1
  /\ \A c \in Criticals : counts[c] = 1 => c \in notifiedCritical /\ c \in r.criticals

\* Completing keeps everything, provided what is due has been told.
LEMMA CompleteStep ==
  ASSUME TypeOK, StoreInv, NEW t \in Tasks, pc[t] # "idle", NEW r \in Report,
         Complete(t, r), report' = r, state' = "loaded",
         Counted(r, alerts'), seen' \subseteq Criticals, streak' \in 0..2,
         UNCHANGED <<settings, started>>,
         streak' > 0 => notifyOnNewCritical,
         streak' = 2 => r.criticals \subseteq notifiedCritical
  PROVE  TypeOK' /\ StoreInv'
<1>1. /\ isRefreshing' = \E u \in Tasks : pc'[u] # "idle"
      /\ isRefreshing' = FALSE
      /\ pc' \in [Tasks -> {"idle", "scanning", "dropSent", "criticalSent"}]
      /\ got' \in [Tasks -> Report]
      /\ \A u \in Tasks : pc'[u] = "idle"
  BY ReleaseStep DEF Complete
<1>2. r.criticals \subseteq Criticals
  BY DEF Report
<1>3. TypeOK'
  BY <1>1, <1>2 DEF TypeOK, Complete, Counted, settings
<1>4. CriticalsAreTold'
  BY <1>2 DEF CriticalsAreTold, Complete
<1>5. HeldIsOnScreen' /\ NoNagging'
  BY <1>1 DEF HeldIsOnScreen, NoNagging, Sending, Counted
<1>6. \A c \in Criticals : alerts'[c] = 1 => c \in notifiedCritical'
  BY DEF Complete, Counted
<1>7. QED
  BY <1>1, <1>3, <1>4, <1>5, <1>6 DEF StoreInv, Sending, settings

\* So does telling, which suspends or completes.
LEMMA TellStep ==
  ASSUME TypeOK, StoreInv, NEW t \in Tasks, pc[t] # "idle", NEW r \in Report, NEW counts,
         TellCriticals(t, r, counts), report' = r, state' = "loaded",
         Counted(r, counts), seen' \subseteq Criticals, streak' \in 0..2,
         UNCHANGED <<settings, started>>,
         streak' > 0 => notifyOnNewCritical
  PROVE  TypeOK' /\ StoreInv'
<1>1. r.criticals \subseteq Criticals
  BY DEF Report
<1>2. CASE ~(notifyOnNewCritical /\ Fresh(r) # {})
  <2>1. Complete(t, r) /\ alerts' = counts
    BY <1>2 DEF TellCriticals
  <2>2. streak' = 2 => r.criticals \subseteq notifiedCritical
    BY <1>2 DEF Fresh
  <2>3. QED  BY <2>1, <2>2, CompleteStep
<1>3. CASE notifyOnNewCritical /\ Fresh(r) # {}
  <2>1. /\ notifiedCritical' = notifiedCritical \cup r.criticals
        /\ alerts' = [c \in Criticals |->
             IF c \in Fresh(r) /\ counts[c] < 2 THEN counts[c] + 1 ELSE counts[c]]
        /\ Suspend(t, "criticalSent", r)
    BY <1>3 DEF TellCriticals, Fresh
  <2>2. /\ isRefreshing' = \E u \in Tasks : pc'[u] # "idle"
        /\ isRefreshing' = TRUE
        /\ pc' = [u \in Tasks |-> IF u = t THEN "criticalSent" ELSE "idle"]
        /\ got' \in [Tasks -> Report] /\ got'[t] = r
        /\ permission' \in {"unasked", "asking", "granted", "denied"}
    BY <2>1, SuspendStep
  <2>3. ASSUME NEW c \in Criticals
        PROVE  /\ alerts'[c] \in 0..1
               /\ alerts'[c] = 1 => c \in notifiedCritical' /\ c \in r.criticals
    <3>1. c \in Fresh(r) => counts[c] = 0
      BY DEF Counted, Fresh
    <3>2. counts[c] \in 0..1
      BY DEF Counted
    <3>3. QED  BY <2>1, <3>1, <3>2 DEF Counted, Fresh
  <2>4. alerts' \in [Criticals -> 0..2]
    BY <2>1, <2>3
  <2>5. TypeOK'
    BY <1>1, <2>1, <2>2, <2>4 DEF TypeOK, settings
  <2>6. HeldIsOnScreen' /\ NoNagging' /\ CriticalsAreTold'
    BY <2>2, <2>3 DEF HeldIsOnScreen, NoNagging, CriticalsAreTold, Sending
  <2>7. \A c \in Criticals : alerts'[c] = 1 =>
          c \in notifiedCritical' /\ \A u \in Tasks : Sending(u)' => c \in got'[u].criticals
    BY <2>2, <2>3 DEF Sending
  <2>8. \A u \in Tasks : pc'[u] = "criticalSent" => got'[u].criticals \subseteq notifiedCritical'
    BY <2>1, <2>2
  <2>9. QED
    BY <2>2, <2>5, <2>6, <2>7, <2>8 DEF StoreInv, settings
<1>4. QED  BY <1>2, <1>3

-----------------------------------------------------------------------------
(* The steps. *)

LEMMA ScanFailsStep ==
  ASSUME TypeOK, StoreInv, NEW t \in Tasks, ScanFails(t)
  PROVE  TypeOK' /\ StoreInv'
<1>1. /\ isRefreshing' = \E u \in Tasks : pc'[u] # "idle"
      /\ isRefreshing' = FALSE
      /\ pc' \in [Tasks -> {"idle", "scanning", "dropSent", "criticalSent"}]
      /\ got' \in [Tasks -> Report]
      /\ \A u \in Tasks : pc'[u] = "idle"
  BY ReleaseStep DEF ScanFails
<1>2. TypeOK'
  BY <1>1 DEF TypeOK, ScanFails, settings
<1>3. StoreInv'
  BY <1>1 DEF StoreInv, ScanFails, HeldIsOnScreen, NoNagging, CriticalsAreTold, Sending, settings
<1>4. QED  BY <1>2, <1>3

LEMMA ScanSucceedsStep ==
  ASSUME TypeOK, StoreInv, NEW t \in Tasks, NEW r \in Reports, ScanSucceeds(t, r)
  PROVE  TypeOK' /\ StoreInv'
<1> DEFINE counts == [c \in Criticals |-> IF c \in r.criticals THEN alerts[c] ELSE 0]
<1>1. r \in Report
  BY StoreAssumption
<1>2. /\ pc[t] = "scanning" /\ state' = "loaded" /\ report' = r
      /\ streak' = IF notifyOnNewCritical THEN (IF streak = 0 THEN 1 ELSE 2) ELSE 0
      /\ UNCHANGED <<settings, started>>
  BY DEF ScanSucceeds
<1>3. seen' \subseteq Criticals
  BY DEF ScanSucceeds, TypeOK, Report
<1>4. Counted(r, counts)
  BY DEF Counted, TypeOK, StoreInv, NoNagging
<1>5. streak' \in 0..2 /\ (streak' > 0 => notifyOnNewCritical)
  BY <1>2
<1> HIDE DEF counts
<1>6. CASE state # "loaded" /\ Complete(t, r) /\ alerts' = counts
  <2>1. streak' # 2
    BY <1>2, <1>6 DEF StoreInv, TypeOK
  <2>2. QED  BY <1>1, <1>2, <1>3, <1>4, <1>5, <1>6, <2>1, CompleteStep
<1>7. CASE Suspend(t, "dropSent", r) /\ UNCHANGED notifiedCritical /\ alerts' = counts
  <2>1. /\ isRefreshing' = \E u \in Tasks : pc'[u] # "idle"
        /\ isRefreshing' = TRUE
        /\ pc' = [u \in Tasks |-> IF u = t THEN "dropSent" ELSE "idle"]
        /\ got' \in [Tasks -> Report] /\ got'[t] = r
        /\ permission' \in {"unasked", "asking", "granted", "denied"}
    BY <1>1, <1>2, <1>7, SuspendStep
  <2>2. TypeOK'
    BY <1>1, <1>2, <1>3, <1>4, <1>5, <1>7, <2>1 DEF TypeOK, Counted, settings
  <2>3. HeldIsOnScreen' /\ NoNagging' /\ CriticalsAreTold'
    BY <1>2, <1>4, <1>7, <2>1 DEF HeldIsOnScreen, NoNagging, CriticalsAreTold, Sending, Counted
  <2>4. \A c \in Criticals : alerts'[c] = 1 =>
          c \in notifiedCritical' /\ \A u \in Tasks : Sending(u)' => c \in got'[u].criticals
    BY <1>4, <1>7, <2>1 DEF Sending, Counted
  <2>5. QED
    BY <1>2, <1>5, <2>1, <2>2, <2>3, <2>4 DEF StoreInv, settings
<1>8. CASE TellCriticals(t, r, counts)
  BY <1>1, <1>2, <1>3, <1>4, <1>5, <1>8, TellStep
<1>9. QED
  BY <1>6, <1>7, <1>8 DEF ScanSucceeds, counts

\* A task that was suspended in a notification goes on.
LEMMA SentStep ==
  ASSUME TypeOK, StoreInv, NEW t \in Tasks, DropSent(t) \/ CriticalSent(t)
  PROVE  TypeOK' /\ StoreInv'
<1>1. /\ pc[t] # "idle" /\ got[t] \in Report
      /\ state = "loaded" /\ got[t] = report
  BY DEF DropSent, CriticalSent, TypeOK, StoreInv, HeldIsOnScreen, Sending
<1>2. Counted(got[t], alerts)
  BY DEF Counted, DropSent, CriticalSent, TypeOK, StoreInv, NoNagging, Sending
<1>3. CASE DropSent(t)
  <2>1. /\ TellCriticals(t, got[t], alerts)
        /\ UNCHANGED <<state, report, settings, started, seen, streak>>
    BY <1>3 DEF DropSent
  <2>2. QED  BY <1>1, <1>2, <2>1, TellStep DEF TypeOK, StoreInv
<1>4. CASE CriticalSent(t)
  <2>1. /\ Complete(t, got[t]) /\ got[t].criticals \subseteq notifiedCritical
        /\ UNCHANGED <<state, report, settings, started, history>>
    BY <1>4 DEF CriticalSent, StoreInv
  <2>2. QED  BY <1>1, <1>2, <2>1, CompleteStep DEF TypeOK, StoreInv, history
<1>5. QED  BY <1>3, <1>4

LEMMA StoreStep ==
  ASSUME TypeOK, StoreInv, [Next]_vars
  PROVE  TypeOK' /\ StoreInv'
<1>1. ASSUME NEW t \in Tasks, Refresh(t)
      PROVE  TypeOK' /\ StoreInv'
  BY <1>1, BeginStep DEF Refresh, settings, TypeOK
<1>2. CASE FirstScan
  <2>1. CASE MayRefresh /\ Begin(First)
    BY <1>2, <2>1, BeginStep DEF FirstScan, Tasks
  <2>2. CASE UNCHANGED store
    BY <1>2, <2>2 DEF FirstScan, store, history, TypeOK, StoreInv, HeldIsOnScreen, NoNagging,
                      CriticalsAreTold, Sending
  <2>3. QED  BY <1>2, <2>1, <2>2 DEF FirstScan
<1>3. CASE Tick \/ UserRefreshes
  BY <1>1, <1>3 DEF Tick, UserRefreshes, Tasks
<1>4. ASSUME NEW t \in Tasks, ScanEnds(t)
      PROVE  TypeOK' /\ StoreInv'
  BY <1>4, ScanFailsStep, ScanSucceedsStep DEF ScanEnds
<1>5. CASE AnswerDialog
  BY <1>5 DEF AnswerDialog, settings, history, TypeOK, StoreInv, HeldIsOnScreen, NoNagging,
              CriticalsAreTold, Sending
<1>6. CASE SetInterval
  BY <1>6 DEF SetInterval, store, history, TypeOK, StoreInv, HeldIsOnScreen, NoNagging,
              CriticalsAreTold, Sending
<1>7. CASE SetNotify
  BY <1>7 DEF SetNotify, store, TypeOK, StoreInv, HeldIsOnScreen, NoNagging,
              CriticalsAreTold, Sending
<1>8. CASE UNCHANGED vars
  BY <1>8 DEF vars, store, settings, history, TypeOK, StoreInv, HeldIsOnScreen, NoNagging,
              CriticalsAreTold, Sending
<1>9. QED
  BY <1>2, <1>3, <1>4, <1>5, <1>6, <1>7, <1>8, SentStep DEF Next

-----------------------------------------------------------------------------
(* The theorems. *)

LEMMA StoreInvariance == Spec => [](TypeOK /\ StoreInv)
<1>1. TypeOK /\ StoreInv /\ [Next]_vars => (TypeOK /\ StoreInv)'
  BY StoreStep
<1>2. QED
  BY <1>1, StoreInit, PTL DEF Spec

\* isRefreshing is up exactly while a refresh is under way, wherever it waits
\* and however it ends.
THEOREM StoreTypeCorrect == Spec => []TypeOK
BY StoreInvariance, PTL

\* The report a suspended refresh works on is the one on screen.
THEOREM ScreenIsHeld == Spec => []HeldIsOnScreen
<1>1. StoreInv => HeldIsOnScreen
  BY DEF StoreInv
<1>2. QED  BY <1>1, StoreInvariance, PTL

\* A critical finding alerts once until a scan comes back without it.
THEOREM NoNaggingEver == Spec => []NoNagging
<1>1. StoreInv => NoNagging
  BY DEF StoreInv
<1>2. QED  BY <1>1, StoreInvariance, PTL

\* Two successful scans in a row with alerts on leave no critical finding untold.
THEOREM CriticalsTold == Spec => []CriticalsAreTold
<1>1. StoreInv => CriticalsAreTold
  BY DEF StoreInv
<1>2. QED  BY <1>1, StoreInvariance, PTL
=============================================================================
