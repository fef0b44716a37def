---------------------------- MODULE CleanupPanel ----------------------------
(***************************************************************************)
(* The app's cleanup section (Panel/CleanupView.swift): the user toggles   *)
(* what to consider, each change starts a preview, the plan it returns is  *)
(* shown, agreed to in a dialog and applied, each by a run of the CLI.     *)
(*                                                                         *)
(* Everything runs on the main actor: a step is what an event or a task    *)
(* does from one await to the next.  A task an event starts runs before    *)
(* the next event.  A preview is never stopped: SwiftUI cancels the task   *)
(* of the previous taskKey, which only a cancellation point would notice.  *)
(*                                                                         *)
(* A plan's items are abstracted to the kinds they are of.                 *)
(***************************************************************************)
EXTENDS CliBridge, FiniteSets, SequencesExt

CONSTANTS
  Kinds,        \* what the toggles stand for, networks and volumes among them
  KeepSinces,   \* the picker's choices
  Endings       \* how a run of the CLI may go

ASSUME PanelAssumption ==
  /\ {"networks", "volumes"} \subseteq Kinds
  /\ "Everything" \in KeepSinces
  /\ Endings \subseteq Ending
  /\ \A e \in Endings : e.output = "document" => e.found /\ e.launched /\ e.status # 10

VARIABLES
  section,      \* PanelView's: "cleanup" or "other"
  reported,     \* the store holds a report
  targets, keepSince, plan, isPlanning, isApplying, error, confirming, typed, result,
  previews,     \* choices of the previews in flight, in the order they started
  applies,      \* choices of the applies in flight
  refreshes,    \* how many Done buttons wait for the store's refresh
  asking,       \* one of them is in the system's permission dialog, which the store's
                \* refresh opened
  didRequest,   \* Notifier's: the dialog was opened in this process
  agreed,       \* history: the confirmation of the apply in flight
  hasty,        \* history: the user of this view acted while a preview was under way
  ticked,       \* history: the user of this view ticked volumes, and did not untick it
  unread,       \* history: the document of the latest apply to send one to its view
                \* came, and Done was not pressed
  viewGone      \* history: the view that got it is gone

nav == <<section, reported>>
view == <<targets, keepSince, plan, isPlanning, isApplying, error, confirming, typed, result>>
calls == <<previews, applies, refreshes>>
notifier == <<asking, didRequest>>
history == <<agreed, hasty, ticked, unread, viewGone>>
vars == <<nav, view, calls, notifier, history>>

Choice == [targets : SUBSET Kinds, keepSince : KeepSinces]
NoPlan == [choice |-> [targets |-> {}, keepSince |-> "none"], items |-> {"no plan"}]
Plans == [choice : Choice, items : SUBSET Kinds] \cup {NoPlan}
NoError == "none"
NotAgreed == [targets |-> {}, seen |-> {}, asShown |-> TRUE, hasty |-> FALSE, ticked |-> FALSE]

Chosen == [targets |-> targets, keepSince |-> keepSince]
Shown == section = "cleanup" /\ reported
HasDataLoss(p) == p # NoPlan /\ "volumes" \in p.items

TypeOK ==
  /\ section \in {"cleanup", "other"} /\ reported \in BOOLEAN
  /\ targets \subseteq Kinds /\ keepSince \in KeepSinces
  /\ plan \in Plans
  /\ isPlanning \in BOOLEAN /\ (isPlanning => previews # <<>>)
  /\ isApplying \in BOOLEAN
  /\ error \in Failures \cup {NoError}
  /\ confirming \in BOOLEAN /\ typed \in {"", "delete"} /\ result \in BOOLEAN
  /\ previews \in Seq(Choice) /\ applies \in Seq(Choice) /\ refreshes \in Nat
  /\ asking \in BOOLEAN /\ didRequest \in BOOLEAN
  /\ (asking => didRequest /\ refreshes > 0)
  /\ agreed \in [targets : SUBSET Kinds, seen : SUBSET Kinds, asShown : BOOLEAN,
                 hasty : BOOLEAN, ticked : BOOLEAN]
  /\ hasty \in BOOLEAN /\ ticked \in BOOLEAN /\ unread \in BOOLEAN /\ viewGone \in BOOLEAN

-----------------------------------------------------------------------------
(* CleanupTargets *)
\* Mutant: all is every kind there is.
AllKinds == Kinds

everythingRecreatable == Kinds \ {"volumes"}
safeDefaults == {"networks"}

-----------------------------------------------------------------------------
(* The view appears and goes. *)

\* What a view starts from, and nothing in flight that would write to it.
FreshView(t, k) ==
  /\ targets' = t /\ keepSince' = k
  /\ plan' = NoPlan /\ isApplying' = FALSE /\ error' = NoError
  /\ confirming' = FALSE /\ typed' = "" /\ result' = FALSE
  /\ applies' = <<>> /\ refreshes' = 0 /\ asking' = FALSE
  /\ agreed' = NotAgreed /\ hasty' = FALSE /\ ticked' = FALSE
  /\ viewGone' = (viewGone \/ unread)
  /\ UNCHANGED <<didRequest, unread>>

Init ==
  /\ section = "other" /\ reported \in BOOLEAN
  /\ targets = safeDefaults /\ keepSince = "Everything" /\ plan = NoPlan
  /\ isPlanning = FALSE /\ isApplying = FALSE /\ error = NoError
  /\ confirming = FALSE /\ typed = "" /\ result = FALSE
  /\ previews = <<>> /\ applies = <<>> /\ refreshes = 0
  /\ asking = FALSE /\ didRequest \in BOOLEAN
  /\ agreed = NotAgreed /\ hasty = FALSE /\ ticked = FALSE
  /\ unread = FALSE /\ viewGone = FALSE

\* .task runs preview as the view appears.
Appear ==
  /\ FreshView(safeDefaults, "Everything")
  /\ previews' = <<[targets |-> safeDefaults, keepSince |-> "Everything"]>>
  /\ isPlanning' = TRUE

\* Its state goes with it; the runs go on and nobody hears of them.
Disappear ==
  /\ FreshView(safeDefaults, "Everything")
  /\ previews' = <<>> /\ isPlanning' = FALSE

\* The user picks a section; a dialog must be closed first.
Navigate ==
  /\ reported /\ ~confirming
  /\ \/ section = "other" /\ section' = "cleanup" /\ Appear
     \/ section = "cleanup" /\ section' = "other" /\ Disappear
  /\ UNCHANGED reported

\* A refresh of the store fails, which takes its report and this view off the
\* panel, dialog and all; or one succeeds, and a new view appears.  None starts
\* while another waits for the user's permission.
StoreChanges ==
  /\ ~asking
  /\ reported' = ~reported
  /\ \/ section = "cleanup" /\ reported' /\ Appear
     \/ section = "cleanup" /\ ~reported' /\ Disappear
     \/ section = "other" /\ UNCHANGED <<view, calls, notifier, history>>
  /\ UNCHANGED section

-----------------------------------------------------------------------------
(* preview, up to its await *)
PreviewStarts(t, k) ==
  IF t = {}
  THEN plan' = NoPlan /\ UNCHANGED <<isPlanning, error, previews>>
  ELSE /\ isPlanning' = TRUE /\ error' = NoError
       /\ previews' = Append(previews, [targets |-> t, keepSince |-> k])
       /\ UNCHANGED plan

\* Mutant: taskKey leaves the picker out.
TaskOfTargets(t, k) ==
  IF t # targets THEN PreviewStarts(t, k) ELSE UNCHANGED <<plan, isPlanning, error, previews>>

\* .task(id: taskKey): the key names every part of the choice, so every change
\* starts a preview.
Task(t, k) == PreviewStarts(t, k)

Busy == previews # <<>> \/ refreshes > 0

\* A control changes the choice.
Change(t, k) ==
  /\ Shown /\ ~confirming
  /\ <<t, k>> # <<targets, keepSince>>
  /\ targets' = t /\ keepSince' = k
  /\ Task(t, k)
  /\ hasty' = (hasty \/ Busy)
  /\ UNCHANGED <<nav, isApplying, confirming, typed, result, applies, refreshes, notifier,
                 agreed, unread, viewGone>>

Toggle ==
  \E k \in Kinds :
    /\ Change(IF k \in targets THEN targets \ {k} ELSE targets \cup {k}, keepSince)
    /\ ticked' = IF k = "volumes" THEN k \notin targets ELSE ticked

PickKeepSince ==
  /\ \E k \in KeepSinces : Change(targets, k)
  /\ UNCHANGED ticked

SelectEverythingExceptVolumes ==
  /\ Change(everythingRecreatable, keepSince)
  /\ ticked' = FALSE

-----------------------------------------------------------------------------
(* preview, after its await *)
\* Mutant: isPlanning comes down only where the plan arrives.
PlanningEndsOnSuccess(outcome) == isPlanning' = (isPlanning /\ outcome # "ok")

PlanningEnds(outcome) == isPlanning' = FALSE

PreviewReturns ==
  \E i \in DOMAIN previews : \E e \in Endings :
    /\ previews' = RemoveAt(previews, i)
    /\ PlanningEnds(RunOutcome(e))
    /\ \/ /\ RunOutcome(e) = "ok"
          /\ \E items \in SUBSET previews[i].targets :
               plan' = [choice |-> previews[i], items |-> items]
          /\ UNCHANGED error
       \/ /\ RunOutcome(e) # "ok"
          /\ plan' = NoPlan /\ error' = RunOutcome(e)
    /\ UNCHANGED <<nav, targets, keepSince, isApplying, confirming, typed, result,
                   applies, refreshes, notifier, history>>

-----------------------------------------------------------------------------
(* Agreeing. *)

\* body_: a result, then an error, then an empty choice hide the plan.
PlanShown == Shown /\ ~result /\ error = NoError /\ targets # {} /\ plan # NoPlan

\* Mutant: the button is not disabled while an apply is under way.
AlwaysEnabled == plan.items # {}

RemoveEnabled == ~isApplying /\ plan.items # {}

\* The footer's button.
Press ==
  /\ PlanShown /\ RemoveEnabled /\ ~confirming
  /\ confirming' = TRUE /\ typed' = ""
  /\ hasty' = (hasty \/ Busy)
  /\ UNCHANGED <<nav, targets, keepSince, plan, isPlanning, isApplying, error, result,
                 calls, notifier, agreed, ticked, unread, viewGone>>

\* The field is there while the plan of the moment has volumes.
Type ==
  /\ confirming /\ HasDataLoss(plan) /\ typed = "" /\ typed' = "delete"
  /\ UNCHANGED <<nav, targets, keepSince, plan, isPlanning, isApplying, error, confirming,
                 result, calls, notifier, history>>

Dismiss ==
  /\ confirming /\ confirming' = FALSE
  /\ UNCHANGED <<nav, targets, keepSince, plan, isPlanning, isApplying, error, typed,
                 result, calls, notifier, history>>

\* The destructive button: apply, up to its await, with the choice of the
\* moment.
Confirm ==
  /\ confirming /\ (HasDataLoss(plan) => typed = "delete")
  /\ confirming' = FALSE /\ isApplying' = TRUE
  /\ applies' = Append(applies, Chosen)
  /\ agreed' = [targets |-> targets, seen |-> plan.choice.targets,
                asShown |-> plan.choice = Chosen, hasty |-> hasty, ticked |-> ticked]
  /\ UNCHANGED <<nav, targets, keepSince, plan, isPlanning, error, typed, result,
                 previews, refreshes, notifier, hasty, ticked, unread, viewGone>>

-----------------------------------------------------------------------------
(* apply, after its await *)
\* Mutant: an apply that fails says nothing.
FailSilently(outcome) == UNCHANGED <<plan, error, result>>

\* The plan stays, behind the error.
FailApply(outcome) == error' = outcome /\ UNCHANGED <<plan, result>>

ApplyReturns ==
  \E i \in DOMAIN applies : \E e \in Endings :
    /\ applies' = RemoveAt(applies, i)
    /\ isApplying' = FALSE /\ agreed' = NotAgreed
    /\ \/ RunOutcome(e) = "ok" /\ result' = TRUE /\ plan' = NoPlan /\ UNCHANGED error
       \/ RunOutcome(e) # "ok" /\ FailApply(RunOutcome(e))
    /\ unread' = (unread \/ e.output = "document")
    /\ viewGone' = (viewGone /\ e.output # "document")
    /\ UNCHANGED <<nav, targets, keepSince, isPlanning, confirming, typed,
                   previews, refreshes, notifier, hasty, ticked>>

Done ==
  /\ Shown /\ result /\ ~confirming
  /\ result' = FALSE /\ refreshes' = refreshes + 1 /\ unread' = FALSE
  /\ UNCHANGED <<nav, targets, keepSince, plan, isPlanning, isApplying, error, confirming,
                 typed, previews, applies, notifier, agreed, hasty, ticked, viewGone>>

\* Mutant: Done rescans and leaves the plan as it is.
OnlyRefresh(t, k) == UNCHANGED <<plan, isPlanning, error, previews>>

Replan(t, k) == PreviewStarts(t, k)

\* The store has refreshed, or found a refresh under way and returned; the Done
\* whose refresh waits for the user's permission goes on waiting.
DoneContinues ==
  /\ refreshes > (IF asking THEN 1 ELSE 0)
  /\ refreshes' = refreshes - 1
  /\ Replan(targets, keepSince)
  /\ UNCHANGED <<nav, targets, keepSince, isApplying, confirming, typed, result,
                 applies, notifier, history>>

\* The refresh a Done called has something to tell (notifyIfWorse): the first one of
\* the process opens the system's dialog and waits in it.
StoreAsks ==
  /\ reported /\ refreshes > 0 /\ ~didRequest
  /\ asking' = TRUE /\ didRequest' = TRUE
  /\ UNCHANGED <<nav, view, calls, history>>

\* The user answers the dialog, some day.
AnswerDialog ==
  /\ asking /\ asking' = FALSE
  /\ UNCHANGED <<nav, view, calls, didRequest, history>>

-----------------------------------------------------------------------------
UserActs ==
  Navigate \/ Toggle \/ PickKeepSince \/ SelectEverythingExceptVolumes
    \/ Press \/ Type \/ Dismiss \/ Confirm \/ Done
Returns == PreviewReturns \/ ApplyReturns \/ DoneContinues
Store == StoreChanges \/ StoreAsks
Next == UserActs \/ AnswerDialog \/ Store \/ Returns

\* Every run of the CLI ends: its own --timeout sees to that, and so does a refresh
\* of the store that does not wait in the dialog.  Nobody has to press anything, or
\* to answer the dialog.
Fairness == WF_vars(PreviewReturns) /\ WF_vars(ApplyReturns) /\ WF_vars(DoneContinues)
Spec == Init /\ [][Next]_vars
FairSpec == Spec /\ Fairness

-----------------------------------------------------------------------------
\* For a user who waits for each preview before touching anything else, what is
\* applied is the choice whose plan was on the screen: toggles, the picker, an
\* apply that failed, Done, and a view that went and came back included
\* (CleanupView.apply sends the toggles, not the plan).
PatientSeesWhatGoes == ~agreed.hasty => agreed.asShown

\* isApplying is up exactly while an apply of this view is in flight, and there
\* is one at the most: neither a preview that returns meanwhile nor the dialog
\* lets a second one start.
OneApplyPerView == Len(applies) = IF isApplying THEN 1 ELSE 0

\* Volumes are sent to the CLI only if the user of this very view ticked them:
\* neither a default, nor the button for everything else, nor a view that went
\* away and came back turns them on.
VolumesAskedFor == "volumes" \in agreed.targets => agreed.ticked

\* Once an apply has reported what it did, partial failures included, the view
\* that got it shows it until Done: neither the exit code of a partial failure nor
\* a preview, a toggle, another Done or the store's refresh takes it away.  With the
\* view it is lost: the user who looks at another section, or whose background
\* refresh fails, does not see it again.
ResultStaysInView == unread => result \/ viewGone

\* The bare progress view gives way to a plan, an error, a result or an empty
\* choice, unless a Done waits for the user to answer the permission dialog, and
\* then it is there for as long as that takes.
Waiting == Shown /\ ~result /\ error = NoError /\ targets # {} /\ plan = NoPlan
SpinnerEnds == Waiting ~> ~Waiting \/ asking

\* An apply ends in a result or an error on the screen, unless the view is gone.
ApplyIsTold == isApplying ~> (result \/ error # NoError \/ ~Shown)

\* A volume may be removed only after a plan that was asked for volumes was
\* shown: "What the app adds is seeing the whole plan before agreeing to it."
VolumesSeenBeforeAgreed ==
  "volumes" \in agreed.targets => "volumes" \in agreed.seen
=============================================================================
