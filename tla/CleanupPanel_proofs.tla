------------------------ MODULE CleanupPanel_proofs ------------------------
(***************************************************************************)
(* What holds of the cleanup panel for any kinds, any way the CLI may end, *)
(* and any number of previews in flight.                                   *)
(***************************************************************************)
EXTENDS CleanupPanel, SequenceTheorems, TLAPS

\* The dialog was opened while no apply was under way, and while it is open
\* none can be started but by its own button.
ApplyInv ==
  /\ applies \in Seq(Choice)
  /\ isApplying \in BOOLEAN
  /\ Len(applies) = IF isApplying THEN 1 ELSE 0
  /\ confirming => ~isApplying

\* Volumes are selected only where the user has ticked them.
TickedInv ==
  /\ "volumes" \in targets => ticked
  /\ VolumesAskedFor

\* For a user who waits, every preview in flight is for the choice of the
\* moment; with none in flight so is the plan; and the dialog stands over a
\* plan that nothing is about to replace.
PatientInv ==
  /\ previews \in Seq(Choice) /\ refreshes \in Nat
  /\ targets \subseteq Kinds /\ keepSince \in KeepSinces
  /\ ~hasty => \A i \in DOMAIN previews : previews[i] = Chosen
  /\ ~hasty /\ previews = <<>> => plan = NoPlan \/ plan.choice = Chosen
  /\ ~hasty /\ confirming =>
       previews = <<>> /\ refreshes = 0 /\ ~isApplying /\ plan # NoPlan
  /\ PatientSeesWhatGoes

PanelInv == ApplyInv /\ TickedInv /\ PatientInv /\ ResultStaysInView

-----------------------------------------------------------------------------
LEMMA DefaultChoice ==
  /\ safeDefaults \subseteq Kinds /\ "volumes" \notin safeDefaults
  /\ "Everything" \in KeepSinces
  /\ [targets |-> safeDefaults, keepSince |-> "Everything"] \in Choice
BY PanelAssumption DEF PanelAssumption, safeDefaults, Choice

LEMMA Singletons ==
  /\ <<>> \in Seq(Choice) /\ Len(<<>>) = 0 /\ DOMAIN <<>> = {}
  /\ \A c \in Choice : <<c>> \in Seq(Choice) /\ DOMAIN <<c>> = {1} /\ <<c>>[1] = c
OBVIOUS

LEMMA RemoveOne ==
  ASSUME NEW s \in Seq(Choice), NEW i \in DOMAIN s
  PROVE  /\ RemoveAt(s, i) \in Seq(Choice)
         /\ Len(RemoveAt(s, i)) = Len(s) - 1
         /\ \A j \in DOMAIN RemoveAt(s, i) : \E k \in DOMAIN s : RemoveAt(s, i)[j] = s[k]
<1> DEFINE front == SubSeq(s, 1, i - 1)
           back == SubSeq(s, i + 1, Len(s))
<1>1. i \in 1..Len(s) /\ DOMAIN s = 1..Len(s) /\ Len(s) \in Nat
  OBVIOUS
<1>2. RemoveAt(s, i) = front \o back
  BY DEF RemoveAt
<1>3. /\ front \in Seq(Choice) /\ Len(front) = i - 1
      /\ \A j \in 1..(i - 1) : front[j] = s[j]
  BY <1>1
<1>4. /\ back \in Seq(Choice) /\ Len(back) = Len(s) - i
      /\ \A j \in 1..(Len(s) - i) : back[j] = s[j + i]
  BY <1>1
<1> HIDE DEF front, back
<1>5. front \o back \in Seq(Choice) /\ Len(front \o back) = Len(s) - 1
  <2>1. front \o back \in Seq(Choice) /\ Len(front \o back) = Len(front) + Len(back)
    BY <1>3, <1>4, ConcatProperties
  <2>2. QED  BY <1>1, <1>3, <1>4, <2>1
<1>6. ASSUME NEW j \in DOMAIN (front \o back)
      PROVE  \E k \in DOMAIN s : (front \o back)[j] = s[k]
  <2>1. j \in 1..(Len(s) - 1)
    BY <1>5
  <2>2. CASE j <= i - 1
    <3>1. (front \o back)[j] = s[j]
      BY <1>1, <1>3, <1>4, <2>1, <2>2
    <3>2. QED  BY <1>1, <2>1, <3>1
  <2>3. CASE j > i - 1
    <3>1. (front \o back)[j] = back[j - (i - 1)]
      BY <1>1, <1>3, <1>4, <2>1, <2>3
    <3>2. back[j - (i - 1)] = s[j + 1]
      <4>1. j - (i - 1) \in 1..(Len(s) - i) /\ (j - (i - 1)) + i = j + 1
        BY <1>1, <2>1, <2>3
      <4>2. QED  BY <1>4, <4>1
    <3>3. QED  BY <1>1, <2>1, <3>1, <3>2
  <2>4. QED  BY <1>1, <2>1, <2>2, <2>3
<1>7. QED  BY <1>2, <1>5, <1>6 DEF front, back

LEMMA PanelInit == Init => PanelInv
<1> SUFFICES ASSUME Init PROVE PanelInv
  OBVIOUS
<1>1. ApplyInv
  <2>1. applies = <<>> /\ isApplying = FALSE /\ confirming = FALSE
    BY DEF Init
  <2>2. applies \in Seq(Choice) /\ Len(applies) = 0
    BY <2>1, Singletons
  <2>3. ~isApplying
    BY <2>1
  <2>4. isApplying \in BOOLEAN
    BY <2>1
  <2>5. Len(applies) = (IF isApplying THEN 1 ELSE 0)
    BY <2>2, <2>3
  <2>6. QED  BY <2>1, <2>2, <2>3, <2>4, <2>5, Zenon DEF ApplyInv
<1>2. TickedInv
  BY DefaultChoice DEF Init, TickedInv, VolumesAskedFor, NotAgreed
<1>3. PatientInv
  <2>1. previews \in Seq(Choice) /\ previews = <<>> /\ plan = NoPlan /\ ~confirming
    BY Singletons DEF Init
  <2>2. targets \subseteq Kinds /\ keepSince \in KeepSinces /\ refreshes \in Nat
    BY DefaultChoice DEF Init
  <2>3. PatientSeesWhatGoes
    BY DEF Init, PatientSeesWhatGoes, NotAgreed
  <2>4. QED  BY <2>1, <2>2, <2>3 DEF PatientInv
<1>4. ResultStaysInView
  BY DEF Init, ResultStaysInView
<1>5. QED  BY <1>1, <1>2, <1>3, <1>4 DEF PanelInv

-----------------------------------------------------------------------------
\* A view that appears or goes starts over; what was agreed to stays agreed.
LEMMA ViewChange ==
  ASSUME PanelInv, Appear \/ Disappear
  PROVE  PanelInv'
<1>1. ApplyInv'
  BY Singletons DEF Appear, Disappear, FreshView, ApplyInv
<1>2. TickedInv'
  <2>1. targets' = safeDefaults /\ agreed' = NotAgreed
    BY DEF Appear, Disappear, FreshView
  <2>2. agreed'.targets = {}
    BY <2>1 DEF NotAgreed
  <2>3. QED  BY <2>1, <2>2, DefaultChoice DEF TickedInv, VolumesAskedFor
<1>3. PatientInv'
  <2> DEFINE c == [targets |-> safeDefaults, keepSince |-> "Everything"]
  <2>1. /\ previews' \in Seq(Choice)
        /\ \A i \in DOMAIN previews' : previews'[i] = c
    <3>1. c \in Choice /\ (previews' = <<c>> \/ previews' = <<>>)
      BY DefaultChoice DEF Appear, Disappear
    <3> HIDE DEF c
    <3>2. QED  BY <3>1, Singletons
  <2>2. /\ targets' = safeDefaults /\ keepSince' = "Everything" /\ refreshes' = 0
        /\ plan' = NoPlan /\ ~confirming' /\ agreed' = NotAgreed
    BY DEF Appear, Disappear, FreshView
  <2>3. Chosen' = c
    BY <2>2 DEF Chosen
  <2>4. QED
    BY <2>1, <2>2, <2>3, DefaultChoice DEF PatientInv, PatientSeesWhatGoes, NotAgreed
<1>4. ResultStaysInView'
  BY DEF Appear, Disappear, FreshView, ResultStaysInView
<1>5. QED  BY <1>1, <1>2, <1>3, <1>4 DEF PanelInv

\* A preview that starts is for the choice it is given.
LEMMA PreviewStartsStep ==
  ASSUME PanelInv, NEW t \in SUBSET Kinds, NEW k \in KeepSinces, PreviewStarts(t, k)
  PROVE  /\ previews' \in Seq(Choice)
         /\ \A i \in DOMAIN previews' : \/ previews'[i] = [targets |-> t, keepSince |-> k]
                                        \/ i \in DOMAIN previews /\ previews'[i] = previews[i]
         /\ previews' = <<>> => previews = <<>> /\ plan' = NoPlan
         /\ plan' = NoPlan \/ plan' = plan
<1> DEFINE c == [targets |-> t, keepSince |-> k]
<1>1. previews \in Seq(Choice) /\ c \in Choice
  BY DEF PanelInv, PatientInv, Choice
<1>2. CASE t = {}
  BY <1>1, <1>2 DEF PreviewStarts
<1>3. CASE t # {}
  <2>1. previews' = Append(previews, c) /\ plan' = plan
    BY <1>3 DEF PreviewStarts
  <2>2. QED  BY <1>1, <2>1
<1>4. QED  BY <1>2, <1>3

\* A change of the choice: a patient user makes it with nothing in flight.
LEMMA ChangeStep ==
  ASSUME PanelInv, NEW t \in SUBSET Kinds, NEW k \in KeepSinces, Change(t, k),
         "volumes" \in t => ticked'
  PROVE  PanelInv'
<1>1. ApplyInv'
  BY DEF Change, PanelInv, ApplyInv
<1>2. TickedInv'
  BY DEF Change, PanelInv, TickedInv, VolumesAskedFor
<1>3. PreviewStarts(t, k) /\ targets' = t /\ keepSince' = k /\ ~confirming
      /\ UNCHANGED <<confirming, isApplying, refreshes, agreed>>
      /\ hasty' = (hasty \/ Busy)
  BY DEF Change, Task
<1>4. PatientInv'
  <2>1. CASE hasty'
    BY <1>3, <2>1, PreviewStartsStep DEF PanelInv, PatientInv, PatientSeesWhatGoes
  <2>2. CASE ~hasty'
    <3>1. previews = <<>>
      BY <1>3, <2>2 DEF Busy
    <3>2. /\ \A i \in DOMAIN previews' : previews'[i] = Chosen'
          /\ previews' = <<>> => plan' = NoPlan
      <4>1. Chosen' = [targets |-> t, keepSince |-> k]
        BY <1>3 DEF Chosen
      <4>2. QED  BY <1>3, <3>1, <4>1, PreviewStartsStep, Singletons
    <3>3. QED
      BY <1>3, <3>2, PreviewStartsStep DEF PanelInv, PatientInv, PatientSeesWhatGoes
  <2>3. QED  BY <2>1, <2>2
<1>5. ResultStaysInView'
  BY DEF Change, PanelInv, ResultStaysInView
<1>6. QED  BY <1>1, <1>2, <1>4, <1>5 DEF PanelInv

LEMMA ControlStep ==
  ASSUME PanelInv, Toggle \/ PickKeepSince \/ SelectEverythingExceptVolumes
  PROVE  PanelInv'
<1>1. targets \subseteq Kinds /\ keepSince \in KeepSinces /\ ("volumes" \in targets => ticked)
  BY DEF PanelInv, PatientInv, TickedInv
<1>2. CASE Toggle
  <2>1. PICK k \in Kinds :
          /\ Change(IF k \in targets THEN targets \ {k} ELSE targets \cup {k}, keepSince)
          /\ ticked' = IF k = "volumes" THEN k \notin targets ELSE ticked
    BY <1>2 DEF Toggle
  <2>2. QED  BY <1>1, <2>1, ChangeStep
<1>3. CASE PickKeepSince
  BY <1>1, <1>3, ChangeStep DEF PickKeepSince
<1>4. CASE SelectEverythingExceptVolumes
  BY <1>1, <1>4, ChangeStep DEF SelectEverythingExceptVolumes, everythingRecreatable
<1>5. QED  BY <1>2, <1>3, <1>4

LEMMA PreviewReturnsStep ==
  ASSUME PanelInv, PreviewReturns
  PROVE  PanelInv'
<1>1. PICK i \in DOMAIN previews :
        /\ previews' = RemoveAt(previews, i)
        /\ plan' = NoPlan \/ plan'.choice = previews[i]
  BY DEF PreviewReturns
<1>2. UNCHANGED <<nav, targets, keepSince, isApplying, confirming, typed, result,
                  applies, refreshes, history>>
  BY DEF PreviewReturns
<1>3. ApplyInv' /\ TickedInv' /\ ResultStaysInView'
  BY <1>2 DEF PanelInv, ApplyInv, TickedInv, VolumesAskedFor, ResultStaysInView, history
<1>4. PatientInv'
  <2>1. /\ previews' \in Seq(Choice)
        /\ \A j \in DOMAIN previews' : \E k \in DOMAIN previews : previews'[j] = previews[k]
    BY <1>1, RemoveOne DEF PanelInv, PatientInv
  <2>2. previews # <<>>
    BY <1>1
  <2>3. QED
    BY <1>1, <1>2, <2>1, <2>2
       DEF PanelInv, PatientInv, PatientSeesWhatGoes, Chosen, history
<1>5. QED  BY <1>3, <1>4 DEF PanelInv

\* Pressing, typing and dismissing change no choice and start no run.
LEMMA DialogStep ==
  ASSUME PanelInv, Press \/ Type \/ Dismiss
  PROVE  PanelInv'
<1>1. /\ UNCHANGED <<targets, keepSince, plan, isApplying, result, calls, agreed, ticked, unread, viewGone>>
      /\ confirming' => confirming \/ ~isApplying
      /\ confirming' /\ ~hasty' =>
           \/ confirming /\ ~hasty
           \/ ~Busy /\ ~isApplying /\ plan # NoPlan
      /\ hasty => hasty'
  <2>1. CASE Press
    BY <2>1 DEF Press, PlanShown, RemoveEnabled
  <2>2. CASE Type \/ Dismiss
    <3>1. UNCHANGED <<targets, keepSince, plan, isApplying, result, calls, history>>
      BY <2>2 DEF Type, Dismiss
    <3>2. UNCHANGED <<agreed, hasty, ticked, unread, viewGone>>
      BY <3>1 DEF history
    <3>3. confirming' => confirming
      BY <2>2, Zenon DEF Type, Dismiss
    <3>4. QED  BY <3>1, <3>2, <3>3
  <2>3. QED  BY <2>1, <2>2
<1>2. ApplyInv' /\ TickedInv' /\ ResultStaysInView'
  BY <1>1 DEF calls, PanelInv, ApplyInv, TickedInv, VolumesAskedFor, ResultStaysInView
<1>3. PatientInv'
  <2>1. previews' = previews /\ refreshes' = refreshes /\ Chosen' = Chosen
    BY <1>1 DEF calls, Chosen
  <2>2. ~Busy => previews = <<>> /\ refreshes = 0
    BY DEF Busy, PanelInv, PatientInv
  <2>3. QED  BY <1>1, <2>1, <2>2 DEF PanelInv, PatientInv, PatientSeesWhatGoes
<1>4. QED  BY <1>2, <1>3 DEF PanelInv

\* What is agreed to is the choice of the moment, over the plan of the moment.
LEMMA ConfirmStep ==
  ASSUME PanelInv, Confirm
  PROVE  PanelInv'
<1>1. Chosen \in Choice
  BY DEF PanelInv, PatientInv, Chosen, Choice
<1>2. ApplyInv'
  BY <1>1 DEF Confirm, PanelInv, ApplyInv
<1>3. TickedInv'
  BY DEF Confirm, PanelInv, TickedInv, VolumesAskedFor
<1>4. PatientInv'
  BY DEF Confirm, PanelInv, PatientInv, PatientSeesWhatGoes, Chosen
<1>5. ResultStaysInView'
  BY DEF Confirm, PanelInv, ResultStaysInView
<1>6. QED  BY <1>2, <1>3, <1>4, <1>5 DEF PanelInv

LEMMA ApplyReturnsStep ==
  ASSUME PanelInv, ApplyReturns
  PROVE  PanelInv'
<1>1. PICK i \in DOMAIN applies, e \in Endings :
        /\ applies' = RemoveAt(applies, i) /\ isApplying' = FALSE /\ agreed' = NotAgreed
        /\ \/ RunOutcome(e) = "ok" /\ result' = TRUE /\ plan' = NoPlan
           \/ RunOutcome(e) # "ok" /\ UNCHANGED <<plan, result>>
        /\ unread' = (unread \/ e.output = "document")
        /\ viewGone' = (viewGone /\ e.output # "document")
  BY DEF ApplyReturns, FailApply
<1>2. UNCHANGED <<targets, keepSince, confirming, previews, refreshes, hasty, ticked>>
  BY DEF ApplyReturns
<1>3. ApplyInv'
  <2>1. applies \in Seq(Choice) /\ Len(applies) = 1
    BY <1>1 DEF PanelInv, ApplyInv
  <2>2. applies' \in Seq(Choice) /\ Len(applies') = 0
    BY <1>1, <2>1, RemoveOne
  <2>3. QED  BY <1>1, <2>2 DEF ApplyInv
<1>4. TickedInv' /\ ResultStaysInView'
  <2>1. e.output = "document" => RunOutcome(e) = "ok"
    BY PanelAssumption DEF PanelAssumption, RunOutcome, Decoded, ToolFailed
  <2>2. QED  BY <1>1, <1>2, <2>1 DEF PanelInv, TickedInv, VolumesAskedFor, ResultStaysInView, NotAgreed
<1>5. isApplying
  BY <1>1 DEF PanelInv, ApplyInv
<1>6. PatientInv'
  BY <1>1, <1>2, <1>5 DEF PanelInv, ApplyInv, PatientInv, PatientSeesWhatGoes, Chosen, NotAgreed
<1>7. QED  BY <1>3, <1>4, <1>6 DEF PanelInv

LEMMA DoneStep ==
  ASSUME PanelInv, Done
  PROVE  PanelInv'
<1>1. ApplyInv' /\ TickedInv' /\ ResultStaysInView'
  BY DEF Done, PanelInv, ApplyInv, TickedInv, VolumesAskedFor, ResultStaysInView
<1>2. PatientInv'
  BY DEF Done, PanelInv, PatientInv, PatientSeesWhatGoes, Chosen
<1>3. QED  BY <1>1, <1>2 DEF PanelInv

LEMMA DoneContinuesStep ==
  ASSUME PanelInv, DoneContinues
  PROVE  PanelInv'
<1>1. PreviewStarts(targets, keepSince) /\ refreshes > 0 /\ refreshes' \in Nat
      /\ UNCHANGED <<targets, keepSince, isApplying, confirming, result, applies, history>>
  BY DEF DoneContinues, Replan, PanelInv, PatientInv
<1>2. ApplyInv' /\ TickedInv' /\ ResultStaysInView'
  BY <1>1 DEF PanelInv, ApplyInv, TickedInv, VolumesAskedFor, ResultStaysInView, history
<1>3. PatientInv'
  <2>1. targets \in SUBSET Kinds /\ keepSince \in KeepSinces
    BY DEF PanelInv, PatientInv
  <2>2. ~hasty => \A i \in DOMAIN previews' : previews'[i] = Chosen
    BY <1>1, <2>1, PreviewStartsStep DEF PanelInv, PatientInv, Chosen
  <2>3. /\ previews' \in Seq(Choice)
        /\ previews' = <<>> => previews = <<>> /\ plan' = NoPlan
        /\ plan' = NoPlan \/ plan' = plan
    BY <1>1, <2>1, PreviewStartsStep
  <2>4. Chosen' = Chosen /\ hasty' = hasty /\ agreed' = agreed /\ confirming' = confirming
    BY <1>1 DEF Chosen, history
  <2>5. ~hasty => ~confirming
    BY <1>1 DEF PanelInv, PatientInv
  <2>6. QED
    BY <1>1, <2>1, <2>2, <2>3, <2>4, <2>5 DEF PanelInv, PatientInv, PatientSeesWhatGoes
<1>4. QED  BY <1>2, <1>3 DEF PanelInv

LEMMA PanelNext == PanelInv /\ [Next]_vars => PanelInv'
<1> SUFFICES ASSUME PanelInv, [Next]_vars PROVE PanelInv'
  OBVIOUS
<1>1. CASE UNCHANGED <<view, calls, history>>
  BY <1>1 DEF view, calls, history, PanelInv, ApplyInv, TickedInv, PatientInv,
              VolumesAskedFor, PatientSeesWhatGoes, ResultStaysInView, Chosen
<1>2. CASE Navigate \/ StoreChanges
  BY <1>1, <1>2, ViewChange DEF Navigate, StoreChanges
<1>3. CASE UserActs /\ ~Navigate
  BY <1>3, ControlStep, DialogStep, ConfirmStep, DoneStep DEF UserActs
<1>4. CASE Returns
  BY <1>4, PreviewReturnsStep, ApplyReturnsStep, DoneContinuesStep DEF Returns
<1>5. CASE StoreAsks \/ AnswerDialog
  BY <1>1, <1>5 DEF StoreAsks, AnswerDialog
<1>6. QED  BY <1>1, <1>2, <1>3, <1>4, <1>5 DEF Next, UserActs, Store, vars

LEMMA PanelInvHolds == Spec => []PanelInv
<1>1. QED  BY PanelInit, PanelNext, PTL DEF Spec

-----------------------------------------------------------------------------
\* A user who waits for each preview applies the choice whose plan was on the
\* screen, whatever sequence of toggles, failures, applies and lost views came
\* before.
THEOREM PatientUserSees == Spec => []PatientSeesWhatGoes
<1>1. PanelInv => PatientSeesWhatGoes
  BY DEF PanelInv, PatientInv
<1>2. QED  BY <1>1, PanelInvHolds, PTL

\* A view has one apply in flight at the most, and isApplying says whether.
THEOREM OneApply == Spec => []OneApplyPerView
<1>1. PanelInv => OneApplyPerView
  BY DEF PanelInv, ApplyInv, OneApplyPerView
<1>2. QED  BY <1>1, PanelInvHolds, PTL

\* Volumes reach the CLI only from a user of the very view who ticked them.
THEOREM VolumesWereTicked == Spec => []VolumesAskedFor
<1>1. PanelInv => VolumesAskedFor
  BY DEF PanelInv, TickedInv
<1>2. QED  BY <1>1, PanelInvHolds, PTL

\* What an apply reported to a view stays on it until Done, or until the view goes:
\* no other event takes it away, whichever came before.
THEOREM ResultStays == Spec => []ResultStaysInView
<1>1. PanelInv => ResultStaysInView
  BY DEF PanelInv
<1>2. QED  BY <1>1, PanelInvHolds, PTL

-----------------------------------------------------------------------------
(* The types. *)

LEMMA OutcomeType ==
  ASSUME NEW e \in Endings
  PROVE  RunOutcome(e) \in Failures \cup {"ok"}
<1>1. e \in Ending
  BY PanelAssumption DEF PanelAssumption
<1>2. Decoded(e.output) \in Failures \cup {"ok"}
  BY <1>1 DEF Ending, Decoded, Failures
<1>3. QED  BY <1>1, <1>2 DEF RunOutcome, Ending, Failures

\* What the view remembers, and what the runs under way may still change.
ScreenTypes ==
  /\ section \in {"cleanup", "other"} /\ reported \in BOOLEAN
  /\ targets \subseteq Kinds /\ keepSince \in KeepSinces
  /\ isApplying \in BOOLEAN
  /\ confirming \in BOOLEAN /\ typed \in {"", "delete"} /\ result \in BOOLEAN
  /\ agreed \in [targets : SUBSET Kinds, seen : SUBSET Kinds, asShown : BOOLEAN,
                 hasty : BOOLEAN, ticked : BOOLEAN]
  /\ hasty \in BOOLEAN /\ ticked \in BOOLEAN /\ unread \in BOOLEAN /\ viewGone \in BOOLEAN

PlanTypes ==
  /\ plan \in Plans
  /\ isPlanning \in BOOLEAN /\ (isPlanning => previews # <<>>)
  /\ error \in Failures \cup {NoError}
  /\ previews \in Seq(Choice)

RunTypes ==
  /\ applies \in Seq(Choice) /\ refreshes \in Nat
  /\ asking \in BOOLEAN /\ didRequest \in BOOLEAN
  /\ (asking => didRequest /\ refreshes > 0)

Types == ScreenTypes /\ PlanTypes /\ RunTypes

LEMMA TypesAre == TypeOK <=> Types
BY DEF TypeOK, Types, ScreenTypes, PlanTypes, RunTypes

LEMMA PlanStartsTypes ==
  ASSUME PlanTypes, NEW t \in SUBSET Kinds, NEW k \in KeepSinces, PreviewStarts(t, k)
  PROVE  PlanTypes'
<1> DEFINE c == [targets |-> t, keepSince |-> k]
<1>1. c \in Choice /\ previews \in Seq(Choice) /\ plan \in Plans
  BY DEF Choice, PlanTypes
<1>2. CASE t = {}
  <2>1. plan' \in Plans /\ UNCHANGED <<isPlanning, error, previews>>
    BY <1>2 DEF PreviewStarts, Plans
  <2>2. QED  BY <2>1 DEF PlanTypes
<1>3. CASE t # {}
  <2>1. /\ previews' = Append(previews, c) /\ isPlanning' = TRUE
        /\ error' = NoError /\ plan' = plan
    BY <1>3 DEF PreviewStarts
  <2> HIDE DEF c
  <2>2. previews' \in Seq(Choice) /\ previews' # <<>>
    BY <1>1, <2>1
  <2>3. QED  BY <1>1, <2>1, <2>2 DEF PlanTypes
<1>4. QED  BY <1>2, <1>3

LEMMA TypeInit == Init => Types
<1> SUFFICES ASSUME Init PROVE Types
  OBVIOUS
<1>1. ScreenTypes
  BY DefaultChoice DEF Init, ScreenTypes, NotAgreed
<1>2. PlanTypes
  BY Singletons DEF Init, PlanTypes, Plans
<1>3. RunTypes
  BY Singletons DEF Init, RunTypes
<1>4. QED  BY <1>1, <1>2, <1>3 DEF Types

LEMMA ViewTypes ==
  ASSUME Types, section' \in {"cleanup", "other"}, reported' \in BOOLEAN, Appear \/ Disappear
  PROVE  Types'
<1> DEFINE c == [targets |-> safeDefaults, keepSince |-> "Everything"]
<1>1. FreshView(safeDefaults, "Everything")
  BY DEF Appear, Disappear
<1>2. ScreenTypes'
  BY <1>1, DefaultChoice DEF FreshView, Types, ScreenTypes, NotAgreed
<1>3. RunTypes'
  BY <1>1, Singletons DEF FreshView, Types, RunTypes
<1>4. PlanTypes'
  <2>1. plan' \in Plans /\ error' = NoError
    BY <1>1 DEF FreshView, Plans
  <2>2. CASE Appear
    <3>1. c \in Choice /\ previews' = <<c>> /\ isPlanning' = TRUE
      BY <2>2, DefaultChoice DEF Appear
    <3> HIDE DEF c
    <3>2. previews' \in Seq(Choice) /\ previews' # <<>>
      BY <3>1, Singletons
    <3>3. QED  BY <2>1, <3>1, <3>2 DEF PlanTypes
  <2>3. CASE Disappear
    BY <2>1, <2>3, Singletons DEF Disappear, PlanTypes
  <2>4. QED  BY <1>1, <2>2, <2>3 DEF Appear, Disappear
<1>5. QED  BY <1>2, <1>3, <1>4 DEF Types

LEMMA ChoiceTypes ==
  ASSUME Types, NEW t \in SUBSET Kinds, NEW k \in KeepSinces, Change(t, k), ticked' \in BOOLEAN
  PROVE  Types'
<1>1. PlanTypes'
  BY PlanStartsTypes DEF Change, Task, Types
<1>2. ScreenTypes'
  BY DEF Change, Types, ScreenTypes, nav
<1>3. QED  BY <1>1, <1>2 DEF Change, Types, RunTypes, notifier

LEMMA TypeNext == Types /\ [Next]_vars => Types'
<1> SUFFICES ASSUME Types, [Next]_vars PROVE Types'
  OBVIOUS
<1>1. ASSUME UNCHANGED <<section, reported, targets, keepSince, isApplying, confirming, typed,
                         result, agreed, hasty, ticked, unread, viewGone>>
      PROVE  ScreenTypes'
  BY <1>1 DEF Types, ScreenTypes
<1>2. ASSUME UNCHANGED <<plan, isPlanning, error, previews>>
      PROVE  PlanTypes'
  BY <1>2 DEF Types, PlanTypes
<1>3. ASSUME UNCHANGED <<applies, refreshes, notifier>>
      PROVE  RunTypes'
  BY <1>3 DEF Types, RunTypes, notifier
<1>4. CASE UNCHANGED vars
  BY <1>1, <1>2, <1>3, <1>4 DEF vars, nav, view, calls, notifier, history, Types
<1>5. CASE Navigate \/ StoreChanges
  <2>1. section' \in {"cleanup", "other"} /\ reported' \in BOOLEAN
    BY <1>5 DEF Navigate, StoreChanges, Types, ScreenTypes
  <2>2. CASE UNCHANGED <<view, calls, notifier, history>>
    <3>1. ScreenTypes'
      BY <2>1, <2>2 DEF view, history, Types, ScreenTypes
    <3>2. QED  BY <1>2, <1>3, <2>2, <3>1 DEF view, calls, notifier, Types
  <2>3. QED  BY <1>5, <2>1, <2>2, ViewTypes DEF Navigate, StoreChanges
<1>6. targets \subseteq Kinds /\ keepSince \in KeepSinces /\ ticked \in BOOLEAN
  BY DEF Types, ScreenTypes
<1>7. CASE Toggle
  <2>1. PICK k \in Kinds :
          /\ Change(IF k \in targets THEN targets \ {k} ELSE targets \cup {k}, keepSince)
          /\ ticked' = IF k = "volumes" THEN k \notin targets ELSE ticked
    BY <1>7 DEF Toggle
  <2>2. ticked' \in BOOLEAN
    BY <1>6, <2>1
  <2>3. QED  BY <1>6, <2>1, <2>2, ChoiceTypes
<1>8. CASE PickKeepSince
  BY <1>6, <1>8, ChoiceTypes DEF PickKeepSince
<1>9. CASE SelectEverythingExceptVolumes
  BY <1>6, <1>9, ChoiceTypes DEF SelectEverythingExceptVolumes, everythingRecreatable
<1>10. CASE PreviewReturns
  <2>1. PICK i \in DOMAIN previews, e \in Endings :
          /\ previews' = RemoveAt(previews, i) /\ isPlanning' = FALSE
          /\ \/ /\ \E items \in SUBSET previews[i].targets :
                     plan' = [choice |-> previews[i], items |-> items]
                /\ UNCHANGED error
             \/ RunOutcome(e) # "ok" /\ plan' = NoPlan /\ error' = RunOutcome(e)
    BY <1>10 DEF PreviewReturns, PlanningEnds
  <2>2. previews' \in Seq(Choice) /\ previews[i] \in Choice
    BY <2>1, RemoveOne DEF Types, PlanTypes
  <2>3. plan' \in Plans
    BY <2>1, <2>2 DEF Plans, Choice
  <2>4. error' \in Failures \cup {NoError}
    BY <2>1, OutcomeType DEF Types, PlanTypes
  <2>5. PlanTypes'
    BY <2>1, <2>2, <2>3, <2>4 DEF PlanTypes
  <2>6. QED  BY <1>1, <1>3, <1>10, <2>5 DEF PreviewReturns, Types, nav, history
<1>11. CASE Press
  <2>1. ScreenTypes'
    BY <1>11 DEF Press, Types, ScreenTypes, nav
  <2>2. QED  BY <1>2, <1>3, <1>11, <2>1 DEF Press, Types, calls
<1>12. CASE Type \/ Dismiss
  <2>1. ScreenTypes'
    BY <1>12 DEF Type, Dismiss, Types, ScreenTypes, nav, history
  <2>2. QED  BY <1>2, <1>3, <1>12, <2>1 DEF Type, Dismiss, Types, calls
<1>13. CASE Confirm
  <2>1. Chosen \in Choice
    BY <1>6 DEF Chosen, Choice
  <2>2. RunTypes'
    <3>1. applies' = Append(applies, Chosen) /\ UNCHANGED <<refreshes, notifier>>
      BY <1>13 DEF Confirm
    <3>2. QED  BY <2>1, <3>1 DEF Types, RunTypes, notifier
  <2>3. plan.choice.targets \subseteq Kinds
    <3>1. plan \in Plans
      BY DEF Types, PlanTypes
    <3>2. CASE plan = NoPlan
      BY <3>2 DEF NoPlan
    <3>3. CASE plan \in [choice : Choice, items : SUBSET Kinds]
      BY <3>3 DEF Choice
    <3>4. QED  BY <3>1, <3>2, <3>3 DEF Plans
  <2>4. ScreenTypes'
    BY <1>13, <2>3 DEF Confirm, Types, ScreenTypes, nav
  <2>5. QED  BY <1>2, <1>13, <2>2, <2>4 DEF Confirm, Types
<1>14. CASE ApplyReturns
  <2>1. PICK i \in DOMAIN applies, e \in Endings :
          /\ applies' = RemoveAt(applies, i) /\ isApplying' = FALSE
          /\ \/ result' = TRUE /\ plan' = NoPlan /\ UNCHANGED error
             \/ RunOutcome(e) # "ok" /\ error' = RunOutcome(e) /\ UNCHANGED <<plan, result>>
          /\ agreed' = NotAgreed
          /\ unread' = (unread \/ e.output = "document")
          /\ viewGone' = (viewGone /\ e.output # "document")
    BY <1>14 DEF ApplyReturns, FailApply
  <2>2. RunTypes'
    BY <1>14, <2>1, RemoveOne DEF ApplyReturns, Types, RunTypes, notifier
  <2>3. PlanTypes'
    <3>1. plan' \in Plans /\ error' \in Failures \cup {NoError}
      BY <2>1, OutcomeType DEF Types, PlanTypes, Plans
    <3>2. QED  BY <1>14, <3>1 DEF ApplyReturns, Types, PlanTypes
  <2>4. ScreenTypes'
    BY <1>14, <2>1 DEF ApplyReturns, Types, ScreenTypes, nav, NotAgreed
  <2>5. QED  BY <2>2, <2>3, <2>4 DEF Types
<1>15. CASE Done
  <2>1. ScreenTypes'
    BY <1>15 DEF Done, Types, ScreenTypes, nav
  <2>2. RunTypes'
    BY <1>15 DEF Done, Types, RunTypes, notifier
  <2>3. QED  BY <1>2, <1>15, <2>1, <2>2 DEF Done, Types
<1>16. CASE DoneContinues
  <2>1. PlanTypes'
    BY <1>6, <1>16, PlanStartsTypes DEF DoneContinues, Replan, Types
  <2>2. RunTypes'
    BY <1>16 DEF DoneContinues, Types, RunTypes, notifier
  <2>3. QED  BY <1>1, <1>16, <2>1, <2>2 DEF DoneContinues, Types, nav, history
<1>17. CASE StoreAsks \/ AnswerDialog
  <2>1. RunTypes'
    BY <1>17 DEF StoreAsks, AnswerDialog, Types, RunTypes, calls
  <2>2. UNCHANGED <<nav, view, calls, history>>
    BY <1>17 DEF StoreAsks, AnswerDialog
  <2>3. QED  BY <1>1, <1>2, <2>1, <2>2 DEF nav, view, calls, history, Types
<1>18. QED
  BY <1>4, <1>5, <1>7, <1>8, <1>9, <1>10, <1>11, <1>12, <1>13, <1>14, <1>15, <1>16, <1>17
  DEF Next, UserActs, Store, Returns

\* The panel's state has its types: a plan is of a choice the toggles can make or
\* there is none, an error is one the bridge reports, and the section says it is
\* planning only while a preview is in flight.
THEOREM PanelTypes == Spec => []TypeOK
<1>1. QED  BY TypeInit, TypeNext, TypesAre, PTL DEF Spec
============================================================================
