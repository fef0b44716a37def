----------------------- MODULE CleanupEffects_proofs -----------------------
(***************************************************************************)
(* What a run of CleanupRun does to the daemon and says of it afterwards:  *)
(* nothing running is touched, nobody loses what the run could know they   *)
(* need, the marks and the exit code are true, an interrupt spares what is *)
(* not begun, the promise of Approval is kept, and one undisturbed run is  *)
(* enough.                                                                 *)
(***************************************************************************)
EXTENDS CleanupRun_proofs

-----------------------------------------------------------------------------
(* The daemon holds together: tags and containers their images, containers  *)
(* their volumes, running containers their networks.                        *)

LEMMA UserStepCoherent ==
  ASSUME DockerTypeOK, Coherent, UserStep
  PROVE  Coherent'
<1> USE DockerAssumption DEF DockerAssumption, DockerTypeOK, Coherent, Live, Stopped, Active
<1>1. ASSUME NEW c \in Containers, UserCreate(c)
      PROVE  Coherent'
  BY <1>1 DEF UserCreate
<1>2. ASSUME NEW c \in Containers, UserStart(c) \/ UserStop(c) \/ UserRemove(c)
      PROVE  Coherent'
  BY <1>2 DEF UserStart, UserStop, UserRemove
<1>3. ASSUME NEW t \in Tags, NEW i \in Images, UserTag(t, i)
      PROVE  Coherent'
  BY <1>3 DEF UserTag
<1>4. ASSUME NEW v \in Volumes, UserVolume(v)
      PROVE  Coherent'
  BY <1>4 DEF UserVolume
<1>5. ASSUME NEW n \in Networks, UserDropNetwork(n)
      PROVE  Coherent'
  BY <1>5 DEF UserDropNetwork, RefusesNetwork, NetworkRemove
<1>6. ASSUME NEW c \in Containers, NEW n \in Networks, UserConnect(c, n) \/ UserDisconnect(c, n)
      PROVE  Coherent'
  BY <1>6 DEF UserConnect, UserDisconnect
<1>7. QED
  BY <1>1, <1>2, <1>3, <1>4, <1>5, <1>6 DEF UserStep

\* A removal the daemon carries out leaves nothing dangling: what it refuses is
\* exactly what would.
LEMMA RemovalCoherent ==
  ASSUME DockerTypeOK, Coherent, NEW i \in Item, Removes(i)
  PROVE  Coherent'
<1> USE DockerAssumption DEF DockerAssumption, DockerTypeOK, Coherent, Live, Stopped, Active
<1>1. CASE RemoveContainer(i.id)
  BY <1>1 DEF RemoveContainer, RefusesContainer, ContainerRemove
<1>2. CASE i.name # NoTag /\ ~RefusesTag(i.name) /\ ImageRemoveTag(i.name)
  <2>1. i.name \in Tags
    BY <1>2 DEF Item
  <2>2. QED
    BY <1>2, <2>1 DEF RefusesTag, ImageRemoveTag, TagsOf, Users
<1>3. CASE ~RefusesImageID(i.id) /\ ImageRemoveID(i.id)
  BY <1>3 DEF RefusesImageID, ImageRemoveID, Users
<1>4. CASE RemoveNetwork(i.id)
  BY <1>4 DEF RemoveNetwork, RefusesNetwork, NetworkRemove
<1>5. CASE RemoveVolume(i.id)
  BY <1>5 DEF RemoveVolume, RefusesVolume, VolumeRemove
<1>6. QED
  BY <1>1, <1>2, <1>3, <1>4, <1>5 DEF Removes, RemoveImage

-----------------------------------------------------------------------------
(* What each kind of step leaves alone.                                     *)

LEMMA CollectFrame ==
  ASSUME Collect
  PROVE  /\ pc = "collecting"
         /\ UNCHANGED <<dockerVars, young, budget, o, pc, plan, shown, approval, ctxDone,
                        calls, marks, exit, history>>
BY DEF Collect, ListContainers, InspectContainer, ListImages, ListVolumes, ListNetworks,
       Returns, Collects

\* Steps that only move the run along.
Moves == CollectFails \/ Decide \/ (\E word \in {"y", "delete", "no"} : Answer(word))
           \/ Finish \/ Cancel \/ Kill

LEMMA MovesFrame ==
  ASSUME Moves
  PROVE  UNCHANGED <<dockerVars, young, budget, o, listed, env, calls, marks, deleted, doubt>>
BY DEF Moves, CollectFails, Decide, Answer, Finish, Cancel, Kill, history

\* Asking for an item, and hearing of it or not, is the run's own affair.
LEMMA ApplyFrame ==
  ASSUME NEW i \in plan, Send(i) \/ Answered(i) \/ GiveUp(i)
  PROVE  /\ pc = "applying"
         /\ UNCHANGED <<dockerVars, young, budget, o, pc, listed, env, plan, shown, approval,
                        ctxDone, carried, exit, deleted, begun>>
BY DEF Send, Answered, GiveUp

\* What the daemon makes of a request.
LEMMA DealFrame ==
  ASSUME NEW i \in plan, CarriesOut(i) \/ ComesToNothing(i)
  PROVE  /\ i \in requests /\ requests' = requests \ {i}
         /\ UNCHANGED <<young, budget, o, pc, listed, env, plan, shown, approval, ctxDone,
                        out, marks, exit, doubt, begun>>
         /\ \/ /\ Removes(i) /\ carried' = carried \cup {i}
               /\ deleted' = deleted \cup (Present \ Present')
            \/ UNCHANGED <<dockerVars, carried, deleted>>
BY DEF CarriesOut, ComesToNothing, history

\* These five and the other users are all there is.
LEMMA Steps ==
  ASSUME [Next]_vars
  PROVE  \/ Collect \/ Moves \/ Others \/ UNCHANGED vars
         \/ \E i \in plan : Send(i) \/ Answered(i) \/ GiveUp(i)
         \/ \E i \in plan : CarriesOut(i) \/ ComesToNothing(i)
BY DEF Next, Apply, Deal, Terminated, Moves

LEMMA CoherentStep ==
  ASSUME TypeOK, Coherent, [Next]_vars
  PROVE  Coherent'
<1>1. ASSUME UNCHANGED dockerVars PROVE Coherent'
  BY <1>1 DEF dockerVars, Coherent, Live
<1>2. CASE Collect \/ Moves \/ UNCHANGED vars
  BY <1>1, <1>2, CollectFrame, MovesFrame DEF vars
<1>3. CASE Others
  BY <1>3, UserStepCoherent DEF Others, TypeOK
<1>4. ASSUME NEW i \in plan, Send(i) \/ Answered(i) \/ GiveUp(i)
      PROVE  Coherent'
  BY <1>1, <1>4, ApplyFrame
<1>5. ASSUME NEW i \in plan, CarriesOut(i) \/ ComesToNothing(i)
      PROVE  Coherent'
  <2>1. Removes(i) \/ UNCHANGED dockerVars
    BY <1>5, DealFrame
  <2>2. i \in Item
    BY DEF TypeOK
  <2>3. QED  BY <1>1, <2>1, <2>2, RemovalCoherent DEF TypeOK
<1>6. QED
  BY <1>2, <1>3, <1>4, <1>5, Steps

-----------------------------------------------------------------------------
(* The plan is what Plan makes of the lists, and stays that.                *)

PlanInv == plan = {} \/ plan = Plan(env, o)

LEMMA PlanStep ==
  ASSUME TypeOK, GateInv, PlanInv, [Next]_vars
  PROVE  PlanInv'
<1>1. CASE Collect
  BY <1>1, CollectFrame DEF GateInv, PlanInv
<1>2. CASE Moves
  <2>1. env' = env /\ o' = o
    BY <1>2, MovesFrame
  <2>2. plan' = plan \/ plan' = Plan(env, o)
    BY <1>2 DEF Moves, CollectFails, Decide, Answer, Finish, Cancel, Kill
  <2>3. QED  BY <2>1, <2>2 DEF PlanInv
<1>3. CASE Others \/ UNCHANGED vars
  BY <1>3 DEF Others, vars, runVars, PlanInv
<1>4. ASSUME NEW i \in plan,
             Send(i) \/ Answered(i) \/ GiveUp(i) \/ CarriesOut(i) \/ ComesToNothing(i)
      PROVE  PlanInv'
  BY <1>4, ApplyFrame, DealFrame DEF PlanInv
<1>5. QED
  BY <1>1, <1>2, <1>3, <1>4, Steps

\* What an item of a plan is, by its kind; only images have a name.
LEMMA PlannedItem ==
  ASSUME NEW e \in Environment, NEW q, NEW i \in Plan(e, q)
  PROVE  \/ /\ i.kind = "container" /\ i.name = NoTag
            /\ i.id \in e.containers /\ i.id \in DoomedContainers(e, q)
         \/ /\ i.kind = "image" /\ i.name = DisplayName(e, i.id)
            /\ i.id \in e.images /\ ImageGoes(e, q, i.id)
         \/ /\ i.kind = "network" /\ i.name = NoTag
            /\ i.id \in e.networks /\ NetworkGoes(e, q, i.id)
         \/ /\ i.kind = "volume" /\ i.name = NoTag
            /\ i.id \in e.volumes /\ VolumeGoes(e, q, i.id)
<1>1. CASE i \in PlanContainers(e, q)
  BY <1>1 DEF PlanContainers, DoomedContainers
<1>2. CASE i \in PlanImages(e, q)
  BY <1>2 DEF PlanImages
<1>3. CASE i \in PlanNetworks(e, q)
  BY <1>3 DEF PlanNetworks
<1>4. CASE i \in PlanVolumes(e, q)
  BY <1>4 DEF PlanVolumes
<1>5. QED
  BY <1>1, <1>2, <1>3, <1>4 DEF Plan

\* A key names one item of the plan.
LEMMA OneItemPerKey ==
  ASSUME TypeOK, PlanInv, NEW i \in plan, NEW j \in plan, Key(i) = Key(j)
  PROVE  i = j
<1>1. i \in Item /\ j \in Item /\ i.kind = j.kind /\ i.id = j.id
  BY DEF TypeOK, Key
<1>2. i.name = j.name
  BY <1>1, PlannedItem DEF PlanInv, TypeOK
<1>3. QED
  BY <1>1, <1>2 DEF Item

-----------------------------------------------------------------------------
(* The marks: Removed means carried out, and outside images what is carried *)
(* out is gone by the run's doing, and nothing else is.                     *)

MarksInv ==
  /\ removed \subseteq carried
  /\ \A i \in carried : i.kind # "image" => Key(i) \in deleted
  /\ \A k \in NotImages(deleted) : \E i \in carried : k = Key(i)

\* A removal the daemon carries out takes the item's own resource, images apart.
LEMMA RemovalRemoves ==
  ASSUME TypeOK, PlanInv, NEW i \in plan, Removes(i), i.kind # "image"
  PROVE  Key(i) \in Present \ Present'
<1>1. /\ i.kind \in {"container", "network", "volume"}
      /\ i.kind = "container" => i.id \in Containers
      /\ i.kind = "network" => i.id \in Networks
      /\ i.kind = "volume" => i.id \in Volumes
  BY PlannedItem DEF PlanInv, TypeOK, Environment
<1> USE <1>1 DEF Present, Live, Key, TypeOK, DockerTypeOK
<1>2. CASE i.kind = "container" /\ RemoveContainer(i.id)
  BY <1>2 DEF RemoveContainer, RefusesContainer, ContainerRemove, Stopped, Status
<1>3. CASE i.kind = "network" /\ RemoveNetwork(i.id)
  BY <1>3 DEF RemoveNetwork, RefusesNetwork, NetworkRemove
<1>4. CASE i.kind = "volume" /\ RemoveVolume(i.id)
  BY <1>4 DEF RemoveVolume, RefusesVolume, VolumeRemove
<1>5. QED
  BY <1>2, <1>3, <1>4 DEF Removes

LEMMA MarksStep ==
  ASSUME TypeOK, GateInv, PlanInv, MarksInv, [Next]_vars
  PROVE  MarksInv'
<1>1. CASE Collect \/ Moves \/ Others \/ UNCHANGED vars
  <2>1. UNCHANGED <<removed, carried, deleted>>
    BY <1>1, CollectFrame, MovesFrame DEF Others, vars, runVars, history, calls, marks
  <2>2. QED  BY <2>1 DEF MarksInv, NotImages
<1>2. ASSUME NEW i \in plan, Send(i) \/ Answered(i) \/ GiveUp(i)
      PROVE  MarksInv'
  <2>1. UNCHANGED <<carried, deleted>>
    BY <1>2, ApplyFrame
  <2>2. removed' \subseteq carried
    BY <1>2 DEF Send, Answered, GiveUp, SettleRemoved, SettleFailed, marks, MarksInv
  <2>3. QED  BY <2>1, <2>2 DEF MarksInv, NotImages
<1>3. ASSUME NEW i \in plan, CarriesOut(i) \/ ComesToNothing(i)
      PROVE  MarksInv'
  <2>1. removed' = removed
    BY <1>3, DealFrame DEF marks
  <2>2. CASE UNCHANGED <<carried, deleted>>
    BY <2>1, <2>2 DEF MarksInv, NotImages
  <2>3. CASE /\ Removes(i) /\ carried' = carried \cup {i}
             /\ deleted' = deleted \cup (Present \ Present')
    <3>1. NotImages(Present \ Present') \subseteq {Key(i)}
      BY <2>3, NothingElseGoes DEF TypeOK
    <3>2. i.kind # "image" => Key(i) \in deleted'
      BY <2>3, RemovalRemoves
    <3>3. \A k \in NotImages(deleted') : k \in NotImages(deleted) \/ k = Key(i)
      BY <2>3, <3>1 DEF NotImages
    <3>4. \A j \in carried' : j.kind # "image" => Key(j) \in deleted'
      BY <2>3, <3>2 DEF MarksInv
    <3>5. QED  BY <2>1, <2>3, <3>3, <3>4 DEF MarksInv
  <2>4. QED  BY <1>3, <2>2, <2>3, DealFrame
<1>4. QED
  BY <1>1, <1>2, <1>3, Steps

\* What is gone is an item the run has settled, has out, or has given up.
LEMMA GoneWasAskedFor ==
  ASSUME TypeOK, PlanInv, MarksInv, NEW i \in plan, i.kind # "image", Key(i) \in deleted
  PROVE  i \in carried /\ i \in removed \cup out \cup doubt
<1>1. PICK j \in carried : Key(i) = Key(j)
  BY DEF MarksInv, NotImages, Key
<1>2. j \in plan /\ j \in removed \cup out \cup doubt
  BY <1>1 DEF TypeOK
<1>3. QED  BY <1>1, <1>2, OneItemPerKey

-----------------------------------------------------------------------------
(* The interrupt.  What is begun when it comes bounds what is out, given up  *)
(* or marked Removed from then on.                                          *)

InterruptInv == ctxDone => removed \cup out \cup doubt \subseteq begun

LEMMA InterruptStep ==
  ASSUME TypeOK, InterruptInv, [Next]_vars
  PROVE  InterruptInv'
<1>1. ASSUME UNCHANGED <<ctxDone, out, removed, doubt, begun>>
      PROVE  InterruptInv'
  BY <1>1 DEF InterruptInv
<1>2. CASE Collect \/ Others \/ UNCHANGED vars
  BY <1>1, <1>2, CollectFrame DEF Others, vars, runVars, history, calls, marks
<1>3. CASE CollectFails \/ Decide \/ (\E word \in {"y", "delete", "no"} : Answer(word))
             \/ Finish \/ Kill
  BY <1>1, <1>3 DEF CollectFails, Decide, Answer, Finish, Kill, history, calls, marks
<1>4. CASE Cancel
  BY <1>4 DEF Cancel, InterruptInv, TypeOK, calls, marks
<1>5. ASSUME NEW i \in plan, Send(i) \/ Answered(i) \/ GiveUp(i)
      PROVE  InterruptInv'
  <2>1. UNCHANGED <<ctxDone, begun>>
    BY <1>5, ApplyFrame
  <2>2. ctxDone => removed' \cup out' \cup doubt' \subseteq removed \cup out \cup doubt
    BY <1>5 DEF Send, Answered, GiveUp, SettleRemoved, SettleFailed, marks
  <2>3. QED  BY <2>1, <2>2 DEF InterruptInv
<1>6. ASSUME NEW i \in plan, CarriesOut(i) \/ ComesToNothing(i)
      PROVE  InterruptInv'
  BY <1>1, <1>6, DealFrame DEF marks
<1>7. QED
  BY <1>2, <1>3, <1>4, <1>5, <1>6, Steps DEF Moves

-----------------------------------------------------------------------------
(* The exit code.                                                           *)

ExitInv ==
  /\ pc # "done" => exit = "none"
  /\ exit = "ok" /\ Agreed => plan = removed
  /\ exit = "warning" => Agreed /\ failed # {}
  /\ exit = "error" /\ Agreed => Unsettled = {}

LEMMA ExitStep ==
  ASSUME TypeOK, GateInv, ExitInv, [Next]_vars
  PROVE  ExitInv'
<1>1. ASSUME UNCHANGED <<pc, exit, approval, plan, removed, failed>>
      PROVE  ExitInv'
  BY <1>1 DEF ExitInv, Agreed, Unsettled
<1>2. CASE Collect
  BY <1>1, <1>2, CollectFrame DEF marks
<1>3. CASE Others \/ UNCHANGED vars
  BY <1>1, <1>3 DEF Others, vars, runVars, marks
<1>4. CASE Moves
  <2> USE DEF ExitInv, Agreed, Exit, GateInv, Unsettled, marks
  <2>1. CASE CollectFails
    BY <2>1 DEF CollectFails
  <2>2. CASE Decide
    BY <2>2 DEF Decide
  <2>3. ASSUME NEW word \in {"y", "delete", "no"}, Answer(word)
        PROVE  ExitInv'
    BY <2>3 DEF Answer
  <2>4. CASE Finish
    <3>1. failed = {} => plan = removed
      BY <2>4 DEF Finish, Unsettled, TypeOK
    <3>2. QED  BY <2>4, <3>1 DEF Finish
  <2>5. CASE Cancel \/ Kill
    BY <2>5 DEF Cancel, Kill, Running, Ended
  <2>6. QED  BY <1>4, <2>1, <2>2, <2>3, <2>4, <2>5 DEF Moves
<1>5. ASSUME NEW i \in plan, Send(i) \/ Answered(i) \/ GiveUp(i)
      PROVE  ExitInv'
  BY <1>5, ApplyFrame DEF ExitInv, Agreed
<1>6. ASSUME NEW i \in plan, CarriesOut(i) \/ ComesToNothing(i)
      PROVE  ExitInv'
  BY <1>1, <1>6, DealFrame DEF marks
<1>7. QED
  BY <1>2, <1>3, <1>4, <1>5, <1>6, Steps

-----------------------------------------------------------------------------
(* The run as a whole.                                                      *)

RunInv ==
  TypeOK /\ GateInv /\ Coherent /\ PlanInv /\ MarksInv /\ InterruptInv /\ ExitInv

LEMMA RunInvHolds == Spec => []RunInv
<1>1. Init => RunInv
  <2>1. Init => PlanInv /\ MarksInv /\ InterruptInv /\ ExitInv /\ Coherent
    BY DEF Init, DockerInit, PlanInv, MarksInv, InterruptInv, ExitInv, NotImages, Agreed
  <2>2. QED  BY <2>1, TypeInit, GateInit DEF RunInv
<1>2. RunInv /\ [Next]_vars => RunInv'
  BY TypeStep, GateStep, CoherentStep, PlanStep, MarksStep, InterruptStep, ExitStep
  DEF RunInv
<1>3. QED
  BY <1>1, <1>2, PTL DEF Spec

-----------------------------------------------------------------------------
(* The theorems. *)

\* What a step that spends nothing of the others' budget does to the daemon: at most
\* one removal, carried out.
LEMMA OwnStep ==
  ASSUME TypeOK, [Next]_vars, budget' = budget
  PROVE  UNCHANGED dockerVars \/ \E i \in plan : Removes(i)
<1>1. ~Others
  BY DEF Others, UserStep, UserCreate, UserStart, UserStop, UserRemove, UserTag, UserVolume,
         UserDropNetwork, UserConnect, UserDisconnect, Spend, TypeOK, DockerTypeOK
<1>2. QED
  BY <1>1, Steps, CollectFrame, MovesFrame, ApplyFrame, DealFrame DEF vars

\* A removal leaves every container as it was, or gone.
LEMMA RemovalLeavesContainers ==
  ASSUME DockerTypeOK, NEW i, Removes(i)
  PROVE  /\ UNCHANGED <<joined, runsOn>>
         /\ \A c \in Containers : ctr'[c] = ctr[c] \/ (ctr[c] \in Stopped /\ ctr'[c] = "gone")
BY DEF Removes, RemoveContainer, RefusesContainer, ContainerRemove, RemoveImage, ImageRemoveTag,
       ImageRemoveID, RemoveNetwork, NetworkRemove, RemoveVolume, VolumeRemove, DockerTypeOK

\* The removals' refusals, Force being false, close the window between the list
\* and the removal: whatever started in between is not touched, and keeps its
\* image, its volumes and its networks.
THEOREM NothingRunningIsTouched == Spec => RunningContainersUntouched
<1>1. ASSUME RunInv, RunInv', [Next]_vars, budget' = budget,
             NEW c \in Containers, ctr[c] \in Active
      PROVE  /\ ctr'[c] = ctr[c] /\ runsOn[c] \in img'
             /\ Mounts[c] \subseteq vol' /\ joined[c] \subseteq net'
  <2>1. ctr'[c] = ctr[c] /\ UNCHANGED <<joined, runsOn>>
    <3>1. CASE UNCHANGED dockerVars
      BY <3>1 DEF dockerVars
    <3>2. CASE \E i \in plan : Removes(i)
      BY <1>1, <3>2, RemovalLeavesContainers DEF RunInv, TypeOK, Active, Stopped
    <3>3. QED  BY <1>1, <3>1, <3>2, OwnStep DEF RunInv
  <2>2. QED
    BY <1>1, <2>1 DEF RunInv, Coherent, Live, Active
<1>2. RunInv /\ RunInv' /\ [Next]_vars =>
        [budget' = budget =>
           \A c \in Containers : ctr[c] \in Active =>
             /\ ctr'[c] = ctr[c] /\ runsOn[c] \in img'
             /\ Mounts[c] \subseteq vol' /\ joined[c] \subseteq net']_vars
  BY <1>1
<1>3. QED
  BY <1>2, RunInvHolds, PTL DEF Spec, RunningContainersUntouched

\* No step of the run takes the image or a volume of any container it leaves alive,
\* since the daemon refuses; nor a network that an inspect showed for a container the
\* plan keeps, since that network is then not planned.
THEOREM KeptStaysWhole == Spec => KeptContainersStayWhole
<1>1. ASSUME RunInv, RunInv', [Next]_vars, budget' = budget,
             NEW c \in Containers, Live(c), ctr'[c] # "gone"
      PROVE  runsOn[c] \in img' /\ Mounts[c] \subseteq vol'
  <2>1. runsOn' = runsOn /\ ctr'[c] = ctr[c]
    <3>1. CASE UNCHANGED dockerVars
      BY <3>1 DEF dockerVars
    <3>2. CASE \E i \in plan : Removes(i)
      BY <1>1, <3>2, RemovalLeavesContainers DEF RunInv, TypeOK
    <3>3. QED  BY <1>1, <3>1, <3>2, OwnStep DEF RunInv
  <2>2. QED  BY <1>1, <2>1 DEF RunInv, Coherent, Live
<1>2. ASSUME RunInv, [Next]_vars, budget' = budget,
             NEW c \in (env.containers \cap env.inspected) \ DoomedContainers(env, o),
             NEW n \in env.joined[c] \cap net, Namesakes(env, n) \subseteq {n}, n \notin net'
      PROVE  FALSE
  <2>1. PICK i \in plan : Removes(i)
    BY <1>2, OwnStep DEF RunInv, dockerVars
  <2>2. i.kind = "network" /\ i.id = n
    BY <1>2, <2>1 DEF Removes, RemoveContainer, ContainerRemove, RemoveImage, ImageRemoveTag,
                      ImageRemoveID, RemoveNetwork, NetworkRemove, RemoveVolume, VolumeRemove
  <2>3. n \in env.networks /\ NetworkGoes(env, o, n)
    BY <1>2, <2>2, PlannedItem DEF RunInv, PlanInv, TypeOK
  <2>4. Namesakes(env, n) = {n}
    BY <1>2, <2>3 DEF Namesakes
  <2>5. LinkedByName(env, n)
    BY <2>4 DEF LinkedByName
  <2>6. c \in NetworkUsers(env, n)
    BY <1>2, <2>5 DEF NetworkUsers
  <2>7. QED  BY <1>2, <2>3, <2>6 DEF NetworkGoes, Spare, UsedAfterCleanup
<1>3. RunInv /\ RunInv' /\ [Next]_vars =>
        [budget' = budget =>
           \A c \in Containers : Live(c) /\ ctr'[c] # "gone" =>
             /\ runsOn[c] \in img' /\ Mounts[c] \subseteq vol'
             /\ c \in (env.containers \cap env.inspected) \ DoomedContainers(env, o) =>
                  \A n \in env.joined[c] \cap net : Namesakes(env, n) \subseteq {n} => n \in net']_vars
  BY <1>1, <1>2
<1>4. QED
  BY <1>3, RunInvHolds, PTL DEF Spec, KeptContainersStayWhole

\* When the deadline passes or a signal comes, at most one removal is out and the rest
\* of the plan has not been asked for: none of that rest goes or is marked Removed,
\* whatever the daemon still does with what it was sent.
THEOREM InterruptIsHeeded == Spec => []InterruptSpares
<1>1. ASSUME RunInv, ctxDone, NEW i \in plan \ begun
      PROVE  i \notin removed /\ (i.kind # "image" => Key(i) \notin deleted)
  <2>1. i \notin removed \cup out \cup doubt
    BY <1>1 DEF RunInv, InterruptInv
  <2>2. QED  BY <1>1, <2>1, GoneWasAskedFor DEF RunInv
<1>2. RunInv => InterruptSpares
  BY <1>1 DEF InterruptSpares
<1>3. QED
  BY <1>2, RunInvHolds, PTL

\* What the lists said was created inside the --keep-since window is not among
\* what the run made go.
THEOREM RecentIsKept == Spec => []KeepSinceHolds
<1>1. ASSUME RunInv, NEW k \in NotImages(deleted)
      PROVE  ~TooRecent(env, o, k)
  <2>1. PICK i \in plan : k = Key(i)
    BY <1>1 DEF RunInv, GateInv, PlannedKeys
  <2>2. i.kind # "image" /\ i \in Plan(env, o)
    BY <1>1, <2>1 DEF NotImages, Key, RunInv, PlanInv
  <2>3. ~TooRecent(env, o, <<i.kind, i.id>>)
    BY <1>1, <2>2, PlannedItem
    DEF RunInv, TypeOK, DoomedContainers, RemovableContainer, NetworkGoes, VolumeGoes, Spare
  <2>4. QED  BY <2>1, <2>3 DEF Key
<1>2. RunInv => KeepSinceHolds
  BY <1>1 DEF KeepSinceHolds
<1>3. QED
  BY <1>2, RunInvHolds, PTL

\* Images apart, an item reported as failed is still there as far as the run is
\* concerned, unless its own call ended without an answer: no other item's removal
\* took it, and none will, however late.
THEOREM FailedIsIntact == Spec => []FailedMeansIntact
<1>1. ASSUME RunInv, NEW i \in failed \ doubt, i.kind # "image", Key(i) \in deleted
      PROVE  FALSE
  <2>1. i \in plan /\ i \notin removed \cup out \cup doubt
    BY <1>1 DEF RunInv, TypeOK
  <2>2. QED  BY <1>1, <2>1, GoneWasAskedFor DEF RunInv
<1>2. RunInv => FailedMeansIntact
  BY <1>1 DEF FailedMeansIntact
<1>3. QED
  BY <1>2, RunInvHolds, PTL

\* 0 after an agreed run: all of the plan is gone, images as far as their marks
\* go, and nothing is under way; 1: something of it was not removed; 10 after
\* consent: every item was settled; not agreed: nothing is gone.
THEOREM ExitIsTrue == Spec => []ExitTellsTruth
<1>1. ASSUME RunInv, exit = "ok", Agreed
      PROVE  KeysOf(plan) \subseteq deleted /\ requests = {}
  <2>1. plan = removed
    BY <1>1 DEF RunInv, ExitInv
  <2>2. requests = {}
    BY <1>1, <2>1 DEF RunInv, TypeOK
  <2>3. ASSUME NEW k \in KeysOf(plan) PROVE k \in deleted
    <3>1. PICK i \in plan : k = Key(i) /\ i.kind # "image"
      BY <2>3 DEF KeysOf, NotImages, Key
    <3>2. QED  BY <1>1, <2>1, <3>1 DEF RunInv, MarksInv
  <2>4. QED  BY <2>2, <2>3
<1>2. ASSUME RunInv, exit = "warning"
      PROVE  Agreed /\ \E i \in plan : i \notin removed
  BY <1>2 DEF RunInv, ExitInv, TypeOK
<1>3. RunInv => ExitTellsTruth
  BY <1>1, <1>2 DEF ExitTellsTruth, RunInv, GateInv, ExitInv
<1>4. QED
  BY <1>3, RunInvHolds, PTL

-----------------------------------------------------------------------------
(* The promise of Approval.                                                 *)

\* Asking for an item, or dealing with a request, is asking for or settling one
\* thing of the promise, or nothing the promise speaks of.
LEMMA RequestKeys ==
  ASSUME TypeOK, PlanInv, NEW i \in plan
  PROVE  /\ KeysOf(requests \cup {i}) = KeysOf(requests) \cup NotImages({Key(i)})
         /\ KeysOf(requests \ {i}) = KeysOf(requests) \ NotImages({Key(i)})
         /\ i.kind = "image" => NotImages({Key(i)}) = {}
         /\ i.kind # "image" => NotImages({Key(i)}) = {Key(i)} /\ Key(i) \in KeysOf(plan)
         /\ i \notin requests => Key(i) \notin KeysOf(requests)
<1>1. requests \subseteq plan
  BY DEF TypeOK
<1>2. \A j \in requests : Key(j) = Key(i) => j = i
  BY <1>1, OneItemPerKey
<1>3. Key(i)[1] = i.kind
  BY DEF Key
<1>4. KeysOf(requests \ {i}) = KeysOf(requests) \ NotImages({Key(i)})
  BY <1>2 DEF KeysOf, NotImages
<1>5. QED  BY <1>2, <1>3, <1>4 DEF KeysOf, NotImages

\* Every step is a step of the promise or changes nothing it speaks of.
LEMMA PromiseStep ==
  ASSUME RunInv, [Next]_vars
  PROVE  [Promise!Next]_Promise!vars
<1> USE DEF Promise!Next, Promise!vars, Promise!Agree, Promise!Ask, Promise!Settle, Promise!Close
<1>1. ASSUME UNCHANGED <<plan, approval, deleted, requests>>,
             pc' = pc \/ (pc \notin Ended /\ pc' \in Ended)
      PROVE  [Promise!Next]_Promise!vars
  <2>1. CASE pc' = pc
    BY <1>1, <2>1 DEF Agreed, KeysOf
  <2>2. CASE pc \notin Ended /\ pc' \in Ended
    BY <1>1, <2>2 DEF Agreed, KeysOf, Ended
  <2>3. QED  BY <1>1, <2>1, <2>2
<1>2. CASE Collect \/ Others \/ UNCHANGED vars
  <2>1. UNCHANGED <<plan, approval, deleted, pc, requests>>
    BY <1>2, CollectFrame DEF Others, vars, runVars, history, calls
  <2>2. QED  BY <1>1, <2>1
<1>3. CASE CollectFails \/ Finish \/ Cancel \/ Kill
  BY <1>1, <1>3 DEF CollectFails, Finish, Cancel, Kill, Running, Exit, Ended, history, calls
<1>4. CASE Decide
  <2> USE DEF Decide, GateInv
  <2>1. /\ pc = "collecting" /\ ~Agreed /\ deleted = {} /\ deleted' = {}
        /\ requests = {} /\ requests' = {}
    BY <1>4 DEF history, calls, RunInv
  <2>2. CASE pc' = "applying"
    <3>1. Agreed'
      BY <1>4, <2>2 DEF Exit, Agreed
    <3>2. plan' \subseteq Item
      BY <1>4, PlanType DEF TypeOK, RunInv
    <3>3. KeysOf(plan') \subseteq NotImages(Keys)
      BY <3>2 DEF NotImages, KeysOf, Item, Keys, Key
    <3>4. QED  BY <2>1, <2>2, <3>1, <3>3 DEF Ended
  <2>3. CASE pc' # "applying"
    <3>1. ~Agreed' /\ pc' \in {"prompt", "done"}
      BY <1>4, <2>1, <2>3 DEF Exit, Agreed
    <3>2. QED  BY <2>1, <3>1 DEF Ended
  <2>4. QED  BY <2>2, <2>3
<1>5. ASSUME NEW word \in {"y", "delete", "no"}, Answer(word)
      PROVE  [Promise!Next]_Promise!vars
  <2>1. pc = "prompt" /\ ~Agreed /\ UNCHANGED <<deleted, plan, requests>>
    BY <1>5 DEF Answer, GateInv, RunInv, history, calls
  <2>2. CASE Accepted(plan, word)
    <3>1. pc' = "applying" /\ Agreed'
      BY <1>5, <2>2 DEF Answer, Agreed
    <3>2. KeysOf(plan') \subseteq NotImages(Keys)
      BY <2>1 DEF NotImages, KeysOf, Item, Keys, Key, TypeOK, RunInv
    <3>3. QED  BY <2>1, <3>1, <3>2 DEF Ended
  <2>3. CASE ~Accepted(plan, word)
    BY <1>1, <1>5, <2>1, <2>3 DEF Answer, Exit, Ended
  <2>4. QED  BY <2>2, <2>3
<1>6. ASSUME NEW i \in plan, Send(i) \/ Answered(i) \/ GiveUp(i)
      PROVE  [Promise!Next]_Promise!vars
  <2>1. UNCHANGED <<pc, plan, approval, deleted>> /\ pc = "applying" /\ Agreed
    BY <1>6, ApplyFrame DEF GateInv, RunInv
  <2>2. CASE requests' = requests
    BY <1>1, <2>1, <2>2
  <2>3. CASE Send(i) /\ requests' = requests \cup {i}
    <3>1. i \notin requests /\ i \notin carried
      BY <2>3 DEF Send, Unsettled, RunInv, TypeOK
    <3>2. CASE i.kind = "image"
      <4>1. KeysOf(requests \cup {i}) = KeysOf(requests) \cup NotImages({Key(i)})
        BY RequestKeys DEF RunInv
      <4>2. NotImages({Key(i)}) = {}
        BY <3>2, RequestKeys DEF RunInv
      <4>3. KeysOf(requests') = KeysOf(requests)
        BY <2>3, <4>1, <4>2
      <4>4. UNCHANGED <<KeysOf(plan), Agreed, NotImages(deleted), pc>>
        BY <2>1 DEF KeysOf, Agreed
      <4>5. QED  BY <4>3, <4>4
    <3>3. CASE i.kind # "image"
      <4>1. KeysOf(requests') = KeysOf(requests) \cup {Key(i)}
        BY <2>3, <3>3, RequestKeys DEF RunInv
      <4>2. Key(i) \in KeysOf(plan) \ KeysOf(requests)
        BY <3>1, <3>3, RequestKeys DEF RunInv
      <4>3. Key(i) \notin NotImages(deleted)
        BY <3>1, <3>3, GoneWasAskedFor DEF RunInv, NotImages
      <4>4. UNCHANGED <<KeysOf(plan), Agreed, NotImages(deleted), pc>>
        BY <2>1 DEF KeysOf, Agreed
      <4>5. QED  BY <2>1, <4>1, <4>2, <4>3, <4>4
    <3>4. QED  BY <3>2, <3>3
  <2>4. QED
    BY <1>6, <2>2, <2>3 DEF Send, Answered, GiveUp
<1>7. ASSUME NEW i \in plan, CarriesOut(i) \/ ComesToNothing(i)
      PROVE  [Promise!Next]_Promise!vars
  <2>1. UNCHANGED <<pc, plan, approval>> /\ i \in requests /\ requests' = requests \ {i}
    BY <1>7, DealFrame
  <2>2. UNCHANGED <<KeysOf(plan), Agreed, pc>>
    BY <2>1 DEF KeysOf, Agreed
  <2>3. KeysOf(requests') = KeysOf(requests) \ NotImages({Key(i)})
    BY <2>1, RequestKeys DEF RunInv
  <2>4. NotImages(deleted') \in {NotImages(deleted), NotImages(deleted) \cup NotImages({Key(i)})}
    <3>1. CASE deleted' = deleted
      BY <3>1
    <3>2. CASE Removes(i) /\ deleted' = deleted \cup (Present \ Present')
      <4>1. NotImages(Present \ Present') \subseteq NotImages({Key(i)})
        BY <3>2, NothingElseGoes DEF RunInv, TypeOK, NotImages
      <4>2. NotImages({Key(i)}) \subseteq NotImages(Present \ Present')
        <5>1. CASE i.kind = "image"
          BY <5>1, RequestKeys DEF RunInv
        <5>2. CASE i.kind # "image"
          BY <3>2, <5>2, RemovalRemoves DEF RunInv, NotImages
        <5>3. QED  BY <5>1, <5>2
      <4>3. NotImages(deleted') = NotImages(deleted) \cup NotImages(Present \ Present')
        BY <3>2 DEF NotImages
      <4>4. QED  BY <4>1, <4>2, <4>3
    <3>3. QED  BY <1>7, <3>1, <3>2, DealFrame
  <2>5. CASE i.kind = "image"
    <3>1. NotImages({Key(i)}) = {}
      BY <2>5, RequestKeys DEF RunInv
    <3>2. QED  BY <2>2, <2>3, <2>4, <3>1
  <2>6. CASE i.kind # "image"
    <3>1. NotImages({Key(i)}) = {Key(i)}
      BY <2>6, RequestKeys DEF RunInv
    <3>2. Key(i) \in KeysOf(requests)
      BY <2>1, <2>6 DEF KeysOf, NotImages, Key
    <3>3. QED  BY <2>2, <2>3, <2>4, <3>1, <3>2
  <2>7. QED  BY <2>5, <2>6
<1>8. QED
  BY <1>2, <1>3, <1>4, <1>5, <1>6, <1>7, Steps DEF Moves

\* A run implements the promise of Approval: one plan is agreed to, once; of
\* containers, networks and volumes only what it lists is asked for, and only what
\* was asked for goes, each once, also after the run is over.
THEOREM PromiseKept == Spec => KeepsPromise
<1>1. Init => Promise!Init
  BY DEF Init, Promise!Init, KeysOf, NotImages, Agreed, Ended
<1>2. RunInv /\ [Next]_vars => [Promise!Next]_Promise!vars
  BY PromiseStep
<1>3. QED
  BY <1>1, <1>2, RunInvHolds, PTL DEF Spec, KeepsPromise, Promise!Spec

-----------------------------------------------------------------------------
(* One run is enough.  Undisturbed, the daemon is at every moment what the  *)
(* lists said of it less what the daemon has carried out for the run.       *)

\* Who is asked has seen the whole plan, and the plan knows every list.
DecidedInv == pc = "prompt" \/ Agreed => Collected /\ plan = Plan(env, o)

LEMMA DecidedStep ==
  ASSUME TypeOK, GateInv, DecidedInv, [Next]_vars
  PROVE  DecidedInv'
<1> USE DEF DecidedInv, Agreed, Collected
<1>1. CASE Collect
  BY <1>1, CollectFrame DEF GateInv
<1>2. CASE Others \/ UNCHANGED vars
  BY <1>2 DEF Others, vars, runVars
<1>3. CASE Moves
  <2>1. env' = env /\ o' = o /\ listed' = listed
    BY <1>3, MovesFrame
  <2>2. CASE Decide
    BY <2>1, <2>2 DEF Decide, Exit, GateInv
  <2>3. CASE CollectFails \/ Finish \/ Cancel \/ Kill
    BY <2>1, <2>3 DEF CollectFails, Finish, Cancel, Kill, Exit
  <2>4. CASE \E word \in {"y", "delete", "no"} : Answer(word)
    BY <2>1, <2>4 DEF Answer, Exit
  <2>5. QED  BY <1>3, <2>2, <2>3, <2>4 DEF Moves
<1>4. ASSUME NEW i \in plan,
             Send(i) \/ Answered(i) \/ GiveUp(i) \/ CarriesOut(i) \/ ComesToNothing(i)
      PROVE  DecidedInv'
  BY <1>4, ApplyFrame, DealFrame
<1>5. QED
  BY <1>1, <1>2, <1>3, <1>4, Steps

OneTagEach == \A t, u \in Tags : env.tag[t] = env.tag[u] /\ env.tag[t] \in env.images => t = u

OneNameEach == \A m, n \in env.networks : NetName[m] = NetName[n] => m = n

Gone(kind, id) == \E i \in carried : i.kind = kind /\ i.id = id

ListOfKind == [container |-> "containers", image |-> "images",
               network |-> "networks", volume |-> "volumes"]

ContainersMatch ==
  /\ env.runsOn = runsOn
  /\ env.containers = {c \in Containers : env.state[c] \notin {"future", "gone"}}
  /\ \A c \in Containers : ctr[c] = IF Gone("container", c) THEN "gone" ELSE env.state[c]

ImagesMatch ==
  /\ img = {i \in env.images : ~Gone("image", i)}
  /\ \A t \in Tags : tag[t] = IF Gone("image", env.tag[t]) THEN NoImage ELSE env.tag[t]

LessInv ==
  budget = MaxUserSteps /\ (carried = {} \/ OneTagEach) =>
    /\ "containers" \in listed => ContainersMatch
    /\ \A c \in env.inspected : env.joined[c] = joined[c]
    /\ "images" \in listed => ImagesMatch
    /\ "volumes" \in listed => vol = {v \in env.volumes : ~Gone("volume", v)}
    /\ "networks" \in listed => net = {n \in env.networks : ~Gone("network", n)}
    /\ env.young = {k \in young : ListOfKind[k[1]] \in listed}

LEMMA LessCollect ==
  ASSUME RunInv, LessInv, Collect
  PROVE  LessInv'
<1>1. /\ carried = {} /\ carried' = {}
      /\ UNCHANGED <<ctr, joined, runsOn, tag, img, vol, net, young, budget>>
      /\ \A kind, id : ~Gone(kind, id) /\ ~Gone(kind, id)'
  <2>1. carried = {}
    BY CollectFrame DEF RunInv, GateInv, TypeOK
  <2>2. QED  BY <2>1, CollectFrame DEF dockerVars, calls, Gone
<1>2. env \in Environment /\ young \subseteq Kinds \X Ids
  BY DEF RunInv, TypeOK, DockerTypeOK, Keys
<1>3. budget = MaxUserSteps =>
        /\ "containers" \in listed => ContainersMatch
        /\ \A c \in env.inspected : env.joined[c] = joined[c]
        /\ "images" \in listed => ImagesMatch
        /\ "volumes" \in listed => vol = env.volumes
        /\ "networks" \in listed => net = env.networks
        /\ env.young = {k \in young : ListOfKind[k[1]] \in listed}
  <2>1. env.volumes = {v \in env.volumes : ~Gone("volume", v)}
    BY <1>1
  <2>2. env.networks = {n \in env.networks : ~Gone("network", n)}
    BY <1>1
  <2>3. QED  BY <1>1, <2>1, <2>2 DEF LessInv
<1> DEFINE Recent(list) == {k \in young : ListOfKind[k[1]] = list}
           Joins == /\ env'.inspected = env.inspected /\ env'.joined = env.joined
<1> USE <1>1, <1>2, <1>3
        DEF Returns, Collects, Environment, ListOfKind, Kinds, LessInv, ContainersMatch,
            ImagesMatch, Live
<1>4. CASE ListContainers
  <2>1. /\ env'.containers = {c \in Containers : Live(c)} /\ env'.state = ctr
        /\ env'.runsOn = runsOn /\ env'.images = env.images /\ env'.tag = env.tag
        /\ env'.volumes = env.volumes /\ env'.networks = env.networks
        /\ env'.young = env.young \cup Recent("containers") /\ Joins
    BY <1>4 DEF ListContainers
  <2>2. QED  BY <1>4, <2>1 DEF ListContainers
<1>5. ASSUME NEW c \in Containers, InspectContainer(c)
      PROVE  LessInv'
  <2>1. /\ env'.containers = env.containers /\ env'.state = env.state
        /\ env'.runsOn = env.runsOn /\ env'.images = env.images /\ env'.tag = env.tag
        /\ env'.volumes = env.volumes /\ env'.networks = env.networks
        /\ listed' = listed
    BY <1>5 DEF InspectContainer
  <2>2. env'.young = env.young
    <3>1. {k \in young : k[1] = "none"} = {}
      OBVIOUS
    <3>2. env'.young = env.young \cup {k \in young : k[1] = "none"}
      BY <1>5 DEF InspectContainer
    <3>3. QED  BY <3>1, <3>2
  <2>3. \/ Joins
        \/ /\ env'.inspected = env.inspected \cup {c}
           /\ env'.joined = [env.joined EXCEPT ![c] = joined[c]]
    BY <1>5 DEF InspectContainer
  <2>4. budget = MaxUserSteps => \A d \in env'.inspected : env'.joined[d] = joined[d]
    BY <2>3
  <2>5. QED  BY <2>1, <2>2, <2>4
<1>6. CASE ListImages
  <2>1. /\ env'.containers = env.containers /\ env'.state = env.state
        /\ env'.runsOn = env.runsOn /\ env'.images = img /\ env'.tag = tag
        /\ env'.volumes = env.volumes /\ env'.networks = env.networks
        /\ env'.young = env.young \cup Recent("images") /\ Joins
    BY <1>6 DEF ListImages
  <2>2. QED  BY <1>6, <2>1 DEF ListImages
<1>7. CASE ListVolumes
  <2>1. /\ env'.containers = env.containers /\ env'.state = env.state
        /\ env'.runsOn = env.runsOn /\ env'.images = env.images /\ env'.tag = env.tag
        /\ env'.volumes = vol /\ env'.networks = env.networks
        /\ env'.young = env.young \cup Recent("volumes") /\ Joins
    BY <1>7 DEF ListVolumes
  <2>2. QED  BY <1>7, <2>1 DEF ListVolumes
<1>8. CASE ListNetworks
  <2>1. /\ env'.containers = env.containers /\ env'.state = env.state
        /\ env'.runsOn = env.runsOn /\ env'.images = env.images /\ env'.tag = env.tag
        /\ env'.volumes = env.volumes /\ env'.networks = net
        /\ env'.young = env.young \cup Recent("networks") /\ Joins
    BY <1>8 DEF ListNetworks
  <2>2. QED  BY <1>8, <2>1 DEF ListNetworks
<1>9. QED
  BY <1>4, <1>5, <1>6, <1>7, <1>8 DEF Collect

\* A removal leaves the daemon as the lists said it was, less one more item.
LEMMA LessRemoval ==
  ASSUME RunInv, DecidedInv, LessInv, NEW i \in requests,
         Removes(i), carried' = carried \cup {i},
         UNCHANGED <<young, budget, listed, env>>
  PROVE  LessInv'
<1> SUFFICES ASSUME budget = MaxUserSteps, OneTagEach
             PROVE  /\ ContainersMatch' /\ ImagesMatch'
                    /\ \A c \in env.inspected : env.joined[c] = joined'[c]
                    /\ vol' = {v \in env.volumes : ~Gone("volume", v)'}
                    /\ net' = {n \in env.networks : ~Gone("network", n)'}
                    /\ env.young = {k \in young : ListOfKind[k[1]] \in listed}
  <2>1. OneTagEach' = OneTagEach /\ carried' # {}
    BY DEF OneTagEach
  <2>2. QED  BY <2>1 DEF LessInv
<1>1. /\ listed = Lists /\ i \in plan /\ i \in Plan(env, o) /\ i \in Item
      /\ env \in Environment
  <2>1. i \in plan /\ Agreed
    BY DEF RunInv, GateInv, TypeOK
  <2>2. QED  BY <2>1 DEF DecidedInv, Collected, RunInv, TypeOK
<1>2. /\ ContainersMatch /\ ImagesMatch
      /\ \A c \in env.inspected : env.joined[c] = joined[c]
      /\ vol = {v \in env.volumes : ~Gone("volume", v)}
      /\ net = {n \in env.networks : ~Gone("network", n)}
      /\ env.young = {k \in young : ListOfKind[k[1]] \in listed}
  BY <1>1 DEF LessInv, Lists
<1>3. ASSUME NEW kind, NEW id
      PROVE  Gone(kind, id)' <=> Gone(kind, id) \/ (kind = i.kind /\ id = i.id)
  BY DEF Gone
<1>4. CASE i.kind = "container" /\ RemoveContainer(i.id)
  <2>1. /\ ctr' = [ctr EXCEPT ![i.id] = "gone"] /\ ctr \in [Containers -> Status]
        /\ UNCHANGED <<joined, runsOn, tag, img, vol, net>>
    BY <1>4 DEF RemoveContainer, ContainerRemove, RunInv, TypeOK, DockerTypeOK
  <2>2. QED  BY <1>2, <1>3, <1>4, <2>1 DEF ContainersMatch, ImagesMatch
<1>5. CASE i.kind = "network" /\ RemoveNetwork(i.id)
  BY <1>2, <1>3, <1>5 DEF RemoveNetwork, NetworkRemove, ContainersMatch, ImagesMatch
<1>6. CASE i.kind = "volume" /\ RemoveVolume(i.id)
  BY <1>2, <1>3, <1>6 DEF RemoveVolume, VolumeRemove, ContainersMatch, ImagesMatch
<1>7. CASE i.kind = "image" /\ RemoveImage(i)
  <2>1. i.id \in env.images /\ i.id \in Images /\ i.name = DisplayName(env, i.id)
    BY <1>1, <1>7, PlannedItem DEF Environment
  <2>2. ~Gone("image", i.id)
    <3>1. SUFFICES ASSUME NEW j \in carried, j.kind = "image", j.id = i.id
                   PROVE  FALSE
      BY DEF Gone
    <3>2. j \in plan
      BY DEF RunInv, TypeOK
    <3>3. j = i
      BY <1>1, <1>7, <3>1, <3>2, OneItemPerKey DEF Key, RunInv
    <3>4. QED  BY <3>1, <3>3 DEF RunInv, TypeOK
  <2>3. tag \in [Tags -> Images \cup {NoImage}] /\ NoImage \notin Images /\ NoTag \notin Tags
    BY DockerAssumption DEF DockerAssumption, RunInv, TypeOK, DockerTypeOK
  <2>4. \A t \in Tags : tag[t] = i.id => env.tag[t] = i.id
    BY <1>2, <2>1, <2>3 DEF ImagesMatch
  <2>5. img' = img \ {i.id} /\ tag' = [t \in Tags |-> IF env.tag[t] = i.id THEN NoImage ELSE tag[t]]
    <3>1. CASE TagsIn(env, i.id) = {}
      <4>1. i.name = NoTag /\ \A t \in Tags : env.tag[t] # i.id
        BY <2>1, <3>1 DEF DisplayName, TagsIn
      <4>2. img' = img \ {i.id} /\ tag' = [t \in Tags |-> IF tag[t] = i.id THEN NoImage ELSE tag[t]]
        BY <1>7, <4>1 DEF RemoveImage, ImageRemoveID
      <4>3. QED  BY <2>3, <2>4, <4>1, <4>2
    <3>2. CASE TagsIn(env, i.id) # {}
      <4>1. i.name \in Tags /\ env.tag[i.name] = i.id
        <5>1. \E t \in Tags : env.tag[t] = i.id
          BY <3>2 DEF TagsIn
        <5>2. QED  BY <2>1, <3>2, <5>1 DEF DisplayName
      <4>2. tag[i.name] = i.id
        BY <1>2, <2>2, <4>1 DEF ImagesMatch
      <4>3. \A t \in Tags : env.tag[t] = i.id => t = i.name
        BY <2>1, <4>1 DEF OneTagEach
      <4>4. TagsOf(i.id) = {i.name}
        BY <2>4, <4>1, <4>2, <4>3 DEF TagsOf
      <4>5. i.name # NoTag
        BY <2>3, <4>1
      <4>6. img' = img \ {i.id} /\ tag' = [tag EXCEPT ![i.name] = NoImage]
        BY <1>7, <4>2, <4>4, <4>5 DEF RemoveImage, ImageRemoveTag
      <4>7. QED  BY <2>3, <4>1, <4>3, <4>6
    <3>3. QED  BY <3>1, <3>2
  <2>6. UNCHANGED <<ctr, joined, runsOn, vol, net>>
    BY <1>7 DEF RemoveImage, ImageRemoveTag, ImageRemoveID
  <2>7. ImagesMatch'
    <3>1. \A j : Gone("image", j)' <=> Gone("image", j) \/ j = i.id
      BY <1>3, <1>7
    <3>2. QED  BY <1>2, <2>5, <3>1 DEF ImagesMatch
  <2>8. ContainersMatch'
    BY <1>2, <1>3, <1>7, <2>6 DEF ContainersMatch
  <2>9. QED  BY <1>2, <1>3, <1>7, <2>6, <2>7, <2>8
<1>8. QED
  BY <1>4, <1>5, <1>6, <1>7 DEF Removes

LEMMA LessStep ==
  ASSUME RunInv, DecidedInv, LessInv, [Next]_vars
  PROVE  LessInv'
<1>1. ASSUME UNCHANGED <<ctr, joined, runsOn, tag, img, vol, net, young, budget, listed, env,
                         carried>>
      PROVE  LessInv'
  BY <1>1 DEF LessInv, OneTagEach, ContainersMatch, ImagesMatch, Gone
<1>2. CASE Collect
  BY <1>2, LessCollect
<1>3. CASE Moves \/ UNCHANGED vars
  BY <1>1, <1>3, MovesFrame DEF vars, runVars, dockerVars, calls
<1>4. CASE Others
  <2>1. budget \in 0..MaxUserSteps /\ budget' = budget - 1 /\ MaxUserSteps \in Nat
    BY <1>4, DockerAssumption
    DEF Others, UserStep, UserCreate, UserStart, UserStop, UserRemove, UserTag, UserVolume,
        UserDropNetwork, UserConnect, UserDisconnect, Spend, RunInv, TypeOK, DockerTypeOK,
        DockerAssumption
  <2>2. budget' # MaxUserSteps
    BY <2>1
  <2>3. QED  BY <2>2 DEF LessInv
<1>5. ASSUME NEW i \in plan, Send(i) \/ Answered(i) \/ GiveUp(i)
      PROVE  LessInv'
  BY <1>1, <1>5, ApplyFrame DEF dockerVars
<1>6. ASSUME NEW i \in plan, CarriesOut(i) \/ ComesToNothing(i)
      PROVE  LessInv'
  <2>1. CASE UNCHANGED <<dockerVars, carried>>
    BY <1>1, <1>6, <2>1, DealFrame DEF dockerVars
  <2>2. CASE Removes(i) /\ carried' = carried \cup {i}
    BY <1>6, <2>2, DealFrame, LessRemoval
  <2>3. QED  BY <1>6, <2>1, <2>2, DealFrame
<1>7. QED
  BY <1>2, <1>3, <1>4, <1>5, <1>6, Steps

\* Nothing that was kept goes the second time: whatever goes from what the
\* daemon is now would have gone from what the lists said, and all of that is gone.
LEMMA NothingMoreGoes ==
  ASSUME RunInv, env.young = young, plan = Plan(env, o), carried = plan, OneNameEach,
         ContainersMatch, ImagesMatch, env.inspected = env.containers,
         \A c \in env.inspected : env.joined[c] = joined[c],
         vol = {v \in env.volumes : ~Gone("volume", v)},
         net = {n \in env.networks : ~Gone("network", n)}
  PROVE  Plan(CurrentEnvironment, o) = {}
<1> DEFINE now == CurrentEnvironment
<1>1. /\ now.containers = {c \in Containers : Live(c)} /\ now.inspected = now.containers
      /\ now.state = ctr /\ now.runsOn = runsOn /\ now.images = img /\ now.tag = tag
      /\ now.volumes = vol /\ now.networks = net /\ now.joined = joined /\ now.young = young
  BY DEF CurrentEnvironment
<1> HIDE DEF now
<1>2. env \in Environment
  BY DEF RunInv, TypeOK
<1>3. \A k : TooRecent(now, o, k) <=> TooRecent(env, o, k)
  BY <1>1 DEF TooRecent
<1>4. \A c : c \in DoomedContainers(env, o) => Gone("container", c)
  <2> SUFFICES ASSUME NEW c \in DoomedContainers(env, o) PROVE Gone("container", c)
    OBVIOUS
  <2>1. [kind |-> "container", id |-> c, name |-> NoTag] \in carried
    BY DEF Plan, PlanContainers
  <2>2. QED  BY <2>1 DEF Gone
<1>5. \A c : Gone("container", c) => c \in DoomedContainers(env, o)
  BY <1>2, PlannedItem DEF Gone
<1>6. DoomedContainers(now, o) = {}
  <2> SUFFICES ASSUME NEW c \in DoomedContainers(now, o) PROVE FALSE
    OBVIOUS
  <2>1. c \in Containers /\ Live(c) /\ ctr[c] \in Stopped /\ "containers" \in Targets(o)
        /\ ~TooRecent(now, o, <<"container", c>>)
    BY <1>1 DEF DoomedContainers, RemovableContainer
  <2>2. ~Gone("container", c) /\ env.state[c] = ctr[c] /\ c \in env.containers
    BY <2>1 DEF ContainersMatch, Live
  <2>3. c \in DoomedContainers(env, o)
    BY <1>3, <2>1, <2>2 DEF DoomedContainers, RemovableContainer
  <2>4. QED  BY <1>4, <2>2, <2>3
\* A user that is kept is there as the lists said.
<1>7. \A c \in env.containers : c \notin DoomedContainers(env, o) => c \in now.containers
  BY <1>1, <1>2, <1>5 DEF ContainersMatch, Live, Environment
<1>8. ASSUME NEW before, NEW after, before \subseteq env.containers,
             \A c \in before : c \in now.containers => c \in after,
             NEW k, Spare(now, o, after, k)
      PROVE  Spare(env, o, before, k)
  BY <1>3, <1>6, <1>7, <1>8 DEF Spare, UsedAfterCleanup
<1>9. ASSUME NEW i \in img, ImageGoes(now, o, i)
      PROVE  FALSE
  <2>1. i \in env.images /\ ~Gone("image", i) /\ \A t \in Tags : env.tag[t] = i => tag[t] = i
    BY <1>9 DEF ImagesMatch
  <2>2. \A c \in ImageUsers(env, i) : c \in now.containers => c \in ImageUsers(now, i)
    BY <1>1, <2>1, DockerAssumption DEF ImageUsers, ContainersMatch, DockerAssumption
  <2>3. Spare(env, o, ImageUsers(env, i), <<"image", i>>)
    <3>1. ImageUsers(env, i) \subseteq env.containers
      BY DEF ImageUsers
    <3>2. QED  BY <1>8, <1>9, <2>2, <3>1 DEF ImageGoes
  <2>4. Dangling(now, i) => Dangling(env, i)
    BY <1>1, <2>1 DEF Dangling, TagsIn
  <2>5. [kind |-> "image", id |-> i, name |-> DisplayName(env, i)] \in carried
    BY <1>9, <2>1, <2>3, <2>4 DEF ImageGoes, Plan, PlanImages
  <2>6. QED  BY <2>1, <2>5 DEF Gone
<1>10. ASSUME NEW v \in vol, VolumeGoes(now, o, v)
       PROVE  FALSE
  <2>1. \A c \in VolumeUsers(env, v) : c \in now.containers => c \in VolumeUsers(now, v)
    BY <1>1 DEF VolumeUsers
  <2>2. VolumeGoes(env, o, v)
    <3>1. VolumeUsers(env, v) \subseteq env.containers
      BY DEF VolumeUsers
    <3>2. QED  BY <1>8, <1>10, <2>1, <3>1 DEF VolumeGoes
  <2>3. [kind |-> "volume", id |-> v, name |-> NoTag] \in carried
    BY <1>10, <2>2 DEF Plan, PlanVolumes
  <2>4. QED  BY <1>10, <2>3 DEF Gone
<1>11. ASSUME NEW n \in net, NetworkGoes(now, o, n)
       PROVE  FALSE
  <2>1. \A c \in NetworkUsers(env, n) : c \in now.containers => c \in NetworkUsers(now, n)
    <3>1. n \in env.networks /\ net \subseteq env.networks
      BY <1>11
    <3>2. Namesakes(now, n) = {n}
      BY <1>1, <1>11, <3>1 DEF Namesakes, OneNameEach
    <3>3. LinkedByName(now, n)
      BY <3>2 DEF LinkedByName
    <3>4. QED  BY <1>1, <3>3 DEF NetworkUsers
  <2>2. NetworkGoes(env, o, n)
    <3>1. NetworkUsers(env, n) \subseteq env.containers
      BY DEF NetworkUsers
    <3>2. QED  BY <1>8, <1>11, <2>1, <3>1 DEF NetworkGoes
  <2>3. [kind |-> "network", id |-> n, name |-> NoTag] \in carried
    BY <1>11, <2>2 DEF Plan, PlanNetworks
  <2>4. QED  BY <1>11, <2>3 DEF Gone
<1>12. Plan(now, o) = {}
  BY <1>1, <1>6, <1>9, <1>10, <1>11
  DEF Plan, PlanContainers, PlanImages, PlanVolumes, PlanNetworks
<1>13. QED
  BY <1>12 DEF now

\* The same command line, run again after an undisturbed run that exited 0, has
\* nothing to do.
THEOREM OneRunIsEnough == Spec => []OneRunConverges
<1>1. Init => DecidedInv /\ LessInv
  BY DEF Init, DockerInit, EmptyEnvironment, DecidedInv, LessInv, Agreed, Kinds, Keys,
         ListOfKind
<1>2. RunInv /\ DecidedInv /\ LessInv /\ [Next]_vars => DecidedInv' /\ LessInv'
  BY DecidedStep, LessStep DEF RunInv
<1>3. ASSUME RunInv, DecidedInv, LessInv, pc = "done", exit = "ok", Agreed,
             budget = MaxUserSteps, env.inspected = env.containers, OneTagEach, OneNameEach
      PROVE  Plan(CurrentEnvironment, o) = {}
  <2>1. plan = carried /\ listed = Lists /\ plan = Plan(env, o)
    <3>1. plan = removed /\ listed = Lists /\ plan = Plan(env, o)
      BY <1>3 DEF RunInv, ExitInv, DecidedInv, Collected
    <3>2. QED  BY <1>3, <3>1 DEF RunInv, TypeOK, MarksInv
  <2>2. young \subseteq Kinds \X Ids
    BY <1>3 DEF RunInv, TypeOK, DockerTypeOK, Keys
  <2>3. env.young = young
    BY <1>3, <2>1, <2>2 DEF LessInv, Lists, ListOfKind, Kinds
  <2>4. QED  BY <1>3, <2>1, <2>3, NothingMoreGoes DEF LessInv, Lists
<1>4. RunInv /\ DecidedInv /\ LessInv => OneRunConverges
  BY <1>3 DEF OneRunConverges, OneTagEach, OneNameEach
<1>5. QED
  BY <1>1, <1>2, <1>4, RunInvHolds, PTL DEF Spec
============================================================================
