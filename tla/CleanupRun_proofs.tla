------------------------- MODULE CleanupRun_proofs -------------------------
(***************************************************************************)
(* What holds of CleanupRun for every daemon, every command line and every *)
(* combination of faults.                                                  *)
(***************************************************************************)
EXTENDS CleanupProperties, Docker_proofs

-----------------------------------------------------------------------------
(* The planner. *)

\* What Plan returns is a set of well-formed items.
LEMMA PlanType ==
  ASSUME NEW e \in Environment, NEW q
  PROVE  Plan(e, q) \subseteq Item
<1>1. DoomedContainers(e, q) \subseteq Containers
  BY DEF DoomedContainers, Environment
<1>2. PlanContainers(e, q) \subseteq Item
  BY <1>1 DEF PlanContainers, Item, Kinds, Ids
<1>3. ASSUME NEW i \in e.images
      PROVE  DisplayName(e, i) \in Tags \cup {NoTag}
  <2>1. CASE TagsIn(e, i) = {}
    BY <2>1 DEF DisplayName
  <2>2. CASE TagsIn(e, i) # {}
    <3>1. \E t \in Tags : e.tag[t] = i
      BY <2>2 DEF TagsIn
    <3>2. (CHOOSE t \in Tags : e.tag[t] = i) \in Tags
      BY <3>1
    <3>3. QED  BY <2>2, <3>2 DEF DisplayName
  <2>3. QED  BY <2>1, <2>2
<1>4. PlanImages(e, q) \subseteq Item
  BY <1>3 DEF PlanImages, Item, Kinds, Ids, Environment
<1>5. PlanNetworks(e, q) \subseteq Item
  BY DEF PlanNetworks, Item, Kinds, Ids, Environment
<1>6. PlanVolumes(e, q) \subseteq Item
  BY DEF PlanVolumes, Item, Kinds, Ids, Environment
<1>7. QED
  BY <1>2, <1>4, <1>5, <1>6 DEF Plan

\* Targets never brings volumes in by itself: --all, --images and the default
\* leave them out, so a planned volume means --volumes was given.
LEMMA VolumesAreAskedFor ==
  ASSUME NEW e, NEW q, NEW i \in Plan(e, q), i.kind = "volume"
  PROVE  "volumes" \in q.flags
<1>1. i \in PlanVolumes(e, q)
  BY DEF Plan, PlanContainers, PlanImages, PlanNetworks
<1>2. "volumes" \in Targets(q)
  BY <1>1 DEF PlanVolumes, VolumeGoes
<1>3. QED
  BY <1>2 DEF Targets, All, DefaultTargets

-----------------------------------------------------------------------------
(* The daemon. *)

\* A removal keeps the daemon's types.
LEMMA RemovalType ==
  ASSUME DockerTypeOK, NEW i, Removes(i), UNCHANGED <<young, budget>>
  PROVE  DockerTypeOK'
<1> USE DEF DockerTypeOK
<1>1. CASE RemoveContainer(i.id)
  BY <1>1 DEF RemoveContainer, ContainerRemove, Status
<1>2. CASE RemoveImage(i)
  BY <1>2 DEF RemoveImage, ImageRemoveTag, ImageRemoveID
<1>3. CASE RemoveNetwork(i.id)
  BY <1>3 DEF RemoveNetwork, NetworkRemove
<1>4. CASE RemoveVolume(i.id)
  BY <1>4 DEF RemoveVolume, VolumeRemove
<1>5. QED
  BY <1>1, <1>2, <1>3, <1>4 DEF Removes

\* Removal never cascades: whatever the kind of the item, what the daemon drops
\* beside images is at most the item's own resource.
LEMMA NothingElseGoes ==
  ASSUME DockerTypeOK, NEW i, Removes(i)
  PROVE  NotImages(Present \ Present') \subseteq {Key(i)}
<1> USE DEF NotImages, Present, Live, Key
<1>1. CASE i.kind = "container" /\ RemoveContainer(i.id)
  <2>1. /\ \A c \in Containers : c # i.id => ctr'[c] = ctr[c]
        /\ img' = img /\ vol' = vol /\ net' = net
    BY <1>1 DEF RemoveContainer, ContainerRemove, DockerTypeOK
  <2>2. QED  BY <1>1, <2>1
<1>2. CASE i.kind = "image" /\ RemoveImage(i)
  <2>1. ctr' = ctr /\ vol' = vol /\ net' = net
    BY <1>2 DEF RemoveImage, ImageRemoveTag, ImageRemoveID
  <2>2. QED  BY <2>1
<1>3. CASE i.kind = "network" /\ RemoveNetwork(i.id)
  <2>1. ctr' = ctr /\ vol' = vol /\ img' = img /\ net' = net \ {i.id}
    BY <1>3 DEF RemoveNetwork, NetworkRemove
  <2>2. QED  BY <1>3, <2>1
<1>4. CASE i.kind = "volume" /\ RemoveVolume(i.id)
  <2>1. ctr' = ctr /\ net' = net /\ img' = img /\ vol' = vol \ {i.id}
    BY <1>4 DEF RemoveVolume, VolumeRemove
  <2>2. QED  BY <1>4, <2>1
<1>5. QED
  BY <1>1, <1>2, <1>3, <1>4 DEF Removes

-----------------------------------------------------------------------------
(* Type correctness.  A step that sets the plan does so while nothing is    *)
(* settled, which GateInv and the subsets in TypeOK say together.           *)

LEMMA TypeInit ==
  ASSUME Init
  PROVE  TypeOK
<1>1. DockerTypeOK
  <2>1. budget \in 0..MaxUserSteps
    BY DockerAssumption DEF Init, DockerInit
  <2>2. ctr \in [Containers -> Status]
    BY DEF Init, DockerInit
  <2>3. QED  BY <2>1, <2>2 DEF Init, DockerInit, DockerTypeOK
<1>2. EmptyEnvironment \in Environment
  BY <1>1 DEF EmptyEnvironment, Environment, DockerTypeOK, Status
<1>3. QED
  BY <1>1, <1>2 DEF Init, TypeOK

\* What the marks and the calls may be of each other.
MarkTypes ==
  /\ removed \subseteq plan
  /\ failed \subseteq plan \ removed
  /\ out \subseteq plan \ (removed \cup failed)
  /\ requests \subseteq out \cup doubt
  /\ carried \subseteq (removed \cup out \cup doubt) \ requests
  /\ doubt \subseteq failed
  /\ begun \subseteq plan

\* One item sent for, answered for or given up.
LEMMA ApplyMarks ==
  ASSUME MarkTypes, GateInv, NEW i \in plan, Send(i) \/ Answered(i) \/ GiveUp(i)
  PROVE  MarkTypes'
<1> USE DEF MarkTypes, SettleRemoved, SettleFailed
<1>1. CASE Send(i)
  <2>1. /\ out = {} /\ i \notin removed \cup failed /\ i \notin carried
        /\ UNCHANGED <<plan, carried, begun>>
    BY <1>1 DEF Send, Unsettled
  <2>2. \/ failed' = failed \cup {i} /\ UNCHANGED <<removed, doubt, out, requests>>
        \/ out' = {i} /\ requests' = requests \cup {i} /\ UNCHANGED <<removed, failed, doubt>>
    BY <1>1 DEF Send, marks
  <2>3. QED  BY <2>1, <2>2
<1>2. CASE Answered(i)
  <2>1. out = {i} /\ i \notin requests /\ out' = {}
        /\ UNCHANGED <<plan, requests, carried, begun>>
    BY <1>2 DEF Answered, GateInv
  <2>2. CASE i \in carried
    BY <1>2, <2>1, <2>2 DEF Answered
  <2>3. CASE i \notin carried
    BY <1>2, <2>1, <2>3 DEF Answered
  <2>4. QED  BY <2>2, <2>3
<1>3. CASE GiveUp(i)
  BY <1>3 DEF GiveUp, GateInv
<1>4. QED  BY <1>1, <1>2, <1>3

\* One request carried out or come to nothing.
LEMMA DealMarks ==
  ASSUME MarkTypes, NEW i \in plan, CarriesOut(i) \/ ComesToNothing(i)
  PROVE  MarkTypes'
<1>1. /\ i \in requests /\ requests' = requests \ {i}
      /\ carried' \in {carried, carried \cup {i}}
      /\ UNCHANGED <<plan, removed, failed, out, doubt, begun>>
  BY DEF CarriesOut, ComesToNothing, marks, history
<1>2. QED  BY <1>1 DEF MarkTypes

\* A call of the collection that returns leaves an environment.
LEMMA CollectType ==
  ASSUME TypeOK, Collect, DockerTypeOK'
  PROVE  TypeOK'
<1>1. ASSUME NEW e \in Environment, NEW kind, Collects(e, kind), listed' \subseteq Lists
      PROVE  TypeOK'
  <2>1. env' \in Environment
    BY <1>1 DEF Collects, Environment, DockerTypeOK, TypeOK
  <2>2. UNCHANGED <<o, pc, plan, shown, approval, ctxDone, out, requests, carried, removed, failed,
                    exit, deleted, doubt, begun>>
    BY <1>1 DEF Collects, calls, marks, history
  <2>3. QED  BY <1>1, <2>1, <2>2 DEF TypeOK
<1> USE <1>1 DEF Returns, Lists, TypeOK, DockerTypeOK
<1>2. CASE ListContainers
  BY <1>2 DEF ListContainers, Environment
<1>3. ASSUME NEW c \in Containers, InspectContainer(c)
      PROVE  TypeOK'
  <2> DEFINE told == [env EXCEPT !.asked = @ \cup {c}, !.inspected = @ \cup {c}, !.joined[c] = joined[c]]
             untold == [env EXCEPT !.asked = @ \cup {c}]
  <2>1. told \in Environment /\ untold \in Environment
    BY DEF Environment
  <2>2. listed' \subseteq Lists /\ (Collects(told, "none") \/ Collects(untold, "none"))
    BY <1>3 DEF InspectContainer
  <2> HIDE DEF told, untold
  <2>3. QED  BY <2>1, <2>2
<1>4. CASE ListImages
  BY <1>4 DEF ListImages, Environment
<1>5. CASE ListVolumes
  BY <1>5 DEF ListVolumes, Environment
<1>6. CASE ListNetworks
  BY <1>6 DEF ListNetworks, Environment
<1>7. QED  BY <1>2, <1>3, <1>4, <1>5, <1>6 DEF Collect

LEMMA TypeStep ==
  ASSUME TypeOK, GateInv, [Next]_vars
  PROVE  TypeOK'
<1> USE DEF TypeOK
<1>1. ASSUME UNCHANGED <<dockerVars, young, budget>>
      PROVE  DockerTypeOK'
  BY <1>1 DEF dockerVars, DockerTypeOK
<1>2. ASSUME UNCHANGED <<out, requests, carried, removed, failed, doubt, plan, begun>>
      PROVE  MarkTypes'
  BY <1>2 DEF MarkTypes
<1>3. TypeOK => MarkTypes
  BY DEF MarkTypes
<1>4. CASE Collect
  <2>1. UNCHANGED <<dockerVars, young, budget>>
    BY <1>4 DEF Collect, ListContainers, InspectContainer, ListImages, ListVolumes, ListNetworks,
                Returns, Collects
  <2>2. QED  BY <1>1, <1>4, <2>1, CollectType
<1>5. CASE CollectFails
  BY <1>1, <1>2, <1>3, <1>5 DEF CollectFails, Exit, Ended, calls, marks, history, MarkTypes
<1>6. CASE Decide
  <2>1. Plan(env, o) \subseteq Item
    BY PlanType
  <2>2. plan = {} /\ removed = {} /\ failed = {} /\ out = {} /\ doubt = {} /\ begun = {}
    BY <1>6 DEF Decide, GateInv
  <2>3. plan' \in {plan, Plan(env, o)}
    BY <1>6 DEF Decide
  <2>4. /\ DockerTypeOK' /\ o' = o /\ listed' = listed /\ env' = env /\ ctxDone' = ctxDone
        /\ deleted' = deleted
        /\ UNCHANGED <<out, requests, carried, removed, failed, doubt, begun>>
    BY <1>1, <1>6 DEF Decide, calls, marks, history
  <2>5. /\ pc' \in {"collecting", "prompt", "applying"} \cup Ended
        /\ shown' \in BOOLEAN /\ approval' \in {"none", "flag", "y", "delete"}
        /\ exit' \in {"none", "ok", "warning", "error"}
    BY <1>6 DEF Decide, Exit, Ended
  <2>6. MarkTypes'
    BY <2>2, <2>4 DEF MarkTypes
  <2>7. QED  BY <2>1, <2>3, <2>4, <2>5, <2>6 DEF MarkTypes
<1>7. ASSUME NEW word \in {"y", "delete", "no"}, Answer(word)
      PROVE  TypeOK'
  <2>1. MarkTypes'
    BY <1>2, <1>3, <1>7 DEF Answer, calls, marks, history
  <2>2. QED
    BY <1>1, <1>7, <2>1 DEF Answer, Accepted, Exit, Ended, history, MarkTypes
<1>8. ASSUME NEW i \in plan, Send(i) \/ Answered(i) \/ GiveUp(i)
      PROVE  TypeOK'
  <2>1. MarkTypes'
    BY <1>3, <1>8, ApplyMarks
  <2>2. UNCHANGED <<dockerVars, young, budget, o, pc, listed, env, plan, shown, approval, ctxDone,
                    exit, deleted>>
    BY <1>8 DEF Send, Answered, GiveUp
  <2>3. QED  BY <1>1, <2>1, <2>2 DEF MarkTypes
<1>9. ASSUME NEW i \in plan, CarriesOut(i) \/ ComesToNothing(i)
      PROVE  TypeOK'
  <2>1. MarkTypes'
    BY <1>3, <1>9, DealMarks
  <2>2. DockerTypeOK'
    BY <1>1, <1>9, RemovalType DEF CarriesOut, ComesToNothing
  <2>3. deleted' \subseteq Keys
    <3>1. Present \subseteq Keys
      BY DEF Present, Keys, Kinds, Ids, DockerTypeOK
    <3>2. QED  BY <1>9, <3>1 DEF CarriesOut, ComesToNothing, history
  <2>4. UNCHANGED <<o, pc, listed, env, plan, shown, approval, ctxDone, exit>>
    BY <1>9 DEF CarriesOut, ComesToNothing
  <2>5. QED  BY <2>1, <2>2, <2>3, <2>4 DEF MarkTypes
<1>10. CASE Finish \/ Cancel \/ Kill
  <2>1. MarkTypes'
    BY <1>2, <1>3, <1>10 DEF Finish, Cancel, Kill, calls, marks, history, MarkTypes
  <2>2. UNCHANGED <<dockerVars, young, budget, o, listed, env, plan, shown, approval, deleted>>
        /\ pc' \in {pc} \cup Ended /\ ctxDone' \in BOOLEAN
        /\ exit' \in {"none", "ok", "warning", "error"}
    BY <1>10 DEF Finish, Cancel, Kill, Exit, Ended, history
  <2>3. QED  BY <1>1, <2>1, <2>2 DEF MarkTypes
<1>11. CASE Others
  <2>1. MarkTypes'
    BY <1>2, <1>3, <1>11 DEF Others, runVars, calls, marks, history
  <2>2. QED  BY <1>11, <2>1, UserStepType DEF Others, runVars, history, MarkTypes
<1>12. CASE UNCHANGED vars
  <2>1. MarkTypes'
    BY <1>2, <1>3, <1>12 DEF vars, runVars, calls, marks, history
  <2>2. QED  BY <1>1, <1>12, <2>1 DEF vars, runVars, history, MarkTypes
<1>13. QED
  BY <1>4, <1>5, <1>6, <1>7, <1>8, <1>9, <1>10, <1>11, <1>12
  DEF Next, Apply, Deal, Terminated

-----------------------------------------------------------------------------
(* How far the run has come decides what has been agreed to, and that what  *)
(* has gone.                                                                *)

LEMMA GateInit ==
  ASSUME Init
  PROVE  GateInv
BY DEF Init, GateInv, Agreed, NotImages

\* One removal call, answered or not, stays within the plan.
LEMMA RemovalWithinPlan ==
  ASSUME TypeOK, NEW i \in plan, Removes(i),
         NotImages(deleted) \subseteq PlannedKeys,
         deleted' = deleted \cup (Present \ Present')
  PROVE  NotImages(deleted') \subseteq PlannedKeys
<1>1. NotImages(Present \ Present') \subseteq {Key(i)}
  BY NothingElseGoes DEF TypeOK
<1>2. Key(i) \in PlannedKeys
  BY DEF PlannedKeys
<1>3. NotImages(deleted') = NotImages(deleted) \cup NotImages(Present \ Present')
  BY DEF NotImages
<1>4. QED
  BY <1>1, <1>2, <1>3

LEMMA GateStep ==
  ASSUME TypeOK, GateInv, [Next]_vars
  PROVE  GateInv'
<1>1. ASSUME UNCHANGED <<o, plan, approval, deleted, out, requests>>,
             pc' = pc \/ pc' \in Ended
      PROVE  GateInv'
  BY <1>1 DEF GateInv, Agreed, PlannedKeys, HasDataLoss, Ended
<1>2. CASE Collect
  <2>1. UNCHANGED <<o, plan, approval, deleted, pc, out, requests>>
    BY <1>2 DEF Collect, ListContainers, InspectContainer, ListImages, ListVolumes,
                ListNetworks, Returns, Collects, history, calls
  <2>2. QED  BY <1>1, <2>1
<1>3. CASE CollectFails
  BY <1>1, <1>3 DEF CollectFails, Exit, Ended, history, calls
<1>4. CASE Decide
  <2> USE DEF Decide, GateInv
  <2>1. ~Agreed /\ deleted = {} /\ deleted' = {} /\ o' = o /\ out' = {} /\ requests' = {}
    BY <1>4 DEF history, calls
  <2>2. \A i \in plan' : i.kind = "volume" => "volumes" \in o.flags
    <3>1. plan' \in {plan, Plan(env, o)}
      BY <1>4
    <3>2. QED  BY <3>1, VolumesAreAskedFor
  <2>3. NotImages(deleted') \subseteq PlannedKeys'
    BY <2>1 DEF NotImages
  <2>4. pc' = "prompt" => o.apply /\ ~o.yes /\ ~Agreed'
    BY <1>4, <2>1 DEF Exit, DryRun, Agreed
  <2>5. Agreed' => o.apply /\ o.yes /\ approval' = "flag"
    BY <1>4, <2>1 DEF Exit, DryRun, Agreed
  <2>6. pc' \in {"prompt", "applying", "done"} /\ (pc' = "applying" => Agreed')
    BY <1>4 DEF Exit, Agreed
  <2>7. QED  BY <2>1, <2>2, <2>3, <2>4, <2>5, <2>6
<1>5. ASSUME NEW word \in {"y", "delete", "no"}, Answer(word)
      PROVE  GateInv'
  <2>1. UNCHANGED <<o, plan, deleted, out, requests>> /\ ~Agreed /\ o.apply /\ ~o.yes
        /\ deleted = {} /\ out = {} /\ requests = {}
    BY <1>5 DEF Answer, GateInv, history, calls
  <2>2. CASE Accepted(plan, word)
    <3>1. pc' = "applying" /\ approval' = IF HasDataLoss(plan) THEN "delete" ELSE "y"
      BY <1>5, <2>2 DEF Answer, Accepted
    <3>2. QED  BY <2>1, <3>1 DEF GateInv, Agreed, HasDataLoss, PlannedKeys
  <2>3. CASE ~Accepted(plan, word)
    BY <1>1, <1>5, <2>1, <2>3 DEF Answer, Exit, Ended
  <2>4. QED  BY <2>2, <2>3
<1>6. ASSUME NEW i \in plan, Send(i) \/ Answered(i) \/ GiveUp(i)
      PROVE  GateInv'
  <2>1. UNCHANGED <<o, pc, plan, approval, deleted>> /\ Agreed
    BY <1>6 DEF Send, Answered, GiveUp, GateInv
  <2>2. \A j, k \in out' : j = k
    BY <1>6 DEF Send, Answered, GiveUp, GateInv
  <2>3. QED  BY <2>1, <2>2 DEF GateInv, Agreed, PlannedKeys, HasDataLoss
<1>7. ASSUME NEW i \in plan, CarriesOut(i) \/ ComesToNothing(i)
      PROVE  GateInv'
  <2>1. UNCHANGED <<o, pc, plan, approval, out>> /\ Agreed
    BY <1>7 DEF CarriesOut, ComesToNothing, GateInv
  <2>2. \/ deleted' = deleted
        \/ Removes(i) /\ deleted' = deleted \cup (Present \ Present')
    BY <1>7 DEF CarriesOut, ComesToNothing, history
  <2>3. NotImages(deleted') \subseteq PlannedKeys
    BY <2>2, RemovalWithinPlan DEF GateInv
  <2>4. QED  BY <2>1, <2>3 DEF GateInv, Agreed, PlannedKeys, HasDataLoss
<1>8. CASE Finish \/ Cancel \/ Kill
  BY <1>1, <1>8 DEF Finish, Cancel, Kill, Exit, Ended, history, calls
<1>9. CASE Others
  BY <1>1, <1>9 DEF Others, runVars, history, calls
<1>10. CASE UNCHANGED vars
  BY <1>1, <1>10 DEF vars, runVars, history, calls
<1>11. QED
  BY <1>2, <1>3, <1>4, <1>5, <1>6, <1>7, <1>8, <1>9, <1>10 DEF Next, Apply, Deal, Terminated

-----------------------------------------------------------------------------
(* The theorems. *)

\* Every variable keeps its type; the marks Removed and Error exclude each
\* other, and only planned items carry them.
THEOREM TypeCorrect == Spec => [](TypeOK /\ GateInv)
<1>1. Init => TypeOK /\ GateInv
  BY TypeInit, GateInit
<1>2. TypeOK /\ GateInv /\ [Next]_vars => (TypeOK /\ GateInv)'
  BY TypeStep, GateStep
<1>3. QED
  BY <1>1, <1>2, PTL DEF Spec

\* No path through flags, prompt, partial failure, lost answers, kill or other
\* users leads to a volume removed without --apply, --volumes and the consent
\* that volumes take.
THEOREM VolumesGated == Spec => []VolumeGate
<1>1. TypeOK /\ GateInv => VolumeGate
  <2> SUFFICES ASSUME TypeOK, GateInv, NEW k \in deleted, k[1] = "volume"
               PROVE  /\ o.apply /\ "volumes" \in o.flags
                      /\ approval = IF o.yes THEN "flag" ELSE "delete"
    BY DEF VolumeGate
  <2>1. k \in PlannedKeys
    BY DEF GateInv, NotImages
  <2>2. PICK i \in plan : k = Key(i)
    BY <2>1 DEF PlannedKeys
  <2>3. i.kind = "volume"
    BY <2>2 DEF Key
  <2>4. Agreed
    BY DEF GateInv
  <2>5. HasDataLoss(plan)
    BY <2>3 DEF HasDataLoss
  <2>6. QED  BY <2>3, <2>4, <2>5 DEF GateInv
<1>2. QED
  BY <1>1, TypeCorrect, PTL

-----------------------------------------------------------------------------
(* The end. *)

\* What the run may still come to from where it is.
Ahead ==
  [collecting |-> {"prompt", "applying", "ended"}, prompt |-> {"applying", "ended"},
   applying |-> {"ended"}, done |-> {}, killed |-> {}]

\* Items the daemon was never asked for.
Unsent == Item \ (removed \cup failed \cup out)

\* What is left to do: the lists and the inspects to hear, the items to send for, to
\* deal with and to settle, the places to come to, the context to lose.
ToDo ==
  ({"list"} \X (Lists \ listed)) \cup ({"inspect"} \X (Containers \ env.asked))
    \cup ({"send"} \X Unsent) \cup ({"deal"} \X (Unsent \cup requests))
    \cup ({"settle"} \X (Item \ (removed \cup failed)))
    \cup ({"place"} \X Ahead[pc]) \cup ({"context"} \X {x \in {TRUE} : ~ctxDone})
StepsLeft == Cardinality(ToDo)

\* A daemon has finitely many resources, so there are finitely many items.
LEMMA ItemsAreFinite ==
  ASSUME IsFiniteSet(Ids), IsFiniteSet(Tags)
  PROVE  IsFiniteSet(Item)
<1> DEFINE S == Kinds \X (Ids \X (Tags \cup {NoTag}))
           f == [x \in S |-> [kind |-> x[1], id |-> x[2][1], name |-> x[2][2]]]
<1>1. IsFiniteSet(Kinds)
  <2>1. IsFiniteSet({})
    BY FS_EmptySet
  <2>2. IsFiniteSet({} \cup {"container"})
    BY <2>1, FS_AddElement
  <2>3. IsFiniteSet(({} \cup {"container"}) \cup {"image"})
    BY <2>2, FS_AddElement
  <2>4. IsFiniteSet((({} \cup {"container"}) \cup {"image"}) \cup {"network"})
    BY <2>3, FS_AddElement
  <2>5. IsFiniteSet(((({} \cup {"container"}) \cup {"image"}) \cup {"network"}) \cup {"volume"})
    BY <2>4, FS_AddElement
  <2>6. Kinds = ((({} \cup {"container"}) \cup {"image"}) \cup {"network"}) \cup {"volume"}
    BY DEF Kinds
  <2> QED BY <2>5, <2>6
<1>2. IsFiniteSet(Tags \cup {NoTag})
  BY FS_AddElement
<1>3. IsFiniteSet(Ids \X (Tags \cup {NoTag}))
  BY <1>2, FS_Product
<1>4. IsFiniteSet(S)
  BY <1>1, <1>3, FS_Product
<1>5. f \in [S -> Item]
  BY DEF Item
<1>6. ASSUME NEW i \in Item PROVE \E x \in S : f[x] = i
  <2>1. <<i.kind, <<i.id, i.name>>>> \in S /\ f[<<i.kind, <<i.id, i.name>>>>] = i
    BY DEF Item
  <2> QED BY <2>1
<1> HIDE DEF S, f
<1>7. f \in Surjection(S, Item)
  BY <1>5, <1>6 DEF Surjection
<1> QED BY <1>4, <1>7, FS_Surjection

LEMMA ToDoIsFinite ==
  ASSUME TypeOK, IsFiniteSet(Ids), IsFiniteSet(Item)
  PROVE  IsFiniteSet(ToDo)
<1>1. \A x : IsFiniteSet({x})
  BY FS_Singleton
<1>2. IsFiniteSet(Lists \ listed)
  <2>1. IsFiniteSet((({"containers"} \cup {"images"}) \cup {"volumes"}) \cup {"networks"})
    BY <1>1, FS_Union
  <2>2. Lists = (({"containers"} \cup {"images"}) \cup {"volumes"}) \cup {"networks"}
    BY DEF Lists
  <2> QED BY <2>1, <2>2, FS_Difference
<1>3. IsFiniteSet(Ahead[pc])
  <2>1. IsFiniteSet(({"prompt"} \cup {"applying"}) \cup {"ended"})
    BY <1>1, FS_Union
  <2>2. Ahead[pc] \subseteq ({"prompt"} \cup {"applying"}) \cup {"ended"}
    BY DEF Ahead, TypeOK, Ended
  <2> QED BY <2>1, <2>2, FS_Subset
<1>4. IsFiniteSet({x \in {TRUE} : ~ctxDone})
  BY <1>1, FS_Subset
<1>5. IsFiniteSet(Item \ (removed \cup failed)) /\ IsFiniteSet(Unsent)
  BY FS_Difference DEF Unsent
<1>6. IsFiniteSet(Unsent \cup requests)
  <2>1. requests \subseteq Item /\ Unsent \subseteq Item
    BY DEF TypeOK, Unsent
  <2> QED BY <2>1, FS_Subset
<1>7. IsFiniteSet(Containers \ env.asked)
  BY FS_Subset DEF Ids
<1>8. /\ IsFiniteSet({"list"} \X (Lists \ listed))
      /\ IsFiniteSet({"inspect"} \X (Containers \ env.asked))
      /\ IsFiniteSet({"send"} \X Unsent)
      /\ IsFiniteSet({"deal"} \X (Unsent \cup requests))
      /\ IsFiniteSet({"settle"} \X (Item \ (removed \cup failed)))
      /\ IsFiniteSet({"place"} \X Ahead[pc])
      /\ IsFiniteSet({"context"} \X {x \in {TRUE} : ~ctxDone})
  BY <1>1, <1>2, <1>3, <1>4, <1>5, <1>6, <1>7, FS_Product
<1> QED BY <1>8, FS_Union DEF ToDo

\* What a step gives up, and that it takes nothing up again.
GivesUp ==
  /\ listed \subseteq listed' /\ env.asked \subseteq env'.asked
  /\ Unsent' \subseteq Unsent /\ (Unsent \cup requests)' \subseteq Unsent \cup requests
  /\ removed \cup failed \subseteq removed' \cup failed'
  /\ Ahead[pc'] \subseteq Ahead[pc] /\ (ctxDone => ctxDone')
  /\ \/ \E l \in Lists : l \notin listed /\ l \in listed'
     \/ \E c \in Containers : c \notin env.asked /\ c \in env'.asked
     \/ \E i \in Unsent : i \notin Unsent'
     \/ \E i \in Unsent \cup requests : i \notin (Unsent \cup requests)'
     \/ \E i \in Item : i \notin removed \cup failed /\ i \in removed' \cup failed'
     \/ \E p \in Ahead[pc] : p \notin Ahead[pc']
     \/ ctxDone' # ctxDone

LEMMA GivingUpIsLess ==
  ASSUME TypeOK, TypeOK', IsFiniteSet(Ids), IsFiniteSet(Item), GivesUp
  PROVE  StepsLeft' < StepsLeft
<1>1. IsFiniteSet(ToDo)
  BY ToDoIsFinite
<1>2. ToDo' \subseteq ToDo
  <2>1. /\ Lists \ listed' \subseteq Lists \ listed
        /\ Containers \ env'.asked \subseteq Containers \ env.asked
        /\ Unsent' \subseteq Unsent
        /\ (Unsent \cup requests)' \subseteq Unsent \cup requests
        /\ Item \ (removed' \cup failed') \subseteq Item \ (removed \cup failed)
        /\ Ahead[pc'] \subseteq Ahead[pc]
        /\ {x \in {TRUE} : ~ctxDone'} \subseteq {x \in {TRUE} : ~ctxDone}
    BY DEF GivesUp
  <2>2. \A kind, S, T : S \subseteq T => {kind} \X S \subseteq {kind} \X T
    OBVIOUS
  <2> DEFINE deal == Unsent \cup requests
             settle == Item \ (removed \cup failed)
             context == {x \in {TRUE} : ~ctxDone}
  <2>3. /\ {"list"} \X (Lists \ listed') \subseteq {"list"} \X (Lists \ listed)
        /\ {"inspect"} \X (Containers \ env'.asked) \subseteq {"inspect"} \X (Containers \ env.asked)
        /\ {"send"} \X Unsent' \subseteq {"send"} \X Unsent
        /\ {"deal"} \X deal' \subseteq {"deal"} \X deal
        /\ {"settle"} \X settle' \subseteq {"settle"} \X settle
        /\ {"place"} \X Ahead[pc'] \subseteq {"place"} \X Ahead[pc]
        /\ {"context"} \X context' \subseteq {"context"} \X context
    BY <2>1, <2>2
  <2>4. QED  BY <2>3 DEF ToDo
<1>3. \E x \in ToDo : x \notin ToDo'
  <2>1. ASSUME NEW l \in Lists, l \notin listed, l \in listed'
        PROVE  \E x \in ToDo : x \notin ToDo'
    <3>1. <<"list", l>> \in ToDo /\ <<"list", l>> \notin ToDo'
      BY <2>1 DEF ToDo
    <3> QED BY <3>1
  <2>2. ASSUME NEW c \in Containers, c \notin env.asked, c \in env'.asked
        PROVE  \E x \in ToDo : x \notin ToDo'
    <3>1. <<"inspect", c>> \in ToDo /\ <<"inspect", c>> \notin ToDo'
      BY <2>2 DEF ToDo
    <3> QED BY <3>1
  <2>3. ASSUME NEW i \in Unsent, i \notin Unsent'
        PROVE  \E x \in ToDo : x \notin ToDo'
    <3>1. <<"send", i>> \in ToDo /\ <<"send", i>> \notin ToDo'
      BY <2>3 DEF ToDo
    <3> QED BY <3>1
  <2>4. ASSUME NEW i \in Unsent \cup requests, i \notin (Unsent \cup requests)'
        PROVE  \E x \in ToDo : x \notin ToDo'
    <3>1. <<"deal", i>> \in ToDo /\ <<"deal", i>> \notin ToDo'
      BY <2>4 DEF ToDo
    <3> QED BY <3>1
  <2>5. ASSUME NEW i \in Item, i \notin removed \cup failed, i \in removed' \cup failed'
        PROVE  \E x \in ToDo : x \notin ToDo'
    <3>1. <<"settle", i>> \in ToDo /\ <<"settle", i>> \notin ToDo'
      BY <2>5 DEF ToDo
    <3> QED BY <3>1
  <2>6. ASSUME NEW p \in Ahead[pc], p \notin Ahead[pc']
        PROVE  \E x \in ToDo : x \notin ToDo'
    <3>1. <<"place", p>> \in ToDo /\ <<"place", p>> \notin ToDo'
      BY <2>6 DEF ToDo
    <3> QED BY <3>1
  <2>7. ASSUME ctxDone' # ctxDone
        PROVE  \E x \in ToDo : x \notin ToDo'
    <3>1. ~ctxDone /\ ctxDone'
      BY <2>7 DEF GivesUp, TypeOK
    <3>2. <<"context", TRUE>> \in ToDo /\ <<"context", TRUE>> \notin ToDo'
      BY <3>1 DEF ToDo
    <3> QED BY <3>2
  <2> QED BY <2>1, <2>2, <2>3, <2>4, <2>5, <2>6, <2>7 DEF GivesUp
<1> HIDE DEF ToDo
<1> QED BY <1>1, <1>2, <1>3, Fewer DEF StepsLeft

\* Forward, to some place the run has not been.
LEMMA MovesOn ==
  ASSUME TypeOK, pc' \in {"prompt", "applying", "done", "killed"} /\ pc' # pc,
         pc = "prompt" => pc' # "prompt",  pc = "applying" => pc' \in Ended, pc \notin Ended,
         UNCHANGED <<listed, env, out, requests, removed, failed, ctxDone>>
  PROVE  GivesUp
<1>1. UNCHANGED <<Unsent, Unsent \cup requests>>
  BY DEF Unsent
<1>2. Ahead[pc'] \subseteq Ahead[pc] /\ \E p \in Ahead[pc] : p \notin Ahead[pc']
  BY DEF Ahead, TypeOK, Ended
<1>3. QED  BY <1>1, <1>2 DEF GivesUp

\* Of one item: sent for, settled, or dealt with.
LEMMA ApplyGivesUp ==
  ASSUME TypeOK, GateInv, NEW i \in plan,
         \/ Send(i) \/ Answered(i) \/ GiveUp(i)
         \/ CarriesOut(i) \/ ComesToNothing(i)
  PROVE  GivesUp
<1>1. i \in Item /\ UNCHANGED <<listed, env, pc, ctxDone>>
  BY DEF TypeOK, Send, Answered, GiveUp, CarriesOut, ComesToNothing
<1> DEFINE settled == removed \cup failed
<1> SUFFICES /\ Unsent' \subseteq Unsent /\ (Unsent \cup requests)' \subseteq Unsent \cup requests
             /\ settled \subseteq settled'
             /\ \/ i \in Unsent /\ i \notin Unsent'
                \/ i \in Unsent \cup requests /\ i \notin (Unsent \cup requests)'
                \/ i \notin settled /\ i \in settled'
  BY <1>1 DEF GivesUp
<1> USE <1>1 DEF Unsent, SettleRemoved, SettleFailed, TypeOK
<1>2. CASE Send(i)
  BY <1>2 DEF Send, Unsettled, marks
<1>3. CASE Answered(i)
  <2>1. out = {i} /\ out' = {} /\ requests' = requests /\ settled' = settled \cup {i}
    BY <1>3 DEF Answered, GateInv
  <2>2. QED  BY <2>1
<1>4. CASE GiveUp(i)
  <2>1. out = {i} /\ out' = {} /\ requests' = requests /\ settled' = settled \cup {i}
    BY <1>4 DEF GiveUp, GateInv
  <2>2. QED  BY <2>1
<1>5. CASE CarriesOut(i) \/ ComesToNothing(i)
  <2>1. /\ i \in requests /\ requests' = requests \ {i}
        /\ UNCHANGED <<out, removed, failed>>
    BY <1>5 DEF CarriesOut, ComesToNothing, marks
  <2>2. i \in out \cup failed
    BY <2>1
  <2>3. QED  BY <2>1, <2>2
<1>6. QED  BY <1>2, <1>3, <1>4, <1>5

LEMMA RunStep ==
  ASSUME TypeOK, GateInv, [Next]_vars
  PROVE  GivesUp \/ UNCHANGED runVars
<1>1. CASE Collect
  <2>1. UNCHANGED <<pc, ctxDone, removed, failed, out, requests, Unsent, Unsent \cup requests>>
    BY <1>1 DEF Collect, ListContainers, InspectContainer, ListImages, ListVolumes,
                ListNetworks, Returns, Collects, calls, marks, Unsent
  <2>2. \/ \E l \in Lists : l \notin listed /\ listed' = listed \cup {l} /\ env'.asked = env.asked
        \/ \E c \in Containers : /\ c \notin env.asked /\ env'.asked = env.asked \cup {c}
                                 /\ listed' = listed
    <3> USE DEF Returns, Collects, Lists, TypeOK, Environment
    <3>1. CASE ListContainers
      BY <3>1 DEF ListContainers
    <3>2. ASSUME NEW c \in Containers, InspectContainer(c)
          PROVE  c \notin env.asked /\ env'.asked = env.asked \cup {c} /\ listed' = listed
      BY <3>2 DEF InspectContainer
    <3>3. CASE ListImages
      BY <3>3 DEF ListImages
    <3>4. CASE ListVolumes
      BY <3>4 DEF ListVolumes
    <3>5. CASE ListNetworks
      BY <3>5 DEF ListNetworks
    <3>6. QED  BY <1>1, <3>1, <3>2, <3>3, <3>4, <3>5 DEF Collect
  <2> QED BY <2>1, <2>2 DEF GivesUp
<1>2. CASE CollectFails \/ Finish \/ Kill
  BY <1>2, MovesOn DEF CollectFails, Finish, Kill, Exit, Running, Ended, calls, marks
<1>3. CASE Decide
  <2>1. pc = "collecting" /\ UNCHANGED <<listed, env, ctxDone, removed, failed, out, requests>>
    BY <1>3 DEF Decide, calls, marks
  <2>2. pc' \in {"prompt", "applying", "done"}
    BY <1>3 DEF Decide, Exit
  <2> QED BY <2>1, <2>2, MovesOn DEF Ended
<1>4. ASSUME NEW word \in {"y", "delete", "no"}, Answer(word)
      PROVE  GivesUp
  BY <1>4, MovesOn DEF Answer, Exit, Ended, calls, marks
<1>5. CASE Apply \/ Deal
  BY <1>5, ApplyGivesUp DEF Apply, Deal
<1>6. CASE Cancel
  BY <1>6 DEF Cancel, GivesUp, calls, marks, Unsent
<1>7. CASE Others \/ UNCHANGED vars
  BY <1>7 DEF Others, vars
<1> QED
  BY <1>1, <1>2, <1>3, <1>4, <1>5, <1>6, <1>7 DEF Next, Terminated

\* Apply goes through its list once.  Of what is unsettled something always has
\* its turn, so no kind waits for another for ever; and every step of the run, and of
\* the daemon with what the run sent it, leaves fewer to take, since a list or an
\* inspect is heard once, an item sent for, dealt with and settled once, and a run
\* that has gone on does not come back.  (That a step which may be taken is taken
\* is the fairness that TLC's runs assume.)
THEOREM RunWindsDown ==
  ASSUME IsFiniteSet(Ids), IsFiniteSet(Tags)
  PROVE  Spec => /\ [](Unsettled # {} => \E i \in Unsettled : Turn(i))
                 /\ [](StepsLeft \in Nat)
                 /\ [][StepsLeft' < StepsLeft \/ UNCHANGED runVars]_vars
<1>1. ASSUME TypeOK, Unsettled # {} PROVE \E i \in Unsettled : Turn(i)
  <2>1. \A i \in Unsettled : i.kind \in {"container", "image", "network", "volume"}
    BY <1>1 DEF TypeOK, Unsettled, Item, Kinds
  <2>2. CASE \E i \in Unsettled : i.kind = "container"
    BY <2>1, <2>2 DEF Turn, Order
  <2>3. CASE ~(\E i \in Unsettled : i.kind = "container") /\ \E i \in Unsettled : i.kind = "image"
    BY <2>1, <2>3 DEF Turn, Order
  <2>4. CASE /\ ~\E i \in Unsettled : i.kind \in {"container", "image"}
             /\ \E i \in Unsettled : i.kind = "network"
    BY <2>1, <2>4 DEF Turn, Order
  <2>5. CASE ~\E i \in Unsettled : i.kind \in {"container", "image", "network"}
    BY <1>1, <2>1, <2>5 DEF Turn, Order
  <2> QED BY <2>2, <2>3, <2>4, <2>5
<1>2. IsFiniteSet(Item)
  BY ItemsAreFinite
<1>3. ASSUME TypeOK PROVE StepsLeft \in Nat
  BY <1>2, <1>3, ToDoIsFinite, FS_CardinalityType DEF StepsLeft
<1>4. ASSUME TypeOK, GateInv, TypeOK', [Next]_vars
      PROVE  [StepsLeft' < StepsLeft \/ UNCHANGED runVars]_vars
  BY <1>2, <1>4, RunStep, GivingUpIsLess
<1> QED BY <1>1, <1>3, <1>4, TypeCorrect, PTL DEF Spec
============================================================================
