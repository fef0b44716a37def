------------------------- MODULE CleanupProperties -------------------------
(***************************************************************************)
(* What a cleanup run must and must not do, stated over CleanupRun.        *)
(***************************************************************************)
EXTENDS CleanupRun

Agreed == approval # "none"
PlannedKeys == {Key(i) : i \in plan}
NotImages(keys) == {k \in keys : k[1] # "image"}
KeysOf(items) == NotImages({Key(i) : i \in items})

\* The environment an undisturbed collection would gather now.
CurrentEnvironment == [
  containers |-> {c \in Containers : Live(c)},
  state |-> ctr,
  runsOn |-> runsOn,
  asked |-> {c \in Containers : Live(c)},
  inspected |-> {c \in Containers : Live(c)},
  joined |-> joined,
  images |-> img,
  tag |-> tag,
  volumes |-> vol,
  networks |-> net,
  young |-> young]

\* A volume disappears by the run's doing only under --volumes with --apply,
\* and only after --yes or the typed word "delete": no other flag, no container
\* removal (RemoveVolumes: false) and no plain y leads there.  The five
\* constraints of docs/adr/0006-cleanup-safety-model.md meet here.
VolumeGate ==
  (\E k \in deleted : k[1] = "volume") =>
    /\ o.apply /\ "volumes" \in o.flags
    /\ approval = IF o.yes THEN "flag" ELSE "delete"

\* Inductive with TypeOK, and what VolumeGate and KeepsPromise follow from: how
\* far the run has come decides what has been agreed to, what has been agreed to
\* bounds what is gone, and one call is out at a time.
GateInv ==
  /\ pc = "collecting" => plan = {} /\ ~Agreed
  /\ pc = "prompt" => o.apply /\ ~o.yes /\ ~Agreed
  /\ pc = "applying" => Agreed
  /\ Agreed =>
       /\ o.apply
       /\ approval = IF o.yes THEN "flag" ELSE IF HasDataLoss(plan) THEN "delete" ELSE "y"
  /\ ~Agreed => deleted = {} /\ out = {} /\ requests = {}
  /\ \A i, j \in out : i = j
  /\ \A i \in plan : i.kind = "volume" => "volumes" \in o.flags
  /\ NotImages(deleted) \subseteq PlannedKeys

\* Nobody the run leaves alive is left short by it, listed or not, inspected or
\* not, up or down: image and volumes stay because the daemon refuses, and a
\* network its inspect showed stays because it is then not planned (unless the
\* plan takes the container, or a network of the same name was listed).  Without
\* that exemption it is false of a container that is down and was created, or
\* connected to the network, after the run had asked about it: see the README.
KeptContainersStayWhole ==
  [][budget' = budget =>
       \A c \in Containers : Live(c) /\ ctr'[c] # "gone" =>
         /\ runsOn[c] \in img' /\ Mounts[c] \subseteq vol'
         /\ c \in (env.containers \cap env.inspected) \ DoomedContainers(env, o) =>
              \A n \in env.joined[c] \cap net : Namesakes(env, n) \subseteq {n} => n \in net']_vars

\* --keep-since: what was listed as created inside the window outlives the
\* run.  Images are exempt: they are removed by tag, see OnlyPlannedGoes.
KeepSinceHolds ==
  \A k \in NotImages(deleted) : ~TooRecent(env, o, k)

\* No step of the run takes anything from a container that is up: it keeps
\* running, and its image, volumes and networks stay (Force is false in every
\* removal of internal/docker/prune.go).  Steps of the other users spend budget.
RunningContainersUntouched ==
  [][budget' = budget =>
       \A c \in Containers : ctr[c] \in Active =>
         /\ ctr'[c] = ctr[c] /\ runsOn[c] \in img'
         /\ Mounts[c] \subseteq vol' /\ joined[c] \subseteq net']_vars

\* Once the deadline has passed or the user has interrupted, at the prompt or in
\* the middle of the plan, what had not been begun is spared: of the items left
\* none goes and none is marked Removed, however late the daemon gets round to
\* what it was sent before.  Only the one removal that was out may still be
\* carried out, or one given up before.
InterruptSpares ==
  ctxDone => \A i \in plan \ begun :
    i \notin removed /\ (i.kind # "image" => Key(i) \notin deleted)

\* An item reported as failed was left alone, and no late removal of another one
\* takes it, unless its own call ended without an answer: the daemon's refusal is
\* recorded for the item it refused.
FailedMeansIntact ==
  \A i \in failed \ doubt : i.kind # "image" => Key(i) \notin deleted

\* An undisturbed run leaves nothing for a second one: after exit 0 the same
\* command line plans nothing.  Images with several tags and networks of one name
\* are exempt.
OneRunConverges ==
  /\ pc = "done" /\ exit = "ok" /\ Agreed
  /\ budget = MaxUserSteps /\ env.inspected = env.containers
  /\ \A t, u \in Tags : env.tag[t] = env.tag[u] /\ env.tag[t] \in env.images => t = u
  /\ \A m, n \in env.networks : NetName[m] = NetName[n] => m = n
  => Plan(CurrentEnvironment, o) = {}

\* The exit code tells a script what happened: 0 after an agreed run means
\* every planned container, network and volume is gone by the run's doing and
\* nothing is under way any more, 1 means some item was not removed, 10 after
\* consent that every item was settled and only the report of it was lost; and a
\* run nobody agreed to removed nothing.
ExitTellsTruth ==
  /\ exit = "ok" /\ Agreed => KeysOf(plan) \subseteq deleted /\ requests = {}
  /\ exit = "warning" => Agreed /\ \E i \in plan : i \notin removed
  /\ exit = "error" /\ Agreed => Unsettled = {}
  /\ ~Agreed => deleted = {}

\* A run ends, or waits for an answer; with the answer given it ends.
RunEnds == (pc # "prompt") ~> (pc = "prompt" \/ ~Running)

Promise == INSTANCE Approval WITH
  Things <- NotImages(Keys),
  phase  <- IF pc = "applying" THEN "agreed" ELSE IF pc \in Ended THEN "over" ELSE "open",
  agreed <- IF Agreed THEN KeysOf(plan) ELSE {},
  waiting <- KeysOf(requests),
  gone   <- NotImages(deleted)

\* The run implements the promise for containers, networks and volumes.
KeepsPromise == Promise!Spec

-----------------------------------------------------------------------------
(* Stated by the repository and not kept by the code: see the findings. *)

\* The same promise with images in it: only what the plan lists goes.
OnlyPlannedGoes == deleted \subseteq PlannedKeys

\* "Removed is true only after a successful --apply": an image marked Removed,
\* whose bytes are counted as reclaimed, is gone.
RemovedMeansGone == \A i \in removed : Key(i) \in deleted

\* "a failure earlier in the plan stops before the irreversible part".
FailureSparesVolumes ==
  (\E i \in failed : i.kind # "volume") => ~\E k \in deleted : k[1] = "volume"
============================================================================
