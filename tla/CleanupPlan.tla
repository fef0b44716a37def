---------------------------- MODULE CleanupPlan ----------------------------
(***************************************************************************)
(* What `doctordock cleanup' would remove: internal/cleanup.Plan over the  *)
(* environment internal/scanner collected and linked.  Pure: no variable   *)
(* is changed here.                                                        *)
(*                                                                         *)
(* An environment is the record of the four lists, each as it was when the *)
(* daemon answered: they are taken concurrently, so they need not describe *)
(* one instant, and neither need the inspects, one for each container.  An *)
(* item is a resource and the name it is known by; the reason, the size    *)
(* and the order of items of one kind are left out.                        *)
(***************************************************************************)
EXTENDS Docker

CONSTANT Undated    \* keys whose creation time the daemon does not report

ASSUME UndatedAssumption == Undated \subseteq Keys

Environment == [
  containers : SUBSET Containers,          \* ContainerList
  state      : [Containers -> Status],
  runsOn     : [Containers -> Images],
  asked      : SUBSET Containers,          \* those whose inspect has returned
  inspected  : SUBSET Containers,          \* and those whose inspect succeeded
  joined     : [Containers -> SUBSET Networks],
  images     : SUBSET Images,              \* ImageList
  tag        : [Tags -> Images \cup {NoImage}],
  volumes    : SUBSET Volumes,             \* VolumeList
  networks   : SUBSET Networks,            \* NetworkList
  young      : SUBSET Keys]                \* creation times, per listed key

CommandLine == [
  flags  : SUBSET {"containers", "images", "networks", "volumes", "all"},
  apply  : BOOLEAN,
  yes    : BOOLEAN,
  keep   : BOOLEAN,                        \* --keep-since above zero
  tty    : BOOLEAN,                        \* stdin is a terminal
  format : {"terminal", "json", "bad"}]

Item == [kind : Kinds, id : Ids, name : Tags \cup {NoTag}]
Key(i) == <<i.kind, i.id>>

-----------------------------------------------------------------------------
(* Targets *)
DefaultTargets == {"dangling", "networks"}
All == {"containers", "images", "dangling", "networks"}

\* Mutant: --all is taken to mean everything, volumes included.
TargetsAllVolumes(o) ==
  IF "all" \in o.flags THEN All \cup {"volumes"} ELSE DefaultTargets

\* --all never brings volumes; --images brings dangling images; no flag at all
\* means what Docker itself calls safe.
Targets(o) ==
  LET named == (IF "all" \in o.flags THEN All ELSE {}) \cup (o.flags \ {"all"})
      t == named \cup (IF "images" \in named THEN {"dangling"} ELSE {})
  IN IF t = {} THEN DefaultTargets ELSE t

\* A resource without a creation time is never too recent.
TooRecent(env, o, k) == o.keep /\ k \notin Undated /\ k \in env.young

-----------------------------------------------------------------------------
(* Linking: who uses what, derived from the container list alone. *)
TagsIn(env, i) == {t \in Tags : env.tag[t] = i}

\* By the ID it runs and by the reference it was run from.
ImageUsers(env, i) ==
  {c \in env.containers : env.runsOn[c] = i \/ env.tag[Ref[c]] = i}

\* Mounts and networks come from the inspect: a container whose inspect failed
\* is recorded with none.
VolumeUsers(env, v) == {c \in env.containers \cap env.inspected : v \in Mounts[c]}

\* An inspect gives a container's networks by name.  Of listed networks that share
\* one, a single one is given the users: whichever sort.Slice put last.
Namesakes(env, n) == {m \in env.networks : NetName[m] = NetName[n]}
LinkedByName(env, n) == n = CHOOSE m \in Namesakes(env, n) : TRUE
NetworkUsers(env, n) ==
  {c \in env.containers \cap env.inspected :
     LinkedByName(env, n) /\ \E m \in env.joined[c] : NetName[m] = NetName[n]}

Dangling(env, i) == TagsIn(env, i) = {} /\ i \notin Digested

\* The first of the image's sorted tags, else its short ID.
DisplayName(env, i) ==
  IF TagsIn(env, i) = {} THEN NoTag ELSE CHOOSE t \in Tags : env.tag[t] = i

-----------------------------------------------------------------------------
(* Plan *)
RemovableContainer(env, o, c) ==
  /\ env.state[c] \in Stopped
  /\ ~TooRecent(env, o, <<"container", c>>)

\* The code keeps these and the users of a resource by container name, which is
\* as good as the ID: a daemon gives no two containers one name.
DoomedContainers(env, o) ==
  IF "containers" \notin Targets(o) THEN {}
  ELSE {c \in env.containers : RemovableContainer(env, o, c)}

\* Mutant: one doomed user is enough to call a resource unused.
UsedUnlessOneDoomed(users, doomed) == users # {} /\ users \cap doomed = {}

\* Mutant: a stopped user still counts, even one this cleanup removes.
UsedNow(users, doomed) == users # {}

UsedAfterCleanup(users, doomed) == \E c \in users : c \notin doomed

PlanContainers(env, o) ==
  {[kind |-> "container", id |-> c, name |-> NoTag] : c \in DoomedContainers(env, o)}

\* Removable: unused once the doomed containers are gone, and not too recent.
Spare(env, o, users, k) ==
  ~UsedAfterCleanup(users, DoomedContainers(env, o)) /\ ~TooRecent(env, o, k)

\* A dangling image goes with either image target, a named one with --images.
ImageGoes(env, o, i) ==
  /\ Spare(env, o, ImageUsers(env, i), <<"image", i>>)
  /\ "images" \in Targets(o) \/ (Dangling(env, i) /\ "dangling" \in Targets(o))

PlanImages(env, o) ==
  {[kind |-> "image", id |-> i, name |-> DisplayName(env, i)] :
     i \in {j \in env.images : ImageGoes(env, o, j)}}

NetworkGoes(env, o, n) ==
  /\ "networks" \in Targets(o) /\ n \notin Builtin
  /\ Spare(env, o, NetworkUsers(env, n), <<"network", n>>)

PlanNetworks(env, o) ==
  {[kind |-> "network", id |-> n, name |-> NoTag] :
     n \in {m \in env.networks : NetworkGoes(env, o, m)}}

\* Mutant: volumes are planned without looking at --keep-since.
VolumeGoesWhateverAge(env, o, v) ==
  /\ "volumes" \in Targets(o)
  /\ ~UsedAfterCleanup(VolumeUsers(env, v), DoomedContainers(env, o))

VolumeGoes(env, o, v) ==
  /\ "volumes" \in Targets(o)
  /\ Spare(env, o, VolumeUsers(env, v), <<"volume", v>>)

PlanVolumes(env, o) ==
  {[kind |-> "volume", id |-> v, name |-> NoTag] :
     v \in {w \in env.volumes : VolumeGoes(env, o, w)}}

Plan(env, o) ==
  PlanContainers(env, o) \cup PlanImages(env, o)
    \cup PlanNetworks(env, o) \cup PlanVolumes(env, o)

\* Every volume item carries the data-loss risk, and only volume items do.
HasDataLoss(items) == \E i \in items : i.kind = "volume"
============================================================================
