------------------------------- MODULE Docker -------------------------------
(***************************************************************************)
(* The Docker daemon and the people and programs using it, as DoctorDock   *)
(* meets them.  None of this code is in the repository: it is modelled     *)
(* from how internal/docker calls the Engine API and from the refusals its *)
(* comments rely on ("Force would kill a container that started running",  *)
(* "if a container claimed the volume ... the daemon must refuse", "the    *)
(* daemon refuses with `image is referenced in multiple repositories'").   *)
(*                                                                         *)
(* Container, image and network IDs are never reused; a volume's ID is its *)
(* name, which can be.                                                     *)
(***************************************************************************)
EXTENDS Naturals, FiniteSets

CONSTANTS
  Containers,     \* container IDs
  Images,         \* image IDs
  Tags,           \* image references, e.g. app:latest
  Volumes,        \* volume names
  Networks,       \* network IDs
  NetName,        \* [Networks -> their names]: two networks may share one
  Builtin,        \* those of bridge, host, none and ingress
  NoImage,        \* what an unassigned tag points to
  NoTag,          \* the name of an image without tags
  Ref,            \* [Containers -> Tags]: the reference a container was run from
  Mounts,         \* [Containers -> SUBSET Volumes]
  Attached,       \* [Containers -> SUBSET Networks]: those a container is created with
  Anonymous,      \* volumes made implicitly for a container
  Digested,       \* images holding a repository digest
  MaxUserSteps    \* bound on what other users do during one run

Ids == Containers \cup Images \cup Volumes \cup Networks
Kinds == {"container", "image", "network", "volume"}
Keys == Kinds \X Ids

Stopped == {"exited", "created", "dead"}
Active == {"running", "restarting", "paused"}
Status == Stopped \cup Active \cup {"removing", "future", "gone"}

ASSUME DockerAssumption ==
  /\ NoImage \notin Images
  /\ NoTag \notin Tags
  /\ Ref \in [Containers -> Tags]
  /\ Mounts \in [Containers -> SUBSET Volumes]
  /\ Attached \in [Containers -> SUBSET Networks]
  /\ Anonymous \subseteq Volumes
  /\ Digested \subseteq Images
  /\ Builtin \subseteq Networks
  /\ MaxUserSteps \in Nat

VARIABLES
  ctr,      \* [Containers -> Status]
  joined,   \* [Containers -> SUBSET Networks]: the networks in a container's settings
  runsOn,   \* [Containers -> Images]: the image ID a container was started from
  tag,      \* [Tags -> Images \cup {NoImage}]
  img,      \* images the daemon holds
  vol,      \* volumes the daemon holds
  net,      \* networks the daemon holds
  young,    \* keys created inside the --keep-since window
  budget    \* steps the other users may still take

dockerVars == <<ctr, joined, runsOn, tag, img, vol, net>>

Live(c) == ctr[c] \notin {"future", "gone"}
TagsOf(i) == {t \in Tags : tag[t] = i}
Users(i) == {c \in Containers : Live(c) /\ runsOn[c] = i}

\* Everything the daemon holds, by kind and identifier.
Present ==
  {<<"container", c>> : c \in {d \in Containers : Live(d)}}
    \cup {<<"image", i>> : i \in img}
    \cup {<<"volume", v>> : v \in vol}
    \cup {<<"network", n>> : n \in net}

DockerTypeOK ==
  /\ ctr \in [Containers -> Status]
  /\ joined \in [Containers -> SUBSET Networks]
  /\ runsOn \in [Containers -> Images]
  /\ tag \in [Tags -> Images \cup {NoImage}]
  /\ img \subseteq Images
  /\ vol \subseteq Volumes
  /\ net \subseteq Networks
  /\ young \subseteq Keys
  /\ budget \in 0..MaxUserSteps

\* Tags and containers hold their image, containers hold their volumes, and a
\* running container holds its networks (a stopped one does not).
Coherent ==
  /\ \A t \in Tags : tag[t] \in img \cup {NoImage}
  /\ \A c \in Containers :
       /\ Live(c) => runsOn[c] \in img /\ Mounts[c] \subseteq vol
       /\ ctr[c] \in Active => joined[c] \subseteq net

DockerInit ==
  /\ ctr \in [Containers -> Status \ {"gone"}]
  /\ joined \in [Containers -> SUBSET Networks]
  /\ runsOn \in [Containers -> Images]
  /\ tag \in [Tags -> Images \cup {NoImage}]
  /\ img \in SUBSET Images
  /\ vol \in SUBSET Volumes
  /\ net \in SUBSET Networks
  /\ young \in SUBSET Keys
  /\ budget = MaxUserSteps
  /\ Coherent

-----------------------------------------------------------------------------
(***************************************************************************)
(* What the removal calls do.  Refuses* is the daemon's error; the action  *)
(* of the same call is its effect when it does not refuse.                 *)
(***************************************************************************)
RefusesContainer(c, force) ==
  ctr[c] \notin Stopped \cup (IF force THEN Active ELSE {})

ContainerRemove(c, removeVolumes) ==
  /\ ctr' = [ctr EXCEPT ![c] = "gone"]
  /\ vol' = IF removeVolumes
            THEN {v \in vol : \/ v \notin Mounts[c] \cap Anonymous
                              \/ \E d \in Containers \ {c} : Live(d) /\ v \in Mounts[d]}
            ELSE vol
  /\ UNCHANGED <<joined, runsOn, tag, img, net>>

\* By reference: the last tag of an image a container uses is not given up.
RefusesTag(t) ==
  \/ tag[t] = NoImage
  \/ TagsOf(tag[t]) = {t} /\ Users(tag[t]) # {}

\* The tag goes; the image follows when that was its last one.
ImageRemoveTag(t) ==
  /\ tag' = [tag EXCEPT ![t] = NoImage]
  /\ img' = IF TagsOf(tag[t]) = {t} THEN img \ {tag[t]} ELSE img
  /\ UNCHANGED <<ctr, joined, runsOn, vol, net>>

\* By ID: refused while a container uses the image or several tags name it.
RefusesImageID(i) ==
  \/ i \notin img
  \/ Users(i) # {}
  \/ Cardinality(TagsOf(i)) > 1

ImageRemoveID(i) ==
  /\ tag' = [t \in Tags |-> IF tag[t] = i THEN NoImage ELSE tag[t]]
  /\ img' = img \ {i}
  /\ UNCHANGED <<ctr, joined, runsOn, vol, net>>

RefusesVolume(v) ==
  \/ v \notin vol
  \/ \E c \in Containers : Live(c) /\ v \in Mounts[c]

VolumeRemove(v) ==
  /\ vol' = vol \ {v}
  /\ UNCHANGED <<ctr, joined, runsOn, tag, img, net>>

\* Only a running container has an endpoint that blocks the removal.
RefusesNetwork(n) ==
  \/ n \notin net \ Builtin
  \/ \E c \in Containers : ctr[c] \in Active /\ n \in joined[c]

NetworkRemove(n) ==
  /\ net' = net \ {n}
  /\ UNCHANGED <<ctr, joined, runsOn, tag, img, vol>>

-----------------------------------------------------------------------------
(***************************************************************************)
(* The other users: shells, compose, CI builds.  Each step spends budget.  *)
(***************************************************************************)
Spend == budget > 0 /\ budget' = budget - 1

\* docker create: resolves the reference, makes the missing volumes.
UserCreate(c) ==
  /\ Spend
  /\ ctr[c] = "future" /\ tag[Ref[c]] # NoImage
  /\ ctr' = [ctr EXCEPT ![c] = "created"]
  /\ joined' = [joined EXCEPT ![c] = Attached[c]]
  /\ runsOn' = [runsOn EXCEPT ![c] = tag[Ref[c]]]
  /\ vol' = vol \cup Mounts[c]
  /\ young' = young \cup {<<"container", c>>} \cup {<<"volume", v>> : v \in Mounts[c] \ vol}
  /\ UNCHANGED <<tag, img, net>>

UserStart(c) ==
  /\ Spend
  /\ ctr[c] \in {"created", "exited"} /\ joined[c] \subseteq net
  /\ ctr' = [ctr EXCEPT ![c] = "running"]
  /\ UNCHANGED <<joined, runsOn, tag, img, vol, net, young>>

UserStop(c) ==
  /\ Spend
  /\ ctr[c] = "running"
  /\ ctr' = [ctr EXCEPT ![c] = "exited"]
  /\ UNCHANGED <<joined, runsOn, tag, img, vol, net, young>>

UserRemove(c) ==
  /\ Spend
  /\ ctr[c] \in Stopped
  /\ ctr' = [ctr EXCEPT ![c] = "gone"]
  /\ UNCHANGED <<joined, runsOn, tag, img, vol, net, young>>

\* docker build -t or docker tag: the tag moves to an image, perhaps a new one.
UserTag(t, i) ==
  /\ Spend
  /\ tag[t] # i
  /\ tag' = [tag EXCEPT ![t] = i]
  /\ img' = img \cup {i}
  /\ young' = IF i \in img THEN young ELSE young \cup {<<"image", i>>}
  /\ UNCHANGED <<ctr, joined, runsOn, vol, net>>

\* A volume is dropped, or a fresh one takes the name.
UserVolume(v) ==
  /\ Spend
  /\ ~\E c \in Containers : Live(c) /\ v \in Mounts[c]
  /\ \/ v \in vol /\ vol' = vol \ {v} /\ young' = young
     \/ v \notin vol /\ vol' = vol \cup {v} /\ young' = young \cup {<<"volume", v>>}
  /\ UNCHANGED <<ctr, joined, runsOn, tag, img, net>>

UserDropNetwork(n) ==
  /\ Spend
  /\ ~RefusesNetwork(n)
  /\ NetworkRemove(n)
  /\ UNCHANGED young

\* docker network connect, disconnect: of a container that is up or down.
UserConnect(c, n) ==
  /\ Spend
  /\ ctr[c] \in {"created", "exited"} \cup Active /\ n \in net \ joined[c]
  /\ joined' = [joined EXCEPT ![c] = @ \cup {n}]
  /\ UNCHANGED <<ctr, runsOn, tag, img, vol, net, young>>

UserDisconnect(c, n) ==
  /\ Spend
  /\ ctr[c] \in {"created", "exited"} \cup Active /\ n \in joined[c]
  /\ joined' = [joined EXCEPT ![c] = @ \ {n}]
  /\ UNCHANGED <<ctr, runsOn, tag, img, vol, net, young>>

UserStep ==
  \/ \E c \in Containers :
       UserCreate(c) \/ UserStart(c) \/ UserStop(c) \/ UserRemove(c)
  \/ \E t \in Tags, i \in Images : UserTag(t, i)
  \/ \E v \in Volumes : UserVolume(v)
  \/ \E n \in Networks : UserDropNetwork(n)
  \/ \E c \in Containers, n \in Networks : UserConnect(c, n) \/ UserDisconnect(c, n)
============================================================================
