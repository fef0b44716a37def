------------------------------- MODULE Rules -------------------------------
(***************************************************************************)
(* The eighteen rules of internal/rules and the normalised container they  *)
(* judge (internal/docker.buildContainer, pkg/model).  Pure: every         *)
(* operator is a function of the environment the scan collected.           *)
(*                                                                         *)
(* A rule's ID is its number: DD004 is 4.  A finding keeps what tells two  *)
(* of them apart: the rule, the severity, the resource and, where a rule   *)
(* may report one resource several times, the mount or the port it is      *)
(* about.  Titles, descriptions, recommendations and details are left out. *)
(***************************************************************************)
EXTENDS CleanupPlan, Integers, SequencesExt

CONSTANTS
  Config,       \* [Containers -> ContainerConfig]: what list and inspect say of each
  ImageUser,    \* [Images -> STRING]: the USER an image sets, "" when it sets none
  Size,         \* [Images -> Nat], in the unit of the DD016 threshold
  TagWord,      \* [Tags -> STRING]: the tag TagOf extracts, "@" for a digest reference
  SocketNames   \* the names of files that end in docker.sock

\* A path is the sequence of its segments, <<>> being "/"; a capability is what
\* it names and how it was spelt; a port, one binding of the list response.
MountPoint == [type : {"bind", "volume", "npipe"}, source : Seq(STRING), dest : STRING,
               socket : BOOLEAN, readOnly : BOOLEAN]
Capability == [name : STRING, form : {"plain", "lower", "prefixed"}]
Binding == [private : Nat, public : Nat, proto : {"tcp", "udp"}, ip : STRING]

ContainerConfig == [
  user         : STRING,
  test         : {"", "CMD", "NONE", "none"},     \* first word of the healthcheck
  health       : {"", "none", "starting", "healthy", "unhealthy"},   \* "": no State.Health
  restartPolicy: {"", "no", "always", "unless-stopped", "on-failure"},
  restartCount : Nat,
  privileged   : BOOLEAN,
  networkMode  : {"", "default", "host"},
  caps         : SUBSET Capability,
  mounts       : SUBSET MountPoint,
  memoryLimit  : Nat,
  published    : SUBSET Binding]

\* A machine holds finitely many of everything, and the daemon keeps a container's
\* mounts by where the container sees them.
ASSUME RulesAssumption ==
  /\ IsFiniteSet(Ids)
  /\ Config \in [Containers -> ContainerConfig]
  /\ \A c \in Containers :
       /\ IsFiniteSet(Config[c].mounts) /\ IsFiniteSet(Config[c].published)
       /\ \A m, n \in Config[c].mounts : m.dest = n.dest => m = n
  /\ ImageUser \in [Images -> STRING]
  /\ Size \in [Images -> Nat]
  /\ TagWord \in [Tags -> STRING]

\* What a scan knows: the lists, and the containers whose user was asked of their
\* image and told (two containers of one image may be told differently).
ScanEnvironment == [
  containers : SUBSET Containers, state : [Containers -> Status],
  runsOn : [Containers -> Images], inspected : SUBSET Containers,
  joined : [Containers -> SUBSET Networks],
  images : SUBSET Images, tag : [Tags -> Images \cup {NoImage}],
  volumes : SUBSET Volumes, networks : SUBSET Networks, young : SUBSET Keys,
  userKnown : SUBSET Containers]

-----------------------------------------------------------------------------
(* The container record *)
Wildcards == {"", "0.0.0.0", "::", "[::]"}
IsPublicallyBound(p) == p.public # 0 /\ p.ip \in Wildcards

\* Mutant: an IPv6 wildcard is not recognised as the same binding.
PortKeyByIP(p) == <<p.private, p.public, p.proto, p.ip>>

\* Two bindings with the same key are one binding on a dual-stack host.
PortKey(p) == <<p.private, p.public, p.proto, IsPublicallyBound(p)>>

\* The address kept is an IPv4 one where there is a choice.
IPv6 == {"::", "[::]", "::1"}
ConvertPorts(ports) ==
  {CHOOSE p \in ports : PortKey(p) = k
      /\ (p.ip \in IPv6 => \A q \in ports : PortKey(q) = k => q.ip \in IPv6)
   : k \in {PortKey(p) : p \in ports}}

\* Case, surrounding space and the CAP_ prefix do not matter.
NormalizeCaps(caps) == {c.name : c \in caps} \ {""}

HasHealthcheck(test) == test \notin {"", "NONE", "none"}

\* The container's user, else the image's, else root; an image that cannot be
\* inspected counts as one that sets no user.
ResolveEffectiveUser(env, c) ==
  LET inherited == ImageUser[env.runsOn[c]]
  IN IF Config[c].user # "" THEN Config[c].user
     ELSE IF c \in env.userKnown /\ inherited # "" THEN inherited ELSE "root"

\* What is left of a container whose inspect failed: the list's own fields.
Uninspected == [
  user |-> "", test |-> "", health |-> "", restartPolicy |-> "", restartCount |-> 0,
  privileged |-> FALSE, networkMode |-> "", caps |-> {}, mounts |-> {}, memoryLimit |-> 0]

\* A State.Health, whatever its status, proves a healthcheck the config does not show.
BuildContainer(env, c) ==
  LET known == c \in env.inspected
      k == IF known THEN Config[c] ELSE Uninspected
  IN [id |-> c,
      state |-> env.state[c],
      word |-> TagWord[Ref[c]],
      ports |-> ConvertPorts(Config[c].published),
      effectiveUser |-> IF known THEN ResolveEffectiveUser(env, c) ELSE "",
      hasHealthcheck |-> HasHealthcheck(k.test) \/ k.health # "",
      health |-> k.health,
      restartPolicy |-> k.restartPolicy,
      restartCount |-> k.restartCount,
      privileged |-> k.privileged,
      networkMode |-> k.networkMode,
      caps |-> NormalizeCaps(k.caps),
      mounts |-> k.mounts,
      memoryLimit |-> k.memoryLimit]

\* uid 0 alone, with any group, or by name without one: not "root:root".
RunsAsRoot(b) == b.effectiveUser \in {"", "root", "0", "0:0", "0:1000"}
IsRunning(b) == b.state = "running"
IsUnhealthy(b) == b.health = "unhealthy"

-----------------------------------------------------------------------------
(* Sensitive paths *)
SensitiveHostPaths == {
  <<>>, <<"etc">>, <<"root">>, <<"boot">>, <<"dev">>, <<"proc">>, <<"sys">>,
  <<"var", "run">>, <<"run">>, <<"var", "lib", "docker">>, <<"usr">>, <<"bin">>,
  <<"sbin">>, <<"lib">>, <<"var", "lib", "kubelet">>, <<"etc", "kubernetes">>}

SensitiveHomeDirs == {
  <<".ssh">>, <<".aws">>, <<".kube">>, <<".docker">>, <<".gnupg">>,
  <<".config", "gcloud">>, <<".azure">>}

\* Docker Desktop puts a prefix before the path the user wrote.
NormalizeHostPath(p) ==
  LET prefixes == {q \in {<<"host_mnt">>, <<"run", "desktop", "mnt", "host">>} : IsPrefix(q, p)}
  IN IF prefixes = {} THEN p
     ELSE SubSeq(p, Len(CHOOSE q \in prefixes : TRUE) + 1, Len(p))

\* "/" is sensitive only as a whole, the others with all they contain, and a
\* credential directory wherever it is.
MatchSensitivePath(p) ==
  \/ p = <<>>
  \/ \E s \in SensitiveHostPaths \ {<<>>} : IsPrefix(s, p)
  \/ \E d \in SensitiveHomeDirs : \E k \in 0..(Len(p) - Len(d)) :
       SubSeq(p, k + 1, k + Len(d)) = d

\* By the host path or by where the container sees it, whatever the mount type.
IsDockerSocket(m) ==
  LET p == NormalizeHostPath(m.source)
  IN \/ m.socket                             \* the destination is one
     \/ p # <<>> /\ Last(p) \in SocketNames
     \/ p = <<"pipe", "docker_engine">>       \* the named pipe of Windows

-----------------------------------------------------------------------------
(* Findings *)
Severities == <<"INFO", "LOW", "MEDIUM", "HIGH", "CRITICAL">>
Ranks == [INFO |-> 0, LOW |-> 1, MEDIUM |-> 2, HIGH |-> 3, CRITICAL |-> 4]
Rank(s) == Ranks[s]

\* What each rule says of itself, in the order of the IDs.
Entry(severity, category) == [severity |-> severity, category |-> category]
Registry == <<
  Entry("HIGH", "SECURITY"), Entry("CRITICAL", "SECURITY"), Entry("MEDIUM", "SECURITY"),
  Entry("HIGH", "SECURITY"), Entry("CRITICAL", "SECURITY"), Entry("MEDIUM", "SECURITY"),
  Entry("LOW", "CONFIGURATION"), Entry("INFO", "CONFIGURATION"), Entry("HIGH", "SECURITY"),
  Entry("LOW", "RESOURCE"), Entry("INFO", "CONFIGURATION"), Entry("MEDIUM", "PERFORMANCE"),
  Entry("MEDIUM", "PERFORMANCE"), Entry("LOW", "CLEANUP"), Entry("INFO", "CLEANUP"),
  Entry("LOW", "RESOURCE"), Entry("INFO", "CLEANUP"), Entry("INFO", "CLEANUP")>>
AllRules == DOMAIN Registry
Categories == {Registry[r].category : r \in AllRules}

NewFinding(r, kind, id) ==
  [rule |-> r, severity |-> Registry[r].severity, kind |-> kind, resource |-> id,
   dest |-> "", port |-> <<0, 0, "", "">>]

Built(env) == {BuildContainer(env, c) : c \in env.containers}

\* One finding of rule r for each of these containers.
OnContainers(r, these) == {NewFinding(r, "container", b.id) : b \in these}

-----------------------------------------------------------------------------
(* Security rules *)
RootUser(env) == OnContainers(1, {b \in Built(env) : RunsAsRoot(b)})
PrivilegedContainer(env) == OnContainers(2, {b \in Built(env) : b.privileged})
HostNetwork(env) == OnContainers(3, {b \in Built(env) : b.networkMode = "host"})

\* The socket has a rule of its own.
SensitiveMount(m) ==
  /\ m.type = "bind" /\ ~IsDockerSocket(m)
  /\ MatchSensitivePath(NormalizeHostPath(m.source))

\* The host's root, writable, is worse than a sensitive directory.
SensitiveHostMount(env) ==
  UNION {{[NewFinding(4, "container", c) EXCEPT
             !.dest = m.dest,
             !.severity = IF NormalizeHostPath(m.source) = <<>> /\ ~m.readOnly
                          THEN "CRITICAL" ELSE @] :
            m \in {n \in BuildContainer(env, c).mounts : SensitiveMount(n)}} : c \in env.containers}

DockerSocketMount(env) ==
  UNION {{[NewFinding(5, "container", c) EXCEPT !.dest = m.dest] :
            m \in {n \in BuildContainer(env, c).mounts : IsDockerSocket(n)}} : c \in env.containers}

SensitivePorts == {
  22, 23, 25, 445, 1433, 1521, 2181, 2375, 2376, 3306, 3389, 4444, 5432, 5672, 5900,
  5984, 6379, 6443, 7001, 8086, 9042, 9092, 9200, 9300, 10250, 11211, 15672, 27017, 27018}

\* The Docker API on every interface is worse than a database there.
ExposedSensitivePort(env) ==
  UNION {{[NewFinding(6, "container", c) EXCEPT
             !.port = <<p.private, p.public, p.proto, p.ip>>,
             !.severity = IF p.private \in {2375, 2376} THEN "CRITICAL" ELSE @] :
            p \in {q \in BuildContainer(env, c).ports :
                     IsPublicallyBound(q) /\ q.private \in SensitivePorts}} : c \in env.containers}

CriticalCapabilities == {"ALL", "SYS_ADMIN", "SYS_MODULE", "SYS_RAWIO"}
DangerousCaps == CriticalCapabilities \cup
  {"SYS_PTRACE", "DAC_READ_SEARCH", "BPF", "PERFMON", "NET_ADMIN", "SYS_BOOT", "SYS_TIME"}

\* One finding for all of them; a privileged container has every one and a
\* finding already.
DangerousCapabilities(env) ==
  {[f EXCEPT !.severity =
      IF BuildContainer(env, f.resource).caps \cap CriticalCapabilities # {} THEN "CRITICAL" ELSE @] :
     f \in OnContainers(9, {b \in Built(env) : ~b.privileged /\ b.caps \cap DangerousCaps # {}})}

-----------------------------------------------------------------------------
(* Container rules *)
MissingHealthcheck(env) == OnContainers(7, {b \in Built(env) : ~b.hasHealthcheck})
MissingRestartPolicy(env) == OnContainers(8, {b \in Built(env) : b.restartPolicy \in {"", "no"}})
NoMemoryLimit(env) ==
  OnContainers(10, {b \in Built(env) : b.state \in {"running", "restarting"} /\ b.memoryLimit = 0})

\* No tag at all means latest; a digest is immutable.
IsMutableTag(word) ==
  word \in {"", "latest", "main", "master", "edge", "stable", "dev", "nightly"}
MutableImageTag(env) == OnContainers(11, {b \in Built(env) : IsMutableTag(b.word)})

UnhealthyContainer(env) == OnContainers(12, {b \in Built(env) : IsRunning(b) /\ IsUnhealthy(b)})
RestartLoop(env, opt) ==
  OnContainers(13, {b \in Built(env) : b.restartCount >= opt.restart \/ b.state = "restarting"})

(* Image, volume and network rules, over the linked environment *)
Unused(env, i) == ImageUsers(env, i) = {}

DanglingImage(env) ==
  {NewFinding(14, "image", i) : i \in {j \in env.images : Dangling(env, j) /\ Unused(env, j)}}

UnusedImage(env) ==
  {NewFinding(15, "image", i) : i \in {j \in env.images : Unused(env, j) /\ ~Dangling(env, j)}}

OversizedImage(env, opt) ==
  {NewFinding(16, "image", i) : i \in {j \in env.images : Size[j] >= opt.large}}

UnusedVolume(env) ==
  {NewFinding(17, "volume", v) : v \in {w \in env.volumes : VolumeUsers(env, w) = {}}}

\* Mutant: the predefined networks are reported as well.
UnusedNetworkOrBuiltin(env) ==
  {NewFinding(18, "network", n) : n \in {m \in env.networks : NetworkUsers(env, m) = {}}}

UnusedNetwork(env) ==
  {NewFinding(18, "network", n) :
     n \in {m \in env.networks \ Builtin : NetworkUsers(env, m) = {}}}

-----------------------------------------------------------------------------
\* A threshold that is not set takes its default.
DefaultOptions == [large |-> 1500, restart |-> 5]
NormalizeOptions(o) ==
  [x \in DOMAIN o |-> IF o[x] <= 0 THEN DefaultOptions[x] ELSE o[x]]

Check(env, opt, r) ==
  CASE r = 1  -> RootUser(env)           [] r = 2  -> PrivilegedContainer(env)
    [] r = 3  -> HostNetwork(env)        [] r = 4  -> SensitiveHostMount(env)
    [] r = 5  -> DockerSocketMount(env)  [] r = 6  -> ExposedSensitivePort(env)
    [] r = 7  -> MissingHealthcheck(env) [] r = 8  -> MissingRestartPolicy(env)
    [] r = 9  -> DangerousCapabilities(env) [] r = 10 -> NoMemoryLimit(env)
    [] r = 11 -> MutableImageTag(env)    [] r = 12 -> UnhealthyContainer(env)
    [] r = 13 -> RestartLoop(env, opt)   [] r = 14 -> DanglingImage(env)
    [] r = 15 -> UnusedImage(env)        [] r = 16 -> OversizedImage(env, opt)
    [] r = 17 -> UnusedVolume(env)       [] r = 18 -> UnusedNetwork(env)
=============================================================================
