----------------------------- MODULE CleanupRun -----------------------------
(***************************************************************************)
(* One run of `doctordock cleanup' against a daemon other users are also   *)
(* using: internal/cli.runCleanup, scanner.Collect, cleanup.Apply and the  *)
(* engine client's Remove* calls.                                          *)
(*                                                                         *)
(*   collecting -> prompt -> applying -> done                              *)
(*                                                                         *)
(* and from any of them to done (an error, a refusal, a dry run) or to     *)
(* killed.  The deadline of --timeout and SIGINT share one context, which  *)
(* may end at any moment: the next call then fails, and the one that is    *)
(* out may be given up, though the daemon can still carry it out, even     *)
(* after the process is gone.                                              *)
(***************************************************************************)
EXTENDS CleanupPlan

CONSTANTS
  CommandLines,   \* the command lines to consider, a subset of CommandLine
  Faults          \* what may go wrong around the run, a subset of FaultKinds

\* A list call or the connection fails; an inspect fails; the connection breaks
\* under a removal; writing to stdout fails; the process is killed; the context
\* ends.
FaultKinds == {"list", "inspect", "answer", "output", "kill", "cancel"}

ASSUME RunAssumption ==
  /\ CommandLines \subseteq CommandLine
  /\ Faults \subseteq FaultKinds

VARIABLES
  o,          \* the command line
  pc,         \* where the run is
  listed,     \* lists that have returned
  env,        \* what they said
  plan,       \* the items
  shown,      \* the preview has been printed
  approval,   \* "none", "flag" (--yes), "y" or "delete"
  ctxDone,    \* the context has ended
  out,        \* the item whose removal call has not returned, if any
  requests,   \* items whose removal the daemon has yet to deal with
  carried,    \* items whose removal the daemon has carried out
  removed,    \* items marked Removed
  failed,     \* items marked with an Error
  exit,       \* exit code, "none" while the process runs
  deleted,    \* history: keys the run's own calls made the daemon drop
  doubt,      \* history: items whose removal call ended without the daemon's answer
  begun       \* history: items settled or called for when the context ended

calls == <<out, requests, carried>>
marks == <<removed, failed>>
runVars == <<o, pc, listed, env, plan, shown, approval, ctxDone, calls, marks, exit>>
history == <<deleted, doubt, begun>>
vars == <<dockerVars, young, budget, runVars, history>>

Lists == {"containers", "images", "volumes", "networks"}
Ended == {"done", "killed"}
EmptyEnvironment == [
  containers |-> {}, state |-> [c \in Containers |-> "future"], runsOn |-> runsOn,
  asked |-> {}, inspected |-> {}, joined |-> joined, images |-> {}, tag |-> [t \in Tags |-> NoImage],
  volumes |-> {}, networks |-> {}, young |-> {}]

TypeOK ==
  /\ DockerTypeOK
  /\ o \in CommandLines
  /\ pc \in {"collecting", "prompt", "applying"} \cup Ended
  /\ listed \subseteq Lists
  /\ env \in Environment
  /\ plan \subseteq Item
  /\ shown \in BOOLEAN
  /\ approval \in {"none", "flag", "y", "delete"}
  /\ ctxDone \in BOOLEAN
  /\ removed \subseteq plan
  /\ failed \subseteq plan \ removed
  /\ out \subseteq plan \ (removed \cup failed)
  /\ requests \subseteq out \cup doubt
  /\ carried \subseteq (removed \cup out \cup doubt) \ requests
  /\ exit \in {"none", "ok", "warning", "error"}
  /\ deleted \subseteq Keys
  /\ doubt \subseteq failed
  /\ begun \subseteq plan

Init ==
  /\ DockerInit
  /\ o \in CommandLines
  /\ pc = "collecting" /\ listed = {} /\ env = EmptyEnvironment
  /\ plan = {} /\ shown = FALSE /\ approval = "none" /\ ctxDone = FALSE
  /\ out = {} /\ requests = {} /\ carried = {}
  /\ removed = {} /\ failed = {} /\ exit = "none"
  /\ deleted = {} /\ doubt = {} /\ begun = {}

Exit(code) == pc' = "done" /\ exit' = code

-----------------------------------------------------------------------------
(***************************************************************************)
(* Collect: the lists run concurrently, each at an instant of its own.     *)
(***************************************************************************)
\* A call has returned e; what it says of recent creation is as of now.
Collects(e, kind) ==
  /\ pc = "collecting"
  /\ env' = [e EXCEPT !.young = @ \cup {k \in young : k[1] = kind}]
  /\ UNCHANGED <<dockerVars, young, budget, o, pc, plan, shown, approval, ctxDone, calls,
                 marks, exit, history>>

Returns(list, kind, e) ==
  /\ ~ctxDone /\ list \notin listed
  /\ listed' = listed \cup {list}
  /\ Collects(e, kind)

ListContainers ==
  Returns("containers", "container",
    [env EXCEPT !.containers = {c \in Containers : Live(c)}, !.state = ctr, !.runsOn = runsOn])

\* One inspect per listed container, after the list.  A failure (the container
\* is gone, the context has ended, any error) leaves a partial record behind
\* and is not an error of the collection.
InspectContainer(c) ==
  /\ c \in env.containers \ env.asked
  /\ \/ /\ Live(c) /\ ~ctxDone
        /\ Collects([env EXCEPT !.asked = @ \cup {c}, !.inspected = @ \cup {c},
                              !.joined[c] = joined[c]], "none")
     \/ /\ ~Live(c) \/ ctxDone \/ "inspect" \in Faults
        /\ Collects([env EXCEPT !.asked = @ \cup {c}], "none")
  /\ UNCHANGED listed

ListImages == Returns("images", "image", [env EXCEPT !.images = img, !.tag = tag])
ListVolumes == Returns("volumes", "volume", [env EXCEPT !.volumes = vol])
ListNetworks == Returns("networks", "network", [env EXCEPT !.networks = net])

Collected == listed = Lists /\ env.asked = env.containers

\* Connect, Info or a list returned an error: the run ends before planning.
CollectFails ==
  /\ pc = "collecting"
  /\ "list" \in Faults \/ (ctxDone /\ listed # Lists)
  /\ Exit("error")
  /\ UNCHANGED <<dockerVars, young, budget, o, listed, env, plan, shown, approval,
                 ctxDone, calls, marks, history>>

-----------------------------------------------------------------------------
(***************************************************************************)
(* Everything from Plan to the question, which is local to the process.    *)
(***************************************************************************)
DryRun(items) == ~o.apply \/ items = {}

Decide ==
  /\ pc = "collecting" /\ Collected
  /\ LET items == Plan(env, o)
     IN \/ /\ o.format = "bad"
           /\ Exit("error")
           /\ UNCHANGED <<plan, shown, approval>>
        \/ /\ o.format # "bad" /\ DryRun(items)
           /\ plan' = items
           /\ \/ Exit("ok") /\ shown' = TRUE
              \/ "output" \in Faults /\ Exit("error") /\ shown' = FALSE
           /\ UNCHANGED approval
        \/ /\ o.format # "bad" /\ ~DryRun(items)
           /\ plan' = items
           /\ \/ /\ "output" \in Faults /\ o.format # "json"
                 /\ Exit("error")
                 /\ UNCHANGED <<shown, approval>>
              \/ /\ shown' = (o.format # "json")
                 /\ \/ o.yes /\ pc' = "applying" /\ approval' = "flag" /\ UNCHANGED exit
                    \/ ~o.yes /\ o.tty /\ pc' = "prompt" /\ UNCHANGED <<approval, exit>>
                    \/ ~o.yes /\ ~o.tty /\ Exit("error") /\ UNCHANGED approval
  /\ UNCHANGED <<dockerVars, young, budget, o, listed, env, ctxDone, calls, marks, history>>

Accepted(items, word) == word = (IF HasDataLoss(items) THEN "delete" ELSE "y")

\* The answer is read from the terminal whatever became of the context; no
\* input at all counts as a no.
Answer(word) ==
  /\ pc = "prompt"
  /\ \/ /\ Accepted(plan, word)
        /\ pc' = "applying" /\ approval' = word /\ UNCHANGED exit
     \/ /\ ~Accepted(plan, word)
        /\ Exit("ok") /\ UNCHANGED approval
  /\ UNCHANGED <<dockerVars, young, budget, o, listed, env, plan, shown, ctxDone,
                 calls, marks, history>>

-----------------------------------------------------------------------------
(***************************************************************************)
(* Apply: kind by kind, every item settled, none retried.                  *)
(***************************************************************************)
Unsettled == plan \ (removed \cup failed)

Order == [container |-> 1, image |-> 2, network |-> 3, volume |-> 4]

\* i is of the first kind that still has items to settle.
Turn(i) == \A j \in Unsettled : Order[i.kind] <= Order[j.kind]

\* Mutant: docker rm -f.
RemoveContainerByForce(c) == ~RefusesContainer(c, TRUE) /\ ContainerRemove(c, FALSE)

\* Mutant: docker rm -v.
RemoveContainerAndVolumes(c) == ~RefusesContainer(c, FALSE) /\ ContainerRemove(c, TRUE)

RemoveContainer(c) == ~RefusesContainer(c, FALSE) /\ ContainerRemove(c, FALSE)

\* imageRef keeps the displayed tag alone; an image without one goes by its ID.
RemoveImage(i) ==
  \/ i.name # NoTag /\ ~RefusesTag(i.name) /\ ImageRemoveTag(i.name)
  \/ i.name = NoTag /\ ~RefusesImageID(i.id) /\ ImageRemoveID(i.id)

RemoveVolume(v) == ~RefusesVolume(v) /\ VolumeRemove(v)
RemoveNetwork(n) == ~RefusesNetwork(n) /\ NetworkRemove(n)

\* The daemon carries the removal out.
Removes(i) ==
  \/ i.kind = "container" /\ RemoveContainer(i.id)
  \/ i.kind = "image" /\ RemoveImage(i)
  \/ i.kind = "network" /\ RemoveNetwork(i.id)
  \/ i.kind = "volume" /\ RemoveVolume(i.id)

Refuses(i) ==
  \/ i.kind = "container" /\ RefusesContainer(i.id, FALSE)
  \/ i.kind = "image" /\ IF i.name = NoTag THEN RefusesImageID(i.id) ELSE RefusesTag(i.name)
  \/ i.kind = "network" /\ RefusesNetwork(i.id)
  \/ i.kind = "volume" /\ RefusesVolume(i.id)

\* Mutant: a missing `continue' falls through from Error to Removed = true.
SettleBoth(i) == failed' = failed \cup {i} /\ removed' = removed \cup {i} /\ UNCHANGED doubt

\* Mutant: success and error are swapped.
SettleSwapped(i) == failed' = failed \cup {i} /\ UNCHANGED <<removed, doubt>>

SettleRemoved(i) == removed' = removed \cup {i} /\ UNCHANGED <<failed, doubt>>
SettleFailed(i) == failed' = failed \cup {i} /\ UNCHANGED <<removed, doubt>>

\* Mutant: the context is not looked at between items.
SendBlindly(i) ==
  /\ pc = "applying" /\ out = {} /\ i \in Unsettled /\ Turn(i)
  /\ out' = {i} /\ requests' = requests \cup {i} /\ UNCHANGED <<marks, doubt>>
  /\ UNCHANGED <<dockerVars, young, budget, o, pc, listed, env, plan, shown, approval, ctxDone,
                 carried, exit, deleted, begun>>

\* The context is looked at, then the daemon is asked.
Send(i) ==
  /\ pc = "applying" /\ out = {} /\ i \in Unsettled /\ Turn(i)
  /\ \/ ctxDone /\ SettleFailed(i) /\ UNCHANGED <<out, requests>>
     \/ ~ctxDone /\ out' = {i} /\ requests' = requests \cup {i} /\ UNCHANGED <<marks, doubt>>
  /\ UNCHANGED <<dockerVars, young, budget, o, pc, listed, env, plan, shown, approval, ctxDone,
                 carried, exit, deleted, begun>>

\* The call returns with what the daemon answered.
Answered(i) ==
  /\ pc = "applying" /\ i \in out \ requests
  /\ IF i \in carried THEN SettleRemoved(i) ELSE SettleFailed(i)
  /\ out' = {}
  /\ UNCHANGED <<dockerVars, young, budget, o, pc, listed, env, plan, shown, approval, ctxDone,
                 requests, carried, exit, deleted, begun>>

\* The call returns without an answer, whatever has become of the request: the
\* connection breaks, or the context has ended while the call was out.
GiveUp(i) ==
  /\ pc = "applying" /\ i \in out /\ (ctxDone \/ "answer" \in Faults)
  /\ out' = {} /\ failed' = failed \cup {i} /\ doubt' = doubt \cup {i}
  /\ UNCHANGED <<dockerVars, young, budget, o, pc, listed, env, plan, shown, approval, ctxDone,
                 requests, carried, removed, exit, deleted, begun>>

(***************************************************************************)
(* The daemon deals with what it is sent in its own time: also after the   *)
(* client has given up, and after the process has ended.                   *)
(***************************************************************************)
CarriesOut(i) ==
  /\ i \in requests /\ Removes(i)
  /\ requests' = requests \ {i} /\ carried' = carried \cup {i}
  /\ deleted' = deleted \cup (Present \ Present')
  /\ UNCHANGED <<young, budget, o, pc, listed, env, plan, shown, approval, ctxDone, out, marks,
                 exit, doubt, begun>>

\* It is refused; or, nobody waiting any more, it never arrived.
ComesToNothing(i) ==
  /\ i \in requests /\ (Refuses(i) \/ i \in doubt \/ pc = "killed")
  /\ requests' = requests \ {i}
  /\ UNCHANGED <<dockerVars, young, budget, o, pc, listed, env, plan, shown, approval, ctxDone,
                 out, carried, marks, exit, history>>

\* Mutant: the run waits for every item to be removed.
FinishWhenAllRemoved ==
  /\ pc = "applying" /\ removed = plan
  /\ Exit("ok")
  /\ UNCHANGED <<dockerVars, young, budget, o, listed, env, plan, shown, approval,
                 ctxDone, calls, marks, history>>

\* Mutant: a partial failure still exits 0.
FinishQuietly ==
  /\ pc = "applying" /\ Unsettled = {}
  /\ Exit("ok")
  /\ UNCHANGED <<dockerVars, young, budget, o, listed, env, plan, shown, approval,
                 ctxDone, calls, marks, history>>

\* The annotated plan is printed, then the exit code follows from its summary.
Finish ==
  /\ pc = "applying" /\ Unsettled = {}
  /\ \/ Exit(IF failed # {} THEN "warning" ELSE "ok")
     \/ "output" \in Faults /\ Exit("error")
  /\ UNCHANGED <<dockerVars, young, budget, o, listed, env, plan, shown, approval,
                 ctxDone, calls, marks, history>>

-----------------------------------------------------------------------------
Running == pc \notin Ended

\* The deadline of --timeout passes, or SIGINT or SIGTERM arrives.
Cancel ==
  /\ Running /\ "cancel" \in Faults /\ ~ctxDone
  /\ ctxDone' = TRUE
  /\ begun' = removed \cup failed \cup out
  /\ UNCHANGED <<dockerVars, young, budget, o, pc, listed, env, plan, shown, approval,
                 calls, marks, exit, deleted, doubt>>

Kill ==
  /\ Running /\ "kill" \in Faults
  /\ pc' = "killed"
  /\ UNCHANGED <<dockerVars, young, budget, o, listed, env, plan, shown, approval,
                 ctxDone, calls, marks, exit, history>>

\* What they do matters as long as something of the run may still act.
Others == (Running \/ requests # {}) /\ UserStep /\ UNCHANGED <<runVars, history>>

Terminated == ~Running /\ requests = {} /\ UNCHANGED vars

Collect ==
  \/ ListContainers \/ ListImages \/ ListVolumes \/ ListNetworks
  \/ \E c \in Containers : InspectContainer(c)

Apply == \E i \in plan : Send(i) \/ Answered(i) \/ GiveUp(i)
Deal == \E i \in plan : CarriesOut(i) \/ ComesToNothing(i)

Next ==
  \/ Collect \/ CollectFails \/ Decide
  \/ \E word \in {"y", "delete", "no"} : Answer(word)
  \/ Apply \/ Deal \/ Finish
  \/ Cancel \/ Kill \/ Others
  \/ Terminated

\* The process runs on and the daemon deals with what it is sent; nobody has to
\* answer the prompt.
Fairness == WF_vars(Collect \/ CollectFails \/ Decide \/ Apply \/ Deal \/ Finish)

Spec == Init /\ [][Next]_vars
FairSpec == Spec /\ Fairness
============================================================================
