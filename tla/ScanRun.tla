------------------------------ MODULE ScanRun ------------------------------
(***************************************************************************)
(* One run of `doctordock scan', `security', `report' or a resource        *)
(* command: the config file and the flags, the connection, the five        *)
(* concurrent calls of scanner.Collect against a daemon other users are    *)
(* also using, the rules, the rendering and the exit code.                 *)
(*                                                                         *)
(*   start -> flags -> connecting -> collecting -> evaluating              *)
(*         -> rendering -> done                                            *)
(*                                                                         *)
(* and from any of them to done with exit code 10.                         *)
(***************************************************************************)
EXTENDS ScanReport

CONSTANTS
  Invocations,   \* the command lines and config files to consider
  Faults         \* what may go wrong, a subset of FaultKinds

\* A call to the daemon fails; an inspect fails; writing the report fails; the
\* --timeout passes or a signal arrives.
FaultKinds == {"list", "inspect", "output", "cancel"}

\* A rule ID as somebody wrote it: which rule it names (0: none there is) and
\* how, "empty" being an empty string.
Word == [rule : 0..18, form : {"plain", "lower", "spaced", "empty"}]
FailWord == {"", "none", "unknown"} \cup ToSet(Severities)
File == [kind : {"absent", "broken", "read"}, ignore : SUBSET Word, failOn : FailWord,
         large : Int, restart : Int]
SearchPaths == <<"project", "project directory", "user", "home">>
ScanCommands == {"scan", "security"}
ResourceCommands == {"containers", "images", "volumes", "networks"}

Invocation == [
  command  : ScanCommands \cup ResourceCommands \cup {"report"},
  explicit : BOOLEAN,                                   \* --config is given
  files    : [ToSet(SearchPaths) \cup {"--config"} -> File],
  ignore   : SUBSET Word,
  only     : SUBSET Word,
  failOn   : FailWord,
  all      : BOOLEAN,
  format   : {"terminal", "json", "bad"}]

ASSUME ScanAssumption ==
  /\ Invocations \subseteq Invocation
  /\ Faults \subseteq FaultKinds

VARIABLES
  inv,        \* the invocation
  pc,
  cfg,        \* the configuration loaded
  answered,   \* calls that have returned
  errs,       \* those that returned an error
  env,        \* what the others said
  ctxDone,    \* the context has ended
  report,     \* <<>>, or <<the report>>
  printed,    \* the report has been written out
  exit,       \* exit code, -1 while the process runs
  steady,     \* history: containers there from before the run to now
  stayed      \* history: the networks each was joined to all that time

scanVars == <<inv, pc, cfg, answered, errs, env, ctxDone, report, printed, exit>>
history == <<steady, stayed>>
vars == <<dockerVars, young, budget, scanVars, history>>

Calls == {"info", "containers", "inspects", "images", "volumes", "networks"}
Stages == {"start", "flags", "connecting", "collecting", "evaluating", "rendering", "done"}
EmptyEnvironment == [
  containers |-> {}, state |-> [c \in Containers |-> "future"], runsOn |-> runsOn,
  inspected |-> {}, joined |-> joined, images |-> {}, tag |-> [t \in Tags |-> NoImage],
  volumes |-> {}, networks |-> {}, young |-> {}, userKnown |-> {}]
DefaultFile == [kind |-> "read", ignore |-> {}, failOn |-> "", large |-> 0, restart |-> 0]

TypeOK ==
  /\ DockerTypeOK
  /\ inv \in Invocations
  /\ pc \in Stages
  /\ cfg \in File
  /\ answered \subseteq Calls /\ errs \subseteq answered
  /\ env \in ScanEnvironment
  /\ ctxDone \in BOOLEAN /\ printed \in BOOLEAN
  /\ Len(report) <= 1
  /\ exit \in {-1, 0, 1, 2, 3, 10} /\ (exit # -1) = (pc = "done")
  /\ steady \subseteq Containers /\ stayed \in [Containers -> SUBSET Networks]

Init ==
  /\ DockerInit
  /\ inv \in Invocations
  /\ pc = "start" /\ cfg = DefaultFile
  /\ answered = {} /\ errs = {} /\ env = EmptyEnvironment
  /\ ctxDone = FALSE /\ report = <<>> /\ printed = FALSE /\ exit = -1
  /\ steady = {c \in Containers : Live(c)} /\ stayed = joined

Exit(code) == pc' = "done" /\ exit' = code

-----------------------------------------------------------------------------
(***************************************************************************)
(* The config file                                                         *)
(***************************************************************************)
\* A word of the file is raised but not trimmed, and may not be empty.
ValidFile(f) ==
  /\ \A w \in f.ignore : w.rule # 0 /\ w.form \in {"plain", "lower"}
  /\ f.failOn # "unknown"
  /\ f.large >= 0 /\ f.restart >= 0

\* The places that have a file, nearest first.
Candidates == {k \in DOMAIN SearchPaths : inv.files[SearchPaths[k]].kind # "absent"}

\* The one the user named or the nearest, even when it cannot be read; only where
\* nothing was named and nothing found do the defaults apply.
ConfigFile ==
  IF inv.explicit THEN inv.files["--config"]
  ELSE IF Candidates # {} THEN inv.files[SearchPaths[Min(Candidates)]]
  ELSE DefaultFile

LoadConfig ==
  /\ pc = "start"
  /\ LET f == ConfigFile
         good == f.kind = "read" /\ ValidFile(f)
     IN \/ good /\ cfg' = f /\ pc' = "flags" /\ UNCHANGED exit
        \/ ~good /\ Exit(10) /\ UNCHANGED cfg
  /\ UNCHANGED <<dockerVars, young, budget, inv, answered, errs, env, ctxDone, report,
                 printed, history>>

(***************************************************************************)
(* The flags                                                               *)
(***************************************************************************)
\* A word of a flag is trimmed and raised; an empty one is skipped.
FlagRules(words) == {w.rule : w \in {x \in words : x.form # "empty"}}

RulesInCategory(category) == {r \in AllRules : Registry[r].category = category}
BaseRules == IF inv.command = "security" THEN RulesInCategory("SECURITY") ELSE AllRules

\* --only selects among the command's own rules: possibly none of them.
SelectRules ==
  IF inv.command \in ScanCommands /\ inv.only # {} THEN BaseRules \cap FlagRules(inv.only)
  ELSE BaseRules

\* Mutant: the file's words are compared as they were written.
IgnoredAsWritten == {w.rule : w \in {x \in cfg.ignore : x.form = "plain"}}

\* Trimmed and raised again, whatever Validate let through.
IgnoredRules == {w.rule : w \in cfg.ignore}
Ignored ==
  (IF inv.command \in ScanCommands THEN FlagRules(inv.ignore) ELSE {}) \cup IgnoredRules

\* The flag before the file; none, or nothing at all, is no threshold.
FailOn == IF inv.failOn # "" THEN inv.failOn ELSE cfg.failOn
FailOnSet == inv.command \notin ResourceCommands /\ FailOn \in ToSet(Severities)

\* scan and security refuse a format before the scan, the others after it.
FlagError ==
  \/ inv.command \in ScanCommands
       /\ (0 \in FlagRules(inv.ignore) \cup FlagRules(inv.only) \/ inv.format = "bad")
  \/ inv.command \notin ResourceCommands /\ FailOn = "unknown"

ParseFlags ==
  /\ pc = "flags"
  /\ \/ FlagError /\ Exit(10)
     \/ ~FlagError /\ pc' = "connecting" /\ UNCHANGED exit
  /\ UNCHANGED <<dockerVars, young, budget, inv, cfg, answered, errs, env, ctxDone, report,
                 printed, history>>

-----------------------------------------------------------------------------
(***************************************************************************)
(* Connect and Collect                                                     *)
(***************************************************************************)
CallFails == ctxDone \/ "list" \in Faults

Connect ==
  /\ pc = "connecting"
  /\ \/ ~ctxDone /\ pc' = "collecting" /\ UNCHANGED exit
     \/ CallFails /\ Exit(10)
  /\ UNCHANGED <<dockerVars, young, budget, inv, cfg, answered, errs, env, ctxDone, report,
                 printed, history>>

\* Mutant: a call that fails is never counted as returned.
ReturnsUncounted(call, e) ==
  /\ pc = "collecting" /\ call \notin answered
  /\ \/ ~ctxDone /\ answered' = answered \cup {call} /\ env' = e /\ UNCHANGED errs
     \/ CallFails /\ errs' = errs \cup {call} /\ UNCHANGED <<answered, env>>
  /\ UNCHANGED <<dockerVars, young, budget, inv, pc, cfg, ctxDone, report, printed, exit,
                 history>>

\* A call returns e at an instant of its own, or records an error.
Returns(call, e) ==
  /\ pc = "collecting" /\ call \notin answered
  /\ answered' = answered \cup {call}
  /\ \/ ~ctxDone /\ env' = e /\ UNCHANGED errs
     \/ CallFails /\ errs' = errs \cup {call} /\ UNCHANGED env
  /\ UNCHANGED <<dockerVars, young, budget, inv, pc, cfg, ctxDone, report, printed, exit,
                 history>>

Info == Returns("info", env)

\* Mutant: the list endpoint's own default, which leaves stopped ones out.
ListRunningContainers == Returns("containers",
  [env EXCEPT !.containers = {c \in Containers : ctr[c] \in Active}, !.state = ctr,
              !.runsOn = runsOn])

ListContainers == Returns("containers",
  [env EXCEPT !.containers = {c \in Containers : Live(c)}, !.state = ctr, !.runsOn = runsOn])

\* The inspects of the listed containers and, for those without a user of their
\* own, of their images: each may fail, and none is an error of the collection.
\* One step here, which is all that properties of one container tell apart;
\* Collect has them interleaved.
InspectContainers ==
  /\ pc = "collecting" /\ "containers" \in answered \ errs /\ "inspects" \notin answered
  /\ answered' = answered \cup {"inspects"}
  /\ \E ok \in SUBSET env.containers :
       LET asked == {c \in ok : Config[c].user = ""}
       IN /\ \A c \in ok : Live(c) /\ ~ctxDone
          /\ \A c \in env.containers \ ok : ~Live(c) \/ ctxDone \/ "inspect" \in Faults
          /\ \E told \in SUBSET asked :
               /\ \A c \in asked \ told : "inspect" \in Faults
               /\ env' = [env EXCEPT !.inspected = ok, !.joined = joined, !.userKnown = told]
  /\ UNCHANGED <<dockerVars, young, budget, inv, pc, cfg, errs, ctxDone, report, printed, exit,
                 history>>

ListImages == Returns("images", [env EXCEPT !.images = img, !.tag = tag])
ListVolumes == Returns("volumes", [env EXCEPT !.volumes = vol])
ListNetworks == Returns("networks", [env EXCEPT !.networks = net])

AllAnswered == Calls \ answered \subseteq IF "containers" \in errs THEN {"inspects"} ELSE {}

\* Mutant: an error is recorded but the join waits for the calls that succeed.
JoinSuccesses ==
  /\ pc = "collecting" /\ answered \ errs = Calls
  /\ pc' = "evaluating" /\ UNCHANGED exit
  /\ UNCHANGED <<dockerVars, young, budget, inv, cfg, answered, errs, env, ctxDone, report,
                 printed, history>>

\* Mutant: only a failed container list is fatal.
JoinLenient ==
  /\ pc = "collecting" /\ AllAnswered
  /\ \/ "containers" \in errs /\ Exit(10)
     \/ "containers" \notin errs /\ pc' = "evaluating" /\ UNCHANGED exit
  /\ UNCHANGED <<dockerVars, young, budget, inv, cfg, answered, errs, env, ctxDone, report,
                 printed, history>>

\* All five have returned: any error ends the run, else link follows.
Join ==
  /\ pc = "collecting" /\ AllAnswered
  /\ \/ errs # {} /\ Exit(10)
     \/ errs = {} /\ pc' = "evaluating" /\ UNCHANGED exit
  /\ UNCHANGED <<dockerVars, young, budget, inv, cfg, answered, errs, env, ctxDone, report,
                 printed, history>>

-----------------------------------------------------------------------------
(***************************************************************************)
(* Evaluate, render, exit                                                  *)
(***************************************************************************)
RuleOptions == NormalizeOptions([large |-> cfg.large, restart |-> cfg.restart])
Evaluated == SelectRules \ Ignored

ReportOn(fs) ==
  [findings |-> fs, skipped |-> SelectRules \cap Ignored,
   penalty |-> Penalty(fs), summary |-> Summarize(env, fs)]

\* The context is looked at before each rule that is not skipped.
Evaluate ==
  /\ pc = "evaluating"
  /\ \/ ctxDone /\ Evaluated # {} /\ Exit(10) /\ UNCHANGED report
     \/ /\ ~ctxDone \/ Evaluated = {}
        /\ \E found \in {UNION {Check(env, RuleOptions, r) : r \in Evaluated}} :
           \E fs \in {SortFindings(found)} : report' = <<ReportOn(fs)>>
        /\ pc' = "rendering" /\ UNCHANGED exit
  /\ UNCHANGED <<dockerVars, young, budget, inv, cfg, answered, errs, env, ctxDone, printed,
                 history>>

ExitFor(fs) ==
  IF ~FailOnSet \/ fs = <<>> \/ Rank(HighestSeverity(fs)) < Rank(FailOn) THEN 0
  ELSE CASE HighestSeverity(fs) = "CRITICAL" -> 3
         [] HighestSeverity(fs) = "HIGH" -> 2
         [] OTHER -> 1

Render ==
  /\ pc = "rendering"
  /\ \/ inv.format # "bad" /\ printed' = TRUE /\ Exit(ExitFor(report[1].findings))
     \/ /\ inv.format = "bad" \/ "output" \in Faults
        /\ Exit(10) /\ UNCHANGED printed
  /\ UNCHANGED <<dockerVars, young, budget, inv, cfg, answered, errs, env, ctxDone, report,
                 history>>

\* What a resource command prints as JSON: its own kind alone, the summary of
\* everything.
NarrowTo(r, kind) == [r EXCEPT !.findings = OfKind(@, kind)]

-----------------------------------------------------------------------------
\* The deadline or a signal, while runScan's context is there to end.
Cancel ==
  /\ pc \in {"connecting", "collecting", "evaluating"} /\ "cancel" \in Faults /\ ~ctxDone
  /\ ctxDone' = TRUE
  /\ UNCHANGED <<dockerVars, young, budget, inv, pc, cfg, answered, errs, env, report,
                 printed, exit, history>>

\* What other users do matters only while the daemon is being asked.
Others ==
  /\ pc = "collecting" /\ UserStep
  /\ steady' = {c \in steady : ctr'[c] # "gone"}
  /\ stayed' = [c \in Containers |-> stayed[c] \cap joined'[c]]
  /\ UNCHANGED scanVars

Finished == pc = "done" /\ UNCHANGED vars

Collect ==
  Info \/ ListContainers \/ InspectContainers \/ ListImages \/ ListVolumes \/ ListNetworks

Run == LoadConfig \/ ParseFlags \/ Connect \/ Collect \/ Join \/ Evaluate \/ Render

Next == Run \/ Cancel \/ Others \/ Finished

\* The process runs on, and every call answers or fails.
Spec == Init /\ [][Next]_vars
FairSpec == Spec /\ WF_vars(Run)
=============================================================================
