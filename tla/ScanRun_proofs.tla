---------------------------- MODULE ScanRun_proofs ----------------------------
(***************************************************************************)
(* What holds of every scan, whatever daemon it asks, whatever the other   *)
(* users do meanwhile, whatever its command line and its config file say   *)
(* and whichever calls fail.                                               *)
(***************************************************************************)
EXTENDS ScanProperties, ScanReport_proofs, Docker_proofs

-----------------------------------------------------------------------------
(***************************************************************************)
(* The invariant                                                           *)
(***************************************************************************)
\* What Load and ParseFlags let through.
AcceptedInv ==
  /\ pc \notin {"start", "done"} => ValidFile(cfg)
  /\ pc \notin {"start", "flags", "done"} => ~FlagError

\* There is a whole report to speak of.
Whole == pc = "rendering" \/ exit \in 0..3

\* The rules run on all five answers or not at all.
AnsweredInv ==
  /\ pc \in {"start", "flags", "connecting"} => answered = {}
  /\ pc = "evaluating" \/ Whole => answered = Calls /\ errs = {}

\* What the rules find in the answers.
Found == UNION {Check(env, RuleOptions, r) : r \in Evaluated}

\* The report holds every finding once, and the exit code is the one it calls for.
ReportInv ==
  /\ Whole => \E fs : IsOrderOf(fs, Found) /\ report = <<ReportOn(fs)>>
  /\ exit \in 0..3 => printed /\ exit = ExitFor(report[1].findings)

\* The containers that were there all the time are on the list, as they were, and
\* their inspects name the networks they were joined to all the time.
Listed == "containers" \in answered \ errs
JoinsInv ==
  \A c \in Containers :
    /\ stayed[c] \subseteq joined[c]
    /\ c \in env.inspected => stayed[c] \subseteq env.joined[c]
SteadyInv ==
  /\ \A c \in steady : Live(c) /\ (Listed => c \in env.containers /\ env.runsOn[c] = runsOn[c])
  /\ ListedLive(env)
  /\ JoinsInv

ScanInv == TypeOK /\ AcceptedInv /\ AnsweredInv /\ ReportInv /\ SteadyInv

-----------------------------------------------------------------------------
(***************************************************************************)
(* The findings                                                            *)
(***************************************************************************)
LEMMA EvaluatedAre ==
  ASSUME inv \in Invocation
  PROVE  SelectRules \subseteq AllRules /\ Evaluated \subseteq AllRules
BY DEF Evaluated, SelectRules, BaseRules, RulesInCategory

LEMMA FoundAre ==
  ASSUME TypeOK
  PROVE  /\ IsFiniteSet(Found)
         /\ \A f \in Found : IsFinding(f) /\ f.rule \in Evaluated /\ f \in Check(env, RuleOptions, f.rule)
<1> DEFINE C(r) == Check(env, RuleOptions, r)
           g == [r \in Evaluated |-> C(r)]
<1>1. env \in ScanEnvironment /\ Evaluated \subseteq AllRules
  BY EvaluatedAre, ScanAssumption DEF TypeOK
<1>2. \A r \in Evaluated : IsFiniteSet(C(r)) /\ \A f \in C(r) : f.rule = r /\ IsFinding(f)
  BY <1>1, RulesSpeakForThemselves DEF Says
<1> HIDE DEF C
<1>3. IsFiniteSet(Evaluated)
  <2>1. Evaluated \in SUBSET (1..18)
    BY <1>1, RulesAre
  <2>2. IsFiniteSet(1..18)
    <3>1. \A a, b \in Int : IsFiniteSet(a..b)
      BY FS_Interval
    <3>2. 1 \in Int /\ 18 \in Int
      OBVIOUS
    <3> QED BY <3>1, <3>2, Zenon
  <2> QED BY <2>1, <2>2, FS_Subset
<1>4. Found = UNION {C(r) : r \in Evaluated}
  BY DEF Found, C
<1>5. IsFiniteSet(Found)
  <2>1. {C(r) : r \in Evaluated} = {g[r] : r \in Evaluated} /\ DOMAIN g = Evaluated
    OBVIOUS
  <2> DEFINE S == {C(r) : r \in Evaluated}
  <2>2. IsFiniteSet(S)
    <3> HIDE DEF g
    <3> QED BY <1>3, <2>1, ImageIsFinite
  <2>3. \A T \in S : IsFiniteSet(T)
    BY <1>2
  <2> HIDE DEF S
  <2>4. IsFiniteSet(UNION S)
    BY <2>2, <2>3, FS_UNION
  <2> QED BY <1>4, <2>4 DEF S
<1>6. \A f \in Found : IsFinding(f) /\ f.rule \in Evaluated /\ f \in C(f.rule)
  BY <1>2, <1>4
<1> QED BY <1>5, <1>6 DEF C

-----------------------------------------------------------------------------
(***************************************************************************)
(* Types                                                                   *)
(***************************************************************************)
LEMMA DefaultFileType == DefaultFile \in File
BY DEF DefaultFile, File, FailWord

\* The file that is loaded is one of those there are, or the defaults.
LEMMA ConfigFileType ==
  ASSUME inv \in Invocation
  PROVE  ConfigFile \in File
<1>1. inv.files \in [ToSet(SearchPaths) \cup {"--config"} -> File]
  BY DEF Invocation
<1>2. \A k \in DOMAIN SearchPaths : SearchPaths[k] \in ToSet(SearchPaths)
  BY DEF ToSet
<1>3. Candidates # {} => Min(Candidates) \in Candidates
  <2> HAVE Candidates # {}
  <2>1. Candidates \subseteq Nat
    <3>1. DOMAIN SearchPaths = 1..4
      BY DEF SearchPaths
    <3> QED BY <3>1 DEF Candidates
  <2>2. \E x \in Candidates : \A y \in Candidates : x <= y
    BY <2>1, LeastNatural
  <2> QED BY <2>2 DEF Min
<1>4. Candidates \subseteq DOMAIN SearchPaths
  BY DEF Candidates
<1> QED BY <1>1, <1>2, <1>3, <1>4, DefaultFileType DEF ConfigFile

LEMMA EmptyEnvironmentType ==
  ASSUME DockerTypeOK
  PROVE  EmptyEnvironment \in ScanEnvironment
BY DEF DockerTypeOK, EmptyEnvironment, ScanEnvironment, Status

\* An answer keeps the environment's type: each action that takes one is Returns
\* with what it took.
LEMMA AnswerTypes ==
  ASSUME TypeOK
  PROVE  /\ [env EXCEPT !.containers = {c \in Containers : Live(c)}, !.state = ctr, !.runsOn = runsOn]
              \in ScanEnvironment
         /\ [env EXCEPT !.images = img, !.tag = tag] \in ScanEnvironment
         /\ [env EXCEPT !.volumes = vol] \in ScanEnvironment
         /\ [env EXCEPT !.networks = net] \in ScanEnvironment
BY DEF TypeOK, DockerTypeOK, ScanEnvironment

LEMMA ReturnsType ==
  ASSUME TypeOK, NEW call \in Calls, NEW e \in ScanEnvironment, Returns(call, e)
  PROVE  TypeOK'
BY DEF TypeOK, DockerTypeOK, dockerVars, Returns, history

LEMMA ExitForIs == \A fs : ExitFor(fs) \in {0, 1, 2, 3}
BY DEF ExitFor

LEMMA TypeInit == Init => TypeOK
<1> SUFFICES ASSUME Init PROVE TypeOK
  OBVIOUS
<1>1. DockerTypeOK
  BY DockerAssumption DEF Init, DockerInit, DockerTypeOK
<1>2. env \in ScanEnvironment
  BY <1>1, EmptyEnvironmentType DEF Init
<1>3. Len(report) <= 1
  BY DEF Init
<1>4. steady \subseteq Containers /\ stayed \in [Containers -> SUBSET Networks]
  BY <1>1 DEF Init, DockerTypeOK
<1> QED BY <1>1, <1>2, <1>3, <1>4, DefaultFileType DEF Init, TypeOK, Stages

LEMMA TypeNext == TypeOK /\ [Next]_vars => TypeOK'
<1> SUFFICES ASSUME TypeOK, [Next]_vars PROVE TypeOK'
  OBVIOUS
<1> DEFINE Same == UNCHANGED <<dockerVars, young, budget>>
<1>0. Same => DockerTypeOK'
  BY DEF TypeOK, DockerTypeOK, dockerVars
<1>00. inv \in Invocation
  BY ScanAssumption DEF TypeOK
<1>1. CASE LoadConfig
  <2>1. cfg' \in File
    BY <1>00, <1>1, ConfigFileType DEF LoadConfig, TypeOK
  <2> QED BY <1>0, <1>1, <2>1 DEF LoadConfig, TypeOK, Stages, Exit, history
<1>2. CASE ParseFlags
  BY <1>0, <1>2 DEF ParseFlags, TypeOK, Stages, Exit, history
<1>3. CASE Connect
  BY <1>0, <1>3 DEF Connect, TypeOK, Stages, Exit, history
<1>4. CASE Info
  BY <1>4, ReturnsType DEF Info, TypeOK, Calls
<1>5. CASE ListContainers
  BY <1>5, ReturnsType, AnswerTypes DEF ListContainers, Calls
<1>6. CASE ListImages
  BY <1>6, ReturnsType, AnswerTypes DEF ListImages, Calls
<1>7. CASE ListVolumes
  BY <1>7, ReturnsType, AnswerTypes DEF ListVolumes, Calls
<1>8. CASE ListNetworks
  BY <1>8, ReturnsType, AnswerTypes DEF ListNetworks, Calls
<1>9. CASE InspectContainers
  <2>1. env' \in ScanEnvironment
    <3>1. env \in ScanEnvironment /\ joined \in [Containers -> SUBSET Networks]
      BY DEF TypeOK, DockerTypeOK
    <3>2. PICK ok \in SUBSET env.containers, told \in SUBSET Containers :
            env' = [env EXCEPT !.inspected = ok, !.joined = joined, !.userKnown = told]
      <4>1. env.containers \subseteq Containers
        BY <3>1 DEF ScanEnvironment
      <4> QED BY <1>9, <4>1 DEF InspectContainers
    <3> QED BY <3>1, <3>2 DEF ScanEnvironment
  <2> QED BY <1>0, <1>9, <2>1 DEF InspectContainers, TypeOK, Calls, history
<1>10. CASE Join
  BY <1>0, <1>10 DEF Join, TypeOK, Stages, Exit, history
<1>11. CASE Evaluate
  <2>1. Len(report') <= 1
    <3>1. CASE UNCHANGED report
      BY <3>1 DEF TypeOK
    <3>2. CASE \E r : report' = <<r>>
      BY <3>2
    <3> QED BY <1>11, <3>1, <3>2 DEF Evaluate
  <2> QED BY <1>0, <1>11, <2>1 DEF Evaluate, TypeOK, Stages, Exit, history
<1>12. CASE Render
  <2>1. exit' \in {0, 1, 2, 3, 10} /\ pc' = "done"
    BY <1>12, ExitForIs DEF Render, Exit
  <2>2. /\ printed' \in BOOLEAN
        /\ UNCHANGED <<dockerVars, young, budget, inv, cfg, answered, errs, env, ctxDone, report,
                       history>>
    BY <1>12 DEF Render, TypeOK, history
  <2> QED BY <1>0, <2>1, <2>2 DEF TypeOK, Stages, history
<1>13. CASE Cancel
  BY <1>0, <1>13 DEF Cancel, TypeOK, history
<1>14. CASE Others
  BY <1>14, UserStepType DEF Others, TypeOK, scanVars
<1>15. CASE UNCHANGED vars
  BY <1>0, <1>15 DEF TypeOK, vars, scanVars, history
<1> QED BY <1>1, <1>2, <1>3, <1>4, <1>5, <1>6, <1>7, <1>8, <1>9, <1>10, <1>11, <1>12, <1>13,
           <1>14, <1>15 DEF Next, Run, Collect, Finished

-----------------------------------------------------------------------------
(***************************************************************************)
(* The parts of the invariant, one at a time                               *)
(***************************************************************************)
LEMMA PartsInit == Init => AcceptedInv /\ AnsweredInv /\ ReportInv /\ SteadyInv
BY DEF Init, AcceptedInv, AnsweredInv, ReportInv, Whole, SteadyInv, JoinsInv, Listed, ListedLive,
       EmptyEnvironment

\* The defaults are valid; anything else was looked at.
LEMMA AcceptedNext == TypeOK /\ AcceptedInv /\ [Next]_vars => AcceptedInv'
<1> SUFFICES ASSUME TypeOK, AcceptedInv, [Next]_vars PROVE AcceptedInv'
  OBVIOUS
<1>1. CASE LoadConfig
  BY <1>1 DEF LoadConfig, AcceptedInv, Exit
<1>2. CASE ParseFlags
  <2>1. FlagError' <=> FlagError
    BY <1>2 DEF ParseFlags, FlagError, FailOn
  <2> QED BY <1>2, <2>1 DEF ParseFlags, AcceptedInv, Exit
<1>3. CASE pc \notin {"start", "flags", "done"} /\ UNCHANGED <<inv, cfg>>
  <2>1. FlagError' <=> FlagError
    BY <1>3 DEF FlagError, FailOn
  <2> QED BY <1>3, <2>1 DEF AcceptedInv
<1>4. CASE UNCHANGED vars
  <2>1. FlagError' <=> FlagError
    BY <1>4 DEF vars, scanVars, FlagError, FailOn
  <2> QED BY <1>4, <2>1 DEF AcceptedInv, vars, scanVars
<1>5. CASE Connect \/ Join \/ Evaluate \/ Render \/ Cancel \/ Others
  BY <1>3, <1>5 DEF Connect, Join, Evaluate, Render, Cancel, Others, scanVars
<1>6. CASE Collect
  BY <1>3, <1>6 DEF Collect, Info, ListContainers, InspectContainers, ListImages, ListVolumes,
                    ListNetworks, Returns
<1> QED BY <1>1, <1>2, <1>4, <1>5, <1>6 DEF Next, Run, Finished

\* What every answering call leaves alone, and what it counts.
LEMMA CollectIs ==
  ASSUME Collect
  PROVE  /\ pc = "collecting"
         /\ UNCHANGED <<dockerVars, young, budget, inv, pc, cfg, ctxDone, report, printed, exit,
                        history>>
BY DEF Collect, Info, ListContainers, InspectContainers, ListImages, ListVolumes, ListNetworks,
       Returns

LEMMA AnsweredNext == TypeOK /\ AnsweredInv /\ [Next]_vars => AnsweredInv'
<1> SUFFICES ASSUME TypeOK, AnsweredInv, [Next]_vars PROVE AnsweredInv'
  OBVIOUS
<1> USE DEF AnsweredInv, Whole
<1>1. CASE LoadConfig \/ ParseFlags \/ Connect
  BY <1>1 DEF LoadConfig, ParseFlags, Connect, Exit, TypeOK
<1>2. CASE Collect
  BY <1>2, CollectIs DEF TypeOK
<1>3. CASE Join
  <2>1. UNCHANGED <<answered, errs>> /\ answered \subseteq Calls /\ exit = -1
    BY <1>3 DEF Join, TypeOK
  <2>2. CASE errs # {} /\ Exit(10)
    BY <2>1, <2>2 DEF Exit
  <2>3. CASE errs = {} /\ pc' = "evaluating" /\ UNCHANGED exit
    <3>1. Calls \subseteq answered
      BY <1>3, <2>3 DEF Join, AllAnswered
    <3> QED BY <2>1, <2>3, <3>1
  <2> QED BY <1>3, <2>2, <2>3 DEF Join
<1>4. CASE Evaluate
  BY <1>4 DEF Evaluate, Exit, TypeOK
<1>5. CASE Render
  <2>1. UNCHANGED <<answered, errs>> /\ pc = "rendering" /\ pc' = "done"
    BY <1>5 DEF Render, Exit
  <2> QED BY <2>1
<1>6. CASE Cancel \/ Others \/ UNCHANGED vars
  BY <1>6 DEF Cancel, Others, vars, scanVars
<1> QED BY <1>1, <1>2, <1>3, <1>4, <1>5, <1>6 DEF Next, Run, Finished

\* With the same answers, flags and options the rules find the same.
LEMMA SameFound ==
  ASSUME UNCHANGED <<inv, cfg, env>>
  PROVE  Found' = Found /\ \A fs : ReportOn(fs)' = ReportOn(fs) /\ ExitFor(fs)' = ExitFor(fs)
<1>1. Evaluated' = Evaluated /\ SelectRules' = SelectRules /\ Ignored' = Ignored
  BY DEF Evaluated, SelectRules, BaseRules, Ignored, IgnoredRules
<1>2. RuleOptions' = RuleOptions
  BY DEF RuleOptions
<1>3. Found' = Found
  BY <1>1, <1>2 DEF Found
<1>4. \A fs : ReportOn(fs)' = ReportOn(fs)
  BY <1>1 DEF ReportOn
<1>5. \A fs : ExitFor(fs)' = ExitFor(fs)
  BY DEF ExitFor, FailOnSet, FailOn
<1> QED BY <1>3, <1>4, <1>5

LEMMA ReportNext == TypeOK /\ ReportInv /\ [Next]_vars => ReportInv'
<1> SUFFICES ASSUME TypeOK, ReportInv, [Next]_vars PROVE ReportInv'
  OBVIOUS
<1>1. CASE pc \notin {"rendering", "done"} /\ pc' # "rendering" /\ exit' \notin 0..3
  BY <1>1 DEF ReportInv, Whole
<1>2. CASE LoadConfig \/ ParseFlags \/ Connect \/ Join
  <2>1. pc \notin {"rendering", "done"} /\ pc' # "rendering" /\ exit' \in {exit, 10} /\ exit = -1
    BY <1>2 DEF LoadConfig, ParseFlags, Connect, Join, Exit, TypeOK
  <2> QED BY <1>1, <2>1
<1>3. CASE Collect
  <2>1. pc = "collecting" /\ pc' = pc /\ exit' = exit /\ exit = -1
    BY <1>3, CollectIs DEF TypeOK
  <2> QED BY <1>1, <2>1
<1>4. CASE Cancel \/ Others
  <2>1. pc \in {"connecting", "collecting", "evaluating"} /\ pc' = pc /\ exit' = exit /\ exit = -1
    BY <1>4 DEF Cancel, Others, scanVars, TypeOK
  <2> QED BY <1>1, <2>1
<1>5. CASE Evaluate
  <2>1. CASE ctxDone /\ Evaluated # {} /\ Exit(10) /\ UNCHANGED report
    BY <1>1, <1>5, <2>1 DEF Evaluate, Exit, TypeOK
  <2>2. CASE /\ \E found \in {Found} : \E fs \in {SortFindings(found)} : report' = <<ReportOn(fs)>>
             /\ pc' = "rendering" /\ UNCHANGED exit
    <3>1. IsOrderOf(SortFindings(Found), Found)
      BY FoundAre, SortedWorstFirst
    <3>2. PICK fs : IsOrderOf(fs, Found) /\ report' = <<ReportOn(fs)>>
      BY <2>2, <3>1, Zenon
    <3>3. UNCHANGED <<inv, cfg, env>> /\ exit' = -1
      BY <1>5, <2>2 DEF Evaluate, TypeOK
    <3>4. Found' = Found /\ ReportOn(fs)' = ReportOn(fs)
      BY <3>3, SameFound
    <3> QED BY <3>2, <3>3, <3>4 DEF ReportInv
  <2> QED BY <1>5, <2>1, <2>2 DEF Evaluate, Found
<1>6. CASE Render
  <2>1. UNCHANGED <<inv, cfg, env, report>> /\ pc = "rendering"
    BY <1>6 DEF Render
  <2>2. PICK fs : IsOrderOf(fs, Found) /\ report = <<ReportOn(fs)>>
    BY <2>1 DEF ReportInv, Whole
  <2>3. exit' \in 0..3 => printed' /\ exit' = ExitFor(report[1].findings)
    BY <1>6 DEF Render, Exit
  <2>4. /\ Found' = Found /\ ReportOn(fs)' = ReportOn(fs)
        /\ ExitFor(report[1].findings)' = ExitFor(report[1].findings)
    BY <2>1, SameFound
  <2> QED BY <2>1, <2>2, <2>3, <2>4 DEF ReportInv
<1>7. CASE UNCHANGED vars
  <2>1. UNCHANGED <<inv, cfg, env, report, pc, exit, printed>>
    BY <1>7 DEF vars, scanVars
  <2>2. Found' = Found /\ \A fs : ReportOn(fs)' = ReportOn(fs) /\ ExitFor(fs)' = ExitFor(fs)
    BY <2>1, SameFound
  <2> QED BY <2>1, <2>2 DEF ReportInv, Whole
<1> QED BY <1>2, <1>3, <1>4, <1>5, <1>6, <1>7 DEF Next, Run, Finished

\* Nobody brings back a container that went, and one that stays keeps its image.
LEMMA SteadyNext == TypeOK /\ SteadyInv /\ [Next]_vars => SteadyInv'
<1> SUFFICES ASSUME TypeOK, SteadyInv, [Next]_vars PROVE SteadyInv'
  OBVIOUS
<1>1. CASE UNCHANGED <<ctr, joined, runsOn, answered, errs, env, steady, stayed>>
  BY <1>1 DEF SteadyInv, JoinsInv, Listed, ListedLive, Live
<1>2. CASE LoadConfig \/ ParseFlags \/ Connect \/ Join \/ Evaluate \/ Render \/ Cancel \/ UNCHANGED vars
  BY <1>1, <1>2 DEF LoadConfig, ParseFlags, Connect, Join, Evaluate, Render, Cancel, vars, scanVars,
                    dockerVars, history
<1>3. CASE ListContainers
  <2>1. UNCHANGED <<ctr, joined, runsOn, steady, stayed>>
    BY <1>3 DEF ListContainers, Returns, dockerVars, history
  <2>2. CASE env' = [env EXCEPT !.containers = {c \in Containers : Live(c)}, !.state = ctr,
                                !.runsOn = runsOn]
    <3>1. /\ env'.containers = {c \in Containers : Live(c)} /\ env'.state = ctr
          /\ env'.runsOn = runsOn /\ env'.inspected = env.inspected /\ env'.joined = env.joined
      BY <2>2 DEF TypeOK, ScanEnvironment
    <3>2. steady \subseteq Containers
      BY DEF TypeOK
    <3>3. JoinsInv'
      BY <2>1, <3>1 DEF SteadyInv, JoinsInv
    <3> QED BY <2>1, <3>1, <3>2, <3>3 DEF SteadyInv, ListedLive, Live
  <2>3. CASE errs' = errs \cup {"containers"} /\ env' = env
    BY <2>1, <2>3 DEF SteadyInv, JoinsInv, Listed, ListedLive, Live
  <2> QED BY <1>3, <2>2, <2>3 DEF ListContainers, Returns
<1>4. ASSUME NEW call, call # "containers",
             pc = "collecting", answered' = answered \cup {call}, errs \subseteq errs',
             errs' \subseteq errs \cup {call},
             UNCHANGED <<ctr, joined, runsOn, steady, stayed>>,
             env'.containers = env.containers, env'.state = env.state, env'.runsOn = env.runsOn,
             \/ env'.inspected = env.inspected /\ env'.joined = env.joined
             \/ env'.joined = joined
      PROVE  SteadyInv'
  <2>1. JoinsInv'
    BY <1>4 DEF SteadyInv, JoinsInv
  <2> QED BY <1>4, <2>1 DEF SteadyInv, Listed, ListedLive, Live
<1>5. CASE InspectContainers
  BY <1>4, <1>5 DEF InspectContainers, dockerVars, history, TypeOK, ScanEnvironment
<1>6. CASE Info
  BY <1>4, <1>6 DEF Info, Returns, dockerVars, history
<1>7. CASE ListImages
  BY <1>4, <1>7 DEF ListImages, Returns, dockerVars, TypeOK, ScanEnvironment, history
<1>8. CASE ListVolumes
  BY <1>4, <1>8 DEF ListVolumes, Returns, dockerVars, TypeOK, ScanEnvironment, history
<1>9. CASE ListNetworks
  BY <1>4, <1>9 DEF ListNetworks, Returns, dockerVars, TypeOK, ScanEnvironment, history
<1>10. CASE Others
  <2>1. /\ UserStep /\ steady' = {c \in steady : ctr'[c] # "gone"}
        /\ stayed' = [c \in Containers |-> stayed[c] \cap joined'[c]]
        /\ UNCHANGED <<answered, errs, env>>
    BY <1>10 DEF Others, scanVars
  <2>2. \A c \in steady : c \in Containers /\ Live(c)
    BY DEF SteadyInv, TypeOK
  <2>3. \A c \in steady : runsOn'[c] = runsOn[c] /\ ctr'[c] # "future"
    BY <2>1, <2>2, UserStepKeeps DEF TypeOK
  <2>4. JoinsInv'
    <3>1. JoinsInv
      BY DEF SteadyInv
    <3>2. ASSUME NEW c \in Containers
          PROVE  stayed'[c] \subseteq joined'[c] /\ stayed'[c] \subseteq stayed[c]
      <4>1. stayed'[c] = stayed[c] \cap joined'[c]
        BY <2>1
      <4> QED BY <4>1
    <3> QED BY <2>1, <3>1, <3>2 DEF JoinsInv
  <2> QED BY <2>1, <2>3, <2>4 DEF SteadyInv, Listed, ListedLive, Live
<1> QED BY <1>2, <1>3, <1>5, <1>6, <1>7, <1>8, <1>9, <1>10 DEF Next, Run, Collect, Finished

LEMMA Invariant == Spec => []ScanInv
<1>1. Init => ScanInv
  BY TypeInit, PartsInit DEF ScanInv
<1>2. ScanInv /\ [Next]_vars => ScanInv'
  BY TypeNext, AcceptedNext, AnsweredNext, ReportNext, SteadyNext DEF ScanInv
<1> QED BY <1>1, <1>2, PTL DEF Spec

-----------------------------------------------------------------------------
(***************************************************************************)
(* Theorems                                                                *)
(***************************************************************************)
\* Every variable keeps its type, and the exit code is there exactly when the run
\* is over.
THEOREM ScanTypes == Spec => []TypeOK
<1>1. ScanInv => TypeOK
  BY DEF ScanInv
<1> QED BY <1>1, Invariant, PTL

\* What a finished evaluation leaves to talk about.
LEMMA FindingsAre ==
  ASSUME ScanInv
  PROVE  /\ \A f \in Findings : IsFinding(f) /\ f.rule \in Evaluated /\ f \in Check(env, RuleOptions, f.rule)
         /\ Reported => /\ Findings = Found /\ IsOrderOf(Sorted, Found)
                        /\ report[1] = ReportOn(Sorted)
                        /\ \A r \in Evaluated : Of(r) = Check(env, RuleOptions, r)
<1>0. TypeOK
  BY DEF ScanInv
<1>1. CASE ~Reported
  BY <1>1 DEF Findings, Sorted, ToSet
<1>2. CASE Reported
  <2>1. PICK fs : IsOrderOf(fs, Found) /\ report = <<ReportOn(fs)>>
    BY <1>2 DEF ScanInv, ReportInv, Whole, Reported
  <2>2. report[1] = ReportOn(fs) /\ Sorted = fs
    BY <1>2, <2>1 DEF Sorted, ReportOn
  <2>3. Findings = Found
    BY <1>0, <2>1, <2>2, FoundAre, ReportIsList DEF Findings
  <2>4. ASSUME NEW r \in Evaluated PROVE Of(r) = Check(env, RuleOptions, r)
    <3>1. r \in AllRules /\ env \in ScanEnvironment
      BY <1>0, EvaluatedAre, ScanAssumption DEF TypeOK
    <3>2. \A f \in Check(env, RuleOptions, r) : f.rule = r
      BY <3>1, RulesSpeakForThemselves DEF Says
    <3>3. \A f \in Found : f.rule = r => f \in Check(env, RuleOptions, r)
      BY <1>0, FoundAre
    <3>4. Check(env, RuleOptions, r) \subseteq Found
      BY DEF Found
    <3> QED BY <2>3, <3>2, <3>3, <3>4 DEF Of
  <2> QED BY <1>0, <2>1, <2>2, <2>3, <2>4, FoundAre
<1> QED BY <1>1, <1>2

\* A container that was there all through the collection keeps what it uses from
\* being called unused, whatever came and went meanwhile.
THEOREM UsedIsNeverUnused == Spec => []UnusedIsUnused
<1>1. ScanInv => UnusedIsUnused
  <2> SUFFICES ASSUME ScanInv, NEW f \in Findings, NEW c \in steady
               PROVE  /\ f.rule \in {14, 15} => runsOn[c] # f.resource
                      /\ f.rule = 17 /\ c \in env.inspected => f.resource \notin Mounts[c]
                      /\ f.rule = 18 /\ c \in env.inspected /\ Namesakes(env, f.resource) = {f.resource} =>
                           f.resource \notin stayed[c]
    BY DEF UnusedIsUnused
  <2>1. f \in Check(env, RuleOptions, f.rule) /\ Reported
    <3>1. Reported
      BY DEF Findings, Sorted, ToSet
    <3> QED BY <3>1, FindingsAre
  <2>2. c \in env.containers /\ env.runsOn[c] = runsOn[c]
    <3>1. Listed
      BY <2>1 DEF ScanInv, AnsweredInv, Whole, Reported, Listed, Calls
    <3> QED BY <3>1 DEF ScanInv, SteadyInv
  <2>3. f.rule \in {14, 15} => Unused(env, f.resource)
    <3> DEFINE I == {i \in env.images : Unused(env, i)}
    <3>1. {g.resource : g \in Check(env, RuleOptions, 14) \cup Check(env, RuleOptions, 15)} = I
      BY RulesName
    <3> HIDE DEF I
    <3>2. f.rule \in {14, 15} => f.resource \in I
      BY <2>1, <3>1
    <3> QED BY <3>2 DEF I
  <2>4. f.rule = 17 => VolumeUsers(env, f.resource) = {}
    <3> DEFINE V == {v \in env.volumes : VolumeUsers(env, v) = {}}
    <3>1. {g.resource : g \in Check(env, RuleOptions, 17)} = V
      BY RulesName
    <3> HIDE DEF V
    <3>2. f.rule = 17 => f.resource \in V
      BY <2>1, <3>1
    <3> QED BY <3>2 DEF V
  <2>5. f.rule = 18 => NetworkUsers(env, f.resource) = {}
    <3> DEFINE N == {n \in env.networks \ Builtin : NetworkUsers(env, n) = {}}
    <3>1. {g.resource : g \in Check(env, RuleOptions, 18)} = N
      BY RulesName
    <3> HIDE DEF N
    <3>2. f.rule = 18 => f.resource \in N
      BY <2>1, <3>1
    <3> QED BY <3>2 DEF N
  <2>6. ASSUME f.rule = 18, c \in env.inspected, Namesakes(env, f.resource) = {f.resource},
               f.resource \in stayed[c]
        PROVE  FALSE
    <3>1. f.resource \in env.joined[c]
      <4>1. JoinsInv /\ steady \subseteq Containers
        BY DEF ScanInv, SteadyInv, TypeOK
      <4>2. c \in Containers
        BY <4>1
      <4> QED BY <2>6, <4>1, <4>2 DEF JoinsInv
    <3>2. LinkedByName(env, f.resource)
      BY <2>6 DEF LinkedByName
    <3> QED BY <2>2, <2>5, <2>6, <3>1, <3>2 DEF NetworkUsers
  <2> QED BY <2>2, <2>3, <2>4, <2>6 DEF Unused, ImageUsers, VolumeUsers
<1> QED BY <1>1, Invariant, PTL

\* What the rules call unused is what a cleanup of the same environment offers.
THEOREM CleanupOffersTheSame == Spec => []CleanupAgrees
<1>1. ScanInv => CleanupAgrees
  <2> SUFFICES ASSUME ScanInv, Reported PROVE CleanupAgrees
    BY DEF CleanupAgrees
  <2> DEFINE Offered(kind) == {i.id : i \in {j \in Plan(env, EverythingUnused) : j.kind = kind}}
             Named(rules) == {f.resource : f \in UNION {Of(r) : r \in rules}}
             C(r) == Check(env, RuleOptions, r)
  <2>1. \A r \in Evaluated : Of(r) = C(r)
    BY FindingsAre
  <2>2. /\ Offered("image") = {f.resource : f \in C(14) \cup C(15)}
        /\ Offered("volume") = {f.resource : f \in C(17)}
        /\ Offered("network") = {f.resource : f \in C(18)}
    BY PlanOffers, RulesName
  <2> HIDE DEF C, Offered
  <2>3. {14, 15} \subseteq Evaluated => Named({14, 15}) = Offered("image")
    <3> HAVE {14, 15} \subseteq Evaluated
    <3>1. UNION {Of(r) : r \in {14, 15}} = C(14) \cup C(15)
      BY <2>1
    <3> QED BY <2>2, <3>1
  <2>4. 17 \in Evaluated => Named({17}) = Offered("volume")
    <3> HAVE 17 \in Evaluated
    <3>1. UNION {Of(r) : r \in {17}} = C(17)
      BY <2>1
    <3> QED BY <2>2, <3>1
  <2>5. 18 \in Evaluated => Named({18}) = Offered("network")
    <3> HAVE 18 \in Evaluated
    <3>1. UNION {Of(r) : r \in {18}} = C(18)
      BY <2>1
    <3> QED BY <2>2, <3>1
  <2> QED BY <2>3, <2>4, <2>5, Zenon DEF CleanupAgrees, EverythingUnused, Offered
<1> QED BY <1>1, Invariant, PTL

\* One exposure is one finding: the socket, the privileges, the image and the port.
THEOREM ExposedOnce == Spec => []OneExposureOnce
<1>1. ScanInv => OneExposureOnce
  <2> SUFFICES ASSUME ScanInv, NEW f \in Findings, NEW g \in Findings, f # g,
                      f.resource = g.resource
               PROVE  Apart(f, g)
    BY DEF OneExposureOnce, Apart
  <2>1. env \in ScanEnvironment
    BY DEF ScanInv, TypeOK
  <2>2. \A h \in Findings : h.rule \in AllRules /\ h \in Check(env, RuleOptions, h.rule)
    BY FindingsAre DEF IsFinding
  <2> QED BY <2>1, <2>2, ExposuresApart
<1> QED BY <1>1, Invariant, PTL

\* What was asked to be ignored is ignored and listed as skipped, in the file or by
\* flag, or there is no report.
THEOREM SuppressionsHold == Spec => []SuppressionsTakeEffect
<1>1. ScanInv => SuppressionsTakeEffect
  <2> SUFFICES ASSUME ScanInv, Reported PROVE SuppressionsTakeEffect
    BY DEF SuppressionsTakeEffect
  <2> DEFINE words == cfg.ignore \cup
               (IF inv.command \in ScanCommands THEN {w \in inv.ignore : w.form # "empty"} ELSE {})
  <2>1. ValidFile(cfg) /\ ~FlagError
    BY DEF ScanInv, AcceptedInv, Reported
  <2>2. cfg \in File /\ inv \in Invocation
    BY ScanAssumption DEF ScanInv, TypeOK
  <2>3. \A w \in words : w.rule \in Ignored
    BY DEF Ignored, IgnoredRules, FlagRules
  <2>4. \A w \in words : w.rule # 0
    BY <2>1 DEF ValidFile, FlagError, FlagRules
  <2>5. \A w \in words : w.rule \in 0..18
    <3>1. cfg.ignore \subseteq Word /\ inv.ignore \subseteq Word
      BY <2>2 DEF File, Invocation
    <3> QED BY <3>1 DEF Word
  <2> HIDE DEF words
  <2>6. \A w \in words : Of(w.rule) = {}
    <3>1. \A f \in Findings : f.rule \in Evaluated
      BY FindingsAre
    <3> QED BY <2>3, <3>1 DEF Of, Evaluated
  <2>7. report[1].skipped = SelectRules \cap Ignored
    BY FindingsAre DEF ReportOn
  <2>8. \A w \in words : /\ w.rule \in AllRules /\ Of(w.rule) = {}
                         /\ w.rule \in SelectRules => w.rule \in report[1].skipped
    BY <2>3, <2>4, <2>5, <2>6, <2>7, RulesAre
  <2> QED BY <2>8 DEF SuppressionsTakeEffect, words
<1> QED BY <1>1, Invariant, PTL

\* The exit code speaks of the findings only when all five lists were read, and then
\* says which is the worst.
THEOREM ExitSpeaksTrue == Spec => []ExitMeans
<1>1. ScanInv => ExitMeans
  <2> SUFFICES ASSUME ScanInv, exit \in 0..3 PROVE ExitMeans
    BY DEF ExitMeans
  <2>1. PICK fs : IsOrderOf(fs, Found) /\ report = <<ReportOn(fs)>>
    BY DEF ScanInv, ReportInv, Whole
  <2>2. report[1].findings = fs
    BY <2>1 DEF ReportOn
  <2>3. /\ IsFiniteSet(Found) /\ \A f \in Found : IsFinding(f)
        /\ ToSet(fs) = Found /\ (fs = <<>> <=> Found = {})
    BY <2>1, FoundAre, ReportIsList DEF ScanInv
  <2>4. exit = ExitFor(fs)
    BY <2>2 DEF ScanInv, ReportInv
  <2>5. printed /\ answered = Calls /\ errs = {}
    BY DEF ScanInv, ReportInv, AnsweredInv, Whole
  <2> DEFINE severities == {f.severity : f \in Found}
             five == {"INFO", "LOW", "MEDIUM", "HIGH", "CRITICAL"}
             H == HighestSeverity(fs)
  <2>6. FailOnSet => FailOn \in five
    BY DEF FailOnSet, ToSet, Severities
  <2>7. severities \subseteq five
    BY <2>3 DEF IsFinding
  <2>8. Found # {} => H \in severities /\ \A s \in severities : Rank(s) <= Rank(H)
    BY <2>1, <2>3, HighestIs
  <2>9. exit = IF ~FailOnSet \/ Found = {} \/ Rank(H) < Rank(FailOn) THEN 0
               ELSE IF H = "CRITICAL" THEN 3 ELSE IF H = "HIGH" THEN 2 ELSE 1
    BY <2>3, <2>4 DEF ExitFor
  <2>10. Found = {} <=> severities = {}
    OBVIOUS
  <2> HIDE DEF severities, H
  <2>11. /\ exit # 0 <=> FailOnSet /\ \E s \in severities : Rank(s) >= Rank(FailOn)
         /\ exit = 3 <=> FailOnSet /\ "CRITICAL" \in severities
         /\ exit = 1 => severities \cap {"HIGH", "CRITICAL"} = {}
    <3>1. CASE ~FailOnSet
      BY <2>9, <3>1
    <3>2. CASE severities = {}
      BY <2>9, <2>10, <3>2
    <3>3. CASE FailOnSet /\ severities # {}
      <4>1. H \in five /\ H \in severities /\ \A s \in severities : Rank(s) <= Rank(H)
        BY <2>7, <2>8, <2>10, <3>3
      <4>2. \A s \in five : Rank(s) \in 0..4
        BY RankIs
      <4>3. exit # 0 <=> Rank(H) >= Rank(FailOn)
        BY <2>6, <2>9, <2>10, <3>3, <4>1, <4>2
      <4>4. Rank(H) >= Rank(FailOn) <=> \E s \in severities : Rank(s) >= Rank(FailOn)
        BY <2>6, <2>7, <3>3, <4>1, <4>2
      <4>5. "CRITICAL" \in severities <=> H = "CRITICAL"
        BY <2>7, <4>1, RankIs
      <4>6. H = "CRITICAL" => Rank(H) >= Rank(FailOn)
        BY <2>6, <3>3, RankIs
      <4>7. exit = 3 <=> FailOnSet /\ "CRITICAL" \in severities
        BY <2>9, <3>3, <4>3, <4>5, <4>6
      <4>8. exit = 1 => H \notin {"HIGH", "CRITICAL"}
        BY <2>9
      <4>9. H \notin {"HIGH", "CRITICAL"} => severities \cap {"HIGH", "CRITICAL"} = {}
        BY <2>7, <4>1, RankIs
      <4> QED BY <3>3, <4>3, <4>4, <4>7, <4>8, <4>9
    <3> QED BY <3>1, <3>2, <3>3
  <2> QED BY <2>2, <2>3, <2>5, <2>11 DEF ExitMeans, severities
<1> QED BY <1>1, Invariant, PTL

\* The summary's own loops tell the numbers the rules tell, and its parts add up.
THEOREM SummaryTellsTheSame == Spec => []SummaryAgrees
<1>1. ScanInv => SummaryAgrees
  <2> SUFFICES ASSUME ScanInv, Reported PROVE SummaryAgrees
    BY DEF SummaryAgrees
  <2> DEFINE s == Summarize(env, Sorted)
             C(r) == Check(env, RuleOptions, r)
             Count(rules) == Cardinality(UNION {Of(r) : r \in rules})
  <2>1. env \in ScanEnvironment /\ ListedLive(env)
    BY DEF ScanInv, TypeOK, SteadyInv
  <2>2. IsOrderOf(Sorted, Found) /\ report[1].summary = s /\ \A r \in Evaluated : Of(r) = C(r)
    BY FindingsAre DEF ReportOn
  <2>3. IsFiniteSet(Found) /\ \A f \in Found : IsFinding(f)
    BY FoundAre DEF ScanInv
  <2>4. /\ s.containers.unhealthy = Cardinality(C(12))
        /\ s.images.unused = Cardinality(C(14) \cup C(15))
        /\ s.volumes.unused = Cardinality(C(17))
        /\ s.networks.unused = Cardinality(C(18))
    BY <2>1, SummaryCounts
  <2>5. s.containers.total = s.containers.running + s.containers.paused
          + s.containers.restarting + s.containers.created + s.containers.stopped
    BY <2>1, ContainersAddUp DEF Summarize
  <2>6. /\ s.findings.total = s.findings.bySeverity["INFO"] + s.findings.bySeverity["LOW"]
              + s.findings.bySeverity["MEDIUM"] + s.findings.bySeverity["HIGH"]
              + s.findings.bySeverity["CRITICAL"]
        /\ s.findings.total = s.findings.byCategory["SECURITY"]
              + s.findings.byCategory["CONFIGURATION"] + s.findings.byCategory["RESOURCE"]
              + s.findings.byCategory["PERFORMANCE"] + s.findings.byCategory["CLEANUP"]
    BY <2>2, <2>3, FindingsAddUp
  <2> HIDE DEF s, C
  <2>7. 12 \in Evaluated => s.containers.unhealthy = Count({12})
    <3> HAVE 12 \in Evaluated
    <3>1. UNION {Of(r) : r \in {12}} = C(12)
      BY <2>2
    <3> QED BY <2>4, <3>1
  <2>8. {14, 15} \subseteq Evaluated => s.images.unused = Count({14, 15})
    <3> HAVE {14, 15} \subseteq Evaluated
    <3>1. UNION {Of(r) : r \in {14, 15}} = C(14) \cup C(15)
      BY <2>2
    <3> QED BY <2>4, <3>1
  <2>9. 17 \in Evaluated => s.volumes.unused = Count({17})
    <3> HAVE 17 \in Evaluated
    <3>1. UNION {Of(r) : r \in {17}} = C(17)
      BY <2>2
    <3> QED BY <2>4, <3>1
  <2>10. 18 \in Evaluated => s.networks.unused = Count({18})
    <3> HAVE 18 \in Evaluated
    <3>1. UNION {Of(r) : r \in {18}} = C(18)
      BY <2>2
    <3> QED BY <2>4, <3>1
  <2> QED BY <2>2, <2>5, <2>6, <2>7, <2>8, <2>9, <2>10 DEF SummaryAgrees
<1> QED BY <1>1, Invariant, PTL

\* Every screen of a finished scan tells all of it: grouped or not, a line for every
\* finding, none lost in a count, the worst first; and in a resource table every
\* finding counted in a row, none of the severe ones hidden.
THEOREM ScreensTellAll == Spec => []ScreensLoseNothing
<1>1. ScanInv => ScreensLoseNothing
  <2> SUFFICES ASSUME ScanInv, Reported, NEW all \in BOOLEAN
               PROVE  ScreenComplete(all) /\ \A kind \in Kinds : TableComplete(kind, all)
    BY DEF ScreensLoseNothing
  <2>1. /\ Findings = Found /\ IsOrderOf(Sorted, Found) /\ IsFiniteSet(Found)
        /\ report[1].findings = Sorted
        /\ \A f \in Found : IsFinding(f) /\ f \in Check(env, RuleOptions, f.rule)
    BY FindingsAre, FoundAre DEF ScanInv, ReportOn
  <2>2. env \in ScanEnvironment
    BY DEF ScanInv, TypeOK
  <2>3. \A f \in Found : IsFinding(f) /\ f.kind \in Kinds /\ f.resource \in Resources(env, f.kind)
    BY <2>1, <2>2, FindingsPointAtResources DEF IsFinding
  <2>4. ScreenComplete(all)
    <3>1. Screen(Sorted, all).lines = FindingLines(Sorted, all)
          /\ Screen(Sorted, all).next = NextSteps(Sorted)
      BY DEF Screen
    <3>2. /\ CountAll(Screen(Sorted, all).lines, Len(Sorted))
          /\ Cover(Screen(Sorted, all).lines, Findings)
          /\ GoDown(Screen(Sorted, all).lines)
      BY <2>1, <3>1, LinesLoseNothing
    <3>3. \A r \in ToSet(NextSteps(Sorted)), q \in {f.rule : f \in Found} \ ToSet(NextSteps(Sorted)) :
            Rank(WorstOf(Sorted, q)) <= Rank(WorstOf(Sorted, r))
      BY <2>1, NextStepsAreWorst
    <3>4. \A r \in ToSet(Screen(Sorted, all).next),
             q \in {f.rule : f \in Findings} \ ToSet(Screen(Sorted, all).next) :
            Rank(WorstOf(Sorted, q)) <= Rank(WorstOf(Sorted, r))
      BY <2>1, <3>1, <3>3
    <3> QED BY <3>2, <3>4 DEF ScreenComplete, CountAll, Cover, GoDown
  <2>5. ASSUME NEW kind \in Kinds PROVE TableComplete(kind, all)
    <3> DEFINE ks == NarrowTo(report[1], kind).findings
               t == ResourceTable(env, Sorted, kind, all)
    <3>1. ks = OfKind(Sorted, kind)
      <4>1. report[1] = ReportOn(Sorted)
        BY FindingsAre
      <4> QED BY <4>1 DEF NarrowTo, ReportOn
    <3>2. /\ CountRows(t.issues, Len(OfKind(Sorted, kind)))
          /\ Len(t.listed.shown) + t.listed.hidden = Len(OfKind(Sorted, kind))
          /\ \A f \in ToSet(OfKind(Sorted, kind)) :
               Rank(f.severity) >= Rank("HIGH") => f \in ToSet(t.listed.shown)
      BY <2>1, <2>2, <2>3, TableLosesNothing
    <3>3. /\ CountRows(t.issues, Len(ks))
          /\ Len(t.listed.shown) + t.listed.hidden = Len(ks)
          /\ \A f \in ToSet(ks) : Rank(f.severity) >= Rank("HIGH") => f \in ToSet(t.listed.shown)
      <4> HIDE DEF ks, t
      <4> QED BY <3>1, <3>2
    <3> QED BY <3>3 DEF TableComplete, CountRows
  <2> QED BY <2>4, <2>5
<1> QED BY <1>1, Invariant, PTL

\* Fixing a finding that costs something always lowers the penalty, though those
\* after it in its rule move up and cost more than they did (Weighted.Penalty).
THEOREM EveryFixLowers == Spec => []EveryFixCounts
<1>1. ScanInv => EveryFixCounts
  <2> SUFFICES ASSUME ScanInv, NEW f \in Findings, Weight(f) > 0
               PROVE  Penalty(SortFindings(Findings \ {f})) < report[1].penalty
    BY DEF EveryFixCounts
  <2>1. Reported
    BY DEF Findings, Sorted, ToSet
  <2>2. /\ Findings = Found /\ IsOrderOf(Sorted, Found) /\ IsFiniteSet(Found)
        /\ report[1].penalty = Penalty(Sorted)
        /\ \A g \in Found : IsFinding(g)
    BY <2>1, FindingsAre, FoundAre DEF ScanInv, ReportOn
  <2>3. Cardinality({g \in Found : g.rule = f.rule}) <= PenaltyUnit
    <3>1. f.rule \in Evaluated /\ f.rule \in AllRules /\ env \in ScanEnvironment
      BY <2>2, FindingsAre DEF IsFinding, ScanInv, TypeOK
    <3>2. {g \in Found : g.rule = f.rule} = Check(env, RuleOptions, f.rule)
      BY <2>1, <2>2, <3>1, FindingsAre DEF Of
    <3> QED BY <3>1, <3>2, RulesSayLittle
  <2>4. IsOrderOf(SortFindings(Found \ {f}), Found \ {f})
    BY <2>2, FS_Subset, SortedWorstFirst
  <2> QED BY <2>2, <2>3, <2>4, FixingLowersPenalty
<1> QED BY <1>1, Invariant, PTL

-----------------------------------------------------------------------------
(***************************************************************************)
(* The end                                                                 *)
(***************************************************************************)
\* What the run may still come to from where it is.
Ahead ==
  [start |-> Stages \ {"start"},
   flags |-> {"connecting", "collecting", "evaluating", "rendering", "done"},
   connecting |-> {"collecting", "evaluating", "rendering", "done"},
   collecting |-> {"evaluating", "rendering", "done"},
   evaluating |-> {"rendering", "done"}, rendering |-> {"done"}, done |-> {}]

\* What it has left to do: the calls to hear of, the places to come to, the context
\* to lose.
ToDo ==
  ({"call"} \X (Calls \ answered)) \cup ({"place"} \X Ahead[pc])
    \cup ({"context"} \X {x \in {TRUE} : ~ctxDone})
StepsLeft == Cardinality(ToDo)

\* The inspects wait for the list; every other call may answer or fail by itself.
MayAnswer(call) == call \notin answered /\ (call = "inspects" => "containers" \in answered \ errs)

LEMMA ToDoIsFinite ==
  ASSUME TypeOK
  PROVE  IsFiniteSet(ToDo)
<1>1. \A x : IsFiniteSet({x})
  BY FS_Singleton
<1>2. IsFiniteSet(Calls \ answered)
  <2>1. IsFiniteSet(((((({"info"} \cup {"containers"}) \cup {"inspects"}) \cup {"images"})
                       \cup {"volumes"}) \cup {"networks"}))
    BY <1>1, FS_Union
  <2>2. Calls = (((({"info"} \cup {"containers"}) \cup {"inspects"}) \cup {"images"})
                       \cup {"volumes"}) \cup {"networks"}
    BY DEF Calls
  <2> QED BY <2>1, <2>2, FS_Difference
<1>3. IsFiniteSet(Ahead[pc])
  <2>1. IsFiniteSet(((((({"flags"} \cup {"connecting"}) \cup {"collecting"}) \cup {"evaluating"})
                       \cup {"rendering"}) \cup {"done"}))
    BY <1>1, FS_Union
  <2>2. Ahead[pc] \subseteq (((({"flags"} \cup {"connecting"}) \cup {"collecting"})
                             \cup {"evaluating"}) \cup {"rendering"}) \cup {"done"}
    BY DEF Ahead, TypeOK, Stages
  <2> QED BY <2>1, <2>2, FS_Subset
<1>4. IsFiniteSet({x \in {TRUE} : ~ctxDone})
  BY <1>1, FS_Subset
<1>5. /\ IsFiniteSet({"call"} \X (Calls \ answered))
      /\ IsFiniteSet({"place"} \X Ahead[pc])
      /\ IsFiniteSet({"context"} \X {x \in {TRUE} : ~ctxDone})
  BY <1>1, <1>2, <1>3, <1>4, FS_Product
<1> QED BY <1>5, FS_Union DEF ToDo

\* What a step of the run gives up, and that it takes nothing up again.
GivesUp ==
  /\ answered \subseteq answered' /\ Ahead[pc'] \subseteq Ahead[pc] /\ (ctxDone => ctxDone')
  /\ \/ \E call \in Calls : call \notin answered /\ call \in answered'
     \/ \E p \in Ahead[pc] : p \notin Ahead[pc']
     \/ ctxDone' # ctxDone

LEMMA GivingUpIsLess ==
  ASSUME TypeOK, TypeOK', GivesUp
  PROVE  StepsLeft' < StepsLeft
<1>1. IsFiniteSet(ToDo)
  BY ToDoIsFinite
<1>2. ToDo' \subseteq ToDo
  BY DEF ToDo, GivesUp
<1>3. \E x \in ToDo : x \notin ToDo'
  <2>1. ASSUME NEW call \in Calls, call \notin answered, call \in answered'
        PROVE  \E x \in ToDo : x \notin ToDo'
    <3>1. <<"call", call>> \in ToDo /\ <<"call", call>> \notin ToDo'
      BY <2>1 DEF ToDo
    <3> QED BY <3>1
  <2>2. ASSUME NEW p \in Ahead[pc], p \notin Ahead[pc']
        PROVE  \E x \in ToDo : x \notin ToDo'
    <3>1. <<"place", p>> \in ToDo /\ <<"place", p>> \notin ToDo'
      BY <2>2 DEF ToDo
    <3> QED BY <3>1
  <2>3. ASSUME ctxDone' # ctxDone
        PROVE  \E x \in ToDo : x \notin ToDo'
    <3>1. ~ctxDone /\ ctxDone'
      BY <2>3 DEF GivesUp, TypeOK
    <3>2. <<"context", TRUE>> \in ToDo /\ <<"context", TRUE>> \notin ToDo'
      BY <3>1 DEF ToDo
    <3> QED BY <3>2
  <2> QED BY <2>1, <2>2, <2>3 DEF GivesUp
<1> HIDE DEF ToDo
<1> QED BY <1>1, <1>2, <1>3, Fewer DEF StepsLeft

\* A place ahead is one the run has not been to, and has fewer ahead of it.
LEMMA MovesOn ==
  ASSUME TypeOK, pc' \in Ahead[pc], UNCHANGED <<answered, ctxDone>>
  PROVE  GivesUp
<1>1. pc' \notin Ahead[pc'] /\ Ahead[pc'] \subseteq Ahead[pc]
  BY DEF Ahead, Stages, TypeOK
<1> QED BY <1>1 DEF GivesUp

LEMMA RunStep ==
  ASSUME TypeOK, [Next]_vars
  PROVE  GivesUp \/ UNCHANGED scanVars
<1>1. CASE LoadConfig
  BY <1>1, MovesOn DEF LoadConfig, Exit, Ahead, Stages
<1>2. CASE ParseFlags
  BY <1>2, MovesOn DEF ParseFlags, Exit, Ahead
<1>3. CASE Connect
  BY <1>3, MovesOn DEF Connect, Exit, Ahead
<1>4. CASE Collect
  <2>1. PICK call \in Calls : call \notin answered /\ answered' = answered \cup {call}
    BY <1>4 DEF Collect, Info, ListContainers, InspectContainers, ListImages, ListVolumes,
                ListNetworks, Returns, Calls
  <2>2. UNCHANGED <<pc, ctxDone>>
    BY <1>4, CollectIs
  <2> QED BY <2>1, <2>2 DEF GivesUp
<1>5. CASE Join
  BY <1>5, MovesOn DEF Join, Exit, Ahead
<1>6. CASE Evaluate
  <2>1. pc = "evaluating" /\ pc' \in {"rendering", "done"} /\ UNCHANGED <<answered, ctxDone>>
    BY <1>6 DEF Evaluate, Exit
  <2> QED BY <2>1, MovesOn DEF Ahead
<1>7. CASE Render
  <2>1. pc = "rendering" /\ pc' = "done" /\ UNCHANGED <<answered, ctxDone>>
    BY <1>7 DEF Render, Exit
  <2> QED BY <2>1, MovesOn DEF Ahead
<1>8. CASE Cancel
  BY <1>8 DEF Cancel, GivesUp
<1>9. CASE Others \/ UNCHANGED vars
  BY <1>9 DEF Others, vars
<1> QED
  BY <1>1, <1>2, <1>3, <1>4, <1>5, <1>6, <1>7, <1>8, <1>9 DEF Next, Run, Finished

\* The join of Collect never waits for a call that cannot answer: whichever calls
\* fail and in whatever order they return, all it waits for have returned or one of
\* those it waits for may.  And every step of a run leaves fewer to take, since a
\* call returns once, a run that has gone on does not come back, and a context ends
\* once.  (That a step which may be taken is taken is the fairness that TLC's runs
\* assume.)
THEOREM ScanWindsDown ==
  Spec => /\ [](pc = "collecting" => AllAnswered \/ \E call \in Calls : MayAnswer(call))
          /\ [](StepsLeft \in Nat)
          /\ [][StepsLeft' < StepsLeft \/ UNCHANGED scanVars]_vars
<1>1. ASSUME TypeOK, ~AllAnswered PROVE \E call \in Calls : MayAnswer(call)
  <2>1. CASE Calls \ answered \subseteq {"inspects"}
    BY <1>1, <2>1 DEF AllAnswered, MayAnswer, Calls
  <2>2. CASE ~(Calls \ answered \subseteq {"inspects"})
    BY <2>2 DEF MayAnswer
  <2> QED BY <2>1, <2>2
<1>2. ASSUME TypeOK PROVE StepsLeft \in Nat
  BY <1>2, ToDoIsFinite, FS_CardinalityType DEF StepsLeft
<1>3. ASSUME TypeOK, TypeOK', [Next]_vars
      PROVE  [StepsLeft' < StepsLeft \/ UNCHANGED scanVars]_vars
  BY <1>3, RunStep, GivingUpIsLess
<1> QED BY <1>1, <1>2, <1>3, ScanTypes, PTL DEF Spec
============================================================================
