----------------------------- MODULE ScanReport -----------------------------
(***************************************************************************)
(* What a scan makes of its findings: their order, the score, the summary, *)
(* and what the terminal shows of them (internal/scanner, internal/score,  *)
(* pkg/model, internal/report).  Pure.                                     *)
(*                                                                         *)
(* The score is 100 * exp(-penalty / 100), rounded: the penalty, which is  *)
(* what falls and rises, is modelled exactly and the curve is left out.    *)
(* On screen a line is what it counts and names; colour, wrapping and the  *)
(* wording are left out.                                                   *)
(***************************************************************************)
EXTENDS Rules

CONSTANT PenaltyUnit   \* how finely a penalty is counted: in 1/PenaltyUnit of a point

AtMost(n, k) == IF n < k THEN n ELSE k

\* The numbers of S, going up: which positions of a list a filter keeps.
InOrder(S) ==
  MapThenFoldSet(LAMBDA i, before : Append(before, i), <<>>, LAMBDA i : i, Max, S)

\* Mutant: the least severe first.
MildestFirst(a, b) ==
  \/ Rank(a.severity) < Rank(b.severity)
  \/ a.severity = b.severity /\ a.rule < b.rule

WorstFirst(a, b) ==
  \/ Rank(a.severity) > Rank(b.severity)
  \/ a.severity = b.severity /\ a.rule < b.rule

\* One that no other comes after.
Mildest(F) == CHOOSE f \in F : \A g \in F : ~WorstFirst(f, g)

\* Most severe first, then by rule; among equals the resource's name decides,
\* here any order.
SortFindings(F) ==
  MapThenFoldSet(LAMBDA f, before : Append(before, f), <<>>, LAMBDA f : f, Mildest, F)

-----------------------------------------------------------------------------
(* Score *)
Weights == <<0, 3, 8, 15, 25>>
Weight(f) == Weights[Rank(f.severity) + 1]

\* What one rule can have a finding about, apart from a resource.
AllMounts == UNION {{c} \X Config[c].mounts : c \in Containers}
AllPorts == UNION {{c} \X Config[c].published : c \in Containers}

\* An n-th of a weight is an integer for as many findings as one rule can have.
ASSUME PenaltyUnitAssumption ==
  /\ PenaltyUnit \in Nat \ {0}
  /\ \A S \in {Ids, AllMounts, AllPorts} : \A n \in 1..Cardinality(S) : PenaltyUnit % n = 0

\* The n-th finding of one rule costs an n-th of its weight; a finding without
\* weight is not counted.
Penalty(fs) ==
  LET Occurrence(i) ==
        Cardinality({j \in 1..i : fs[j].rule = fs[i].rule /\ Weight(fs[j]) > 0})
  IN MapThenSumSet(LAMBDA i : (Weight(fs[i]) * PenaltyUnit) \div Occurrence(i),
                   {i \in DOMAIN fs : Weight(fs[i]) > 0})

-----------------------------------------------------------------------------
(* Summary *)
CountSeverities(fs) ==
  [s \in ToSet(Severities) |-> Cardinality({i \in DOMAIN fs : fs[i].severity = s})]

HighestSeverity(fs) ==
  Severities[Max({Rank(fs[i].severity) : i \in DOMAIN fs}) + 1]

InState(env, S) == Cardinality({c \in env.containers : env.state[c] \in S})

\* Mutant: a stopped container that was unhealthy when it stopped still counts.
UnhealthyEver(env) ==
  Cardinality({c \in env.containers : IsUnhealthy(BuildContainer(env, c))})

UnhealthyNow(env) ==
  Cardinality({c \in env.containers :
    LET b == BuildContainer(env, c) IN IsRunning(b) /\ IsUnhealthy(b)})

Summarize(env, fs) ==
  LET spare == {i \in env.images : Unused(env, i)}
      custom == env.networks \ Builtin
      Bytes(S) == MapThenSumSet(LAMBDA i : Size[i], S)
  IN [containers |-> [total |-> Cardinality(env.containers),
                      running |-> InState(env, {"running"}), paused |-> InState(env, {"paused"}),
                      restarting |-> InState(env, {"restarting"}),
                      created |-> InState(env, {"created"}),
                      stopped |-> InState(env, {"exited", "dead", "removing"}),
                      unhealthy |-> UnhealthyNow(env)],
      images |-> [total |-> Cardinality(env.images), unused |-> Cardinality(spare),
                  dangling |-> Cardinality({i \in env.images : Dangling(env, i)}),
                  size |-> Bytes(env.images), reclaimable |-> Bytes(spare)],
      volumes |-> [total |-> Cardinality(env.volumes),
                   unused |-> Cardinality({v \in env.volumes : VolumeUsers(env, v) = {}}),
                   anonymous |-> Cardinality(env.volumes \cap Anonymous)],
      networks |-> [total |-> Cardinality(env.networks), custom |-> Cardinality(custom),
                    unused |-> Cardinality({n \in custom : NetworkUsers(env, n) = {}})],
      findings |-> [total |-> Len(fs), bySeverity |-> CountSeverities(fs),
                    byCategory |-> [g \in Categories |->
                      Cardinality({i \in DOMAIN fs : Registry[fs[i].rule].category = g})]]]

-----------------------------------------------------------------------------
(* The scan screen *)
\* Mutant: one entry per rule, under the severity of its first finding.
GroupKeyByRule(f) == <<f.rule, "any">>

GroupKey(f) == <<f.rule, f.severity>>

ResourceListLimit == 5

\* One entry per rule and severity, in the order of their first findings; a
\* long list of resources is cut and the rest counted.
GroupFindings(fs) ==
  LET heads == InOrder({i \in DOMAIN fs :
                          \A j \in 1..(i - 1) : GroupKey(fs[j]) # GroupKey(fs[i])})
      Members(i) == InOrder({j \in DOMAIN fs : GroupKey(fs[j]) = GroupKey(fs[i])})
  IN [k \in DOMAIN heads |->
        LET ms == Members(heads[k])
        IN [rule |-> fs[heads[k]].rule, severity |-> fs[heads[k]].severity,
            named |-> [n \in 1..AtMost(Len(ms), ResourceListLimit) |-> fs[ms[n]].resource],
            more |-> IF Len(ms) > ResourceListLimit THEN Len(ms) - ResourceListLimit ELSE 0]]

HasRepeats(fs) == \E i, j \in DOMAIN fs : i # j /\ GroupKey(fs[i]) = GroupKey(fs[j])

\* With --all, one entry per finding instead.
FindingLines(fs, all) ==
  IF all THEN [i \in DOMAIN fs |-> [rule |-> fs[i].rule, severity |-> fs[i].severity,
                                    named |-> <<fs[i].resource>>, more |-> 0]]
  ELSE GroupFindings(fs)

\* A rule counts as its worst finding.
WorstOf(fs, r) ==
  Severities[Max({Rank(fs[i].severity) : i \in {j \in DOMAIN fs : fs[j].rule = r}}) + 1]

NextStepLimit == 6

\* One line per rule, the six worst, in the order findings have.
NextSteps(fs) ==
  LET ordered == SortFindings({[rule |-> r, severity |-> WorstOf(fs, r)] :
                               r \in {fs[i].rule : i \in DOMAIN fs}})
  IN [k \in 1..AtMost(Len(ordered), NextStepLimit) |-> ordered[k].rule]

Screen(fs, all) ==
  [lines |-> FindingLines(fs, all),
   grouped |-> ~all /\ HasRepeats(fs),
   next |-> NextSteps(fs)]

-----------------------------------------------------------------------------
(* The resource tables *)
LowSeverityCap == 5

\* Mutant: the cap spares CRITICAL only.
CapBelowCritical(f) == f.severity # "CRITICAL"

CappedSeverity(f) == Rank(f.severity) < Rank("HIGH")

\* Below HIGH, the findings of one rule after the fifth are only counted.
SelectFindings(fs, all) ==
  LET Shown(i) == \/ all \/ ~CappedSeverity(fs[i])
                  \/ Cardinality({j \in 1..i : fs[j].rule = fs[i].rule /\ CappedSeverity(fs[j])})
                       <= LowSeverityCap
      kept == InOrder({i \in DOMAIN fs : Shown(i)})
  IN [shown |-> [k \in DOMAIN kept |-> fs[kept[k]]],
      hidden |-> Cardinality({i \in DOMAIN fs : ~Shown(i)})]

OfKind(fs, kind) ==
  LET kept == InOrder({i \in DOMAIN fs : fs[i].kind = kind})
  IN [k \in DOMAIN kept |-> fs[kept[k]]]

Resources(env, kind) ==
  CASE kind = "container" -> env.containers
    [] kind = "image" -> env.images
    [] kind = "volume" -> env.volumes
    [] kind = "network" -> env.networks

IssueCount(fs, kind, id) ==
  Cardinality({i \in DOMAIN fs : fs[i].kind = kind /\ fs[i].resource = id})

\* A row for each resource with the number of its findings, then the findings.
ResourceTable(env, fs, kind, all) ==
  [issues |-> [id \in Resources(env, kind) |-> IssueCount(fs, kind, id)],
   listed |-> SelectFindings(OfKind(fs, kind), all)]
=============================================================================
