--------------------------- MODULE ScanProperties ---------------------------
(***************************************************************************)
(* What a scan's report, its screens and its exit code may be relied on    *)
(* for, stated over ScanRun.                                               *)
(***************************************************************************)
EXTENDS ScanRun

\* A report does not change once it is made.
Reported == pc = "rendering"
Sorted == IF Reported THEN report[1].findings ELSE <<>>
Findings == ToSet(Sorted)
Of(r) == {f \in Findings : f.rule = r}

\* Nothing is called unused (DD014, DD015, DD017, DD018) that a container used
\* which was there, running or stopped, all through the collection: the lists
\* are taken at different instants, and none of those instants may miss it.
\* For volumes and networks this needs the container's inspect to have
\* succeeded: where it failed, buildContainer's partial record has no mounts and
\* no networks.  A network counts as used by a container that was joined to it all
\* along, through any connecting and disconnecting of others, and only if no other
\* of its name was listed.
UnusedIsUnused ==
  \A f \in Findings, c \in steady :
    /\ f.rule \in {14, 15} => runsOn[c] # f.resource
    /\ f.rule = 17 /\ c \in env.inspected => f.resource \notin Mounts[c]
    /\ f.rule = 18 /\ c \in env.inspected /\ Namesakes(env, f.resource) = {f.resource} =>
         f.resource \notin stayed[c]

\* What a report calls reclaimable is what `doctordock cleanup' offers to
\* remove from the same environment: the rules and internal/cleanup.Plan decide
\* "unused", "dangling" and "predefined" separately and must agree.
CleanupAgrees ==
  LET o == [flags |-> {"images", "networks", "volumes"}, apply |-> FALSE, yes |-> FALSE,
            keep |-> FALSE, tty |-> FALSE, format |-> "json"]
      Offered(kind) == {i.id : i \in {j \in Plan(env, o) : j.kind = kind}}
      Named(rules) == {f.resource : f \in UNION {Of(r) : r \in rules}}
  IN Reported =>
       /\ {14, 15} \subseteq Evaluated => Named({14, 15}) = Offered("image")
       /\ 17 \in Evaluated => Named({17}) = Offered("volume")
       /\ 18 \in Evaluated => Named({18}) = Offered("network")

\* The summary counts in loops of its own what the rules report: the two tell
\* the reader the same numbers wherever the rule ran.
SummaryAgrees ==
  LET s == report[1].summary
      Count(rules) == Cardinality(UNION {Of(r) : r \in rules})
  IN Reported =>
       /\ 12 \in Evaluated => s.containers.unhealthy = Count({12})
       /\ {14, 15} \subseteq Evaluated => s.images.unused = Count({14, 15})
       /\ 17 \in Evaluated => s.volumes.unused = Count({17})
       /\ 18 \in Evaluated => s.networks.unused = Count({18})
       /\ s.containers.total = s.containers.running + s.containers.paused
            + s.containers.restarting + s.containers.created + s.containers.stopped
       /\ LET by == s.findings.bySeverity
          IN s.findings.total =
               by["INFO"] + by["LOW"] + by["MEDIUM"] + by["HIGH"] + by["CRITICAL"]
       /\ LET by == s.findings.byCategory
          IN s.findings.total = by["SECURITY"] + by["CONFIGURATION"] + by["RESOURCE"]
                                  + by["PERFORMANCE"] + by["CLEANUP"]

\* One exposure is one finding: the socket is not a sensitive path as well, a
\* privileged container's capabilities are not counted again, an image is
\* dangling or unused but not both, and a port published on every interface of
\* a dual-stack host is one port.
OneExposureOnce ==
  \A f, g \in Findings : f # g /\ f.resource = g.resource =>
    /\ {f.rule, g.rule} = {4, 5} => f.dest # g.dest
    /\ {f.rule, g.rule} \notin {{2, 9}, {14, 15}}
    /\ f.rule = 6 /\ g.rule = 6 => SubSeq(f.port, 1, 3) # SubSeq(g.port, 1, 3)

\* Fixing any one finding that costs something lowers the penalty, even though
\* the findings after it move up in their rule's decay: true because the
\* severest of a rule come first (internal/score/score.go, "fixing ... always
\* moves the number").
EveryFixCounts ==
  \A f \in Findings : Weight(f) > 0 =>
    Penalty(SortFindings(Findings \ {f})) < report[1].penalty

\* No finding is lost on the way to a reader.  The scan screen, grouped or not,
\* accounts for every finding under its own severity and in order of severity,
\* and what to fix first leaves out no rule that is worse than one it names; a
\* resource table gives every finding of its kind to a row, shows every HIGH and
\* CRITICAL one in full, and says how many of the others it hides.
ScreenComplete(all) ==
  LET s == Screen(Sorted, all)
      lines == DOMAIN s.lines
      next == ToSet(s.next)
  IN /\ MapThenSumSet(LAMBDA k : Len(s.lines[k].named) + s.lines[k].more, lines) = Len(Sorted)
     /\ \A f \in Findings : \E k \in lines :
          s.lines[k].rule = f.rule /\ s.lines[k].severity = f.severity
     /\ \A k, m \in lines : k < m => Rank(s.lines[k].severity) >= Rank(s.lines[m].severity)
     /\ \A r \in next, q \in {f.rule : f \in Findings} \ next :
          Rank(WorstOf(Sorted, q)) <= Rank(WorstOf(Sorted, r))

TableComplete(kind, all) ==
  LET fs == NarrowTo(report[1], kind).findings
      t == ResourceTable(env, Sorted, kind, all)
  IN /\ MapThenSumSet(LAMBDA id : t.issues[id], DOMAIN t.issues) = Len(fs)
     /\ Len(t.listed.shown) + t.listed.hidden = Len(fs)
     /\ \A f \in ToSet(fs) :
          Rank(f.severity) >= Rank("HIGH") => f \in ToSet(t.listed.shown)

ScreensLoseNothing ==
  Reported => \A all \in BOOLEAN :
    ScreenComplete(all) /\ \A kind \in Kinds : TableComplete(kind, all)

\* What somebody asked to ignore, in the file or by flag, in either case, is
\* ignored and listed as skipped, or the run fails: no suppression silently
\* does nothing (internal/config.Validate).
SuppressionsTakeEffect ==
  LET words == cfg.ignore \cup
        (IF inv.command \in ScanCommands THEN {w \in inv.ignore : w.form # "empty"} ELSE {})
  IN Reported => \A w \in words :
       /\ w.rule \in AllRules /\ Of(w.rule) = {}
       /\ w.rule \in SelectRules => w.rule \in report[1].skipped

\* The exit code is about findings only when there is a whole report: 1, 2 and
\* 3 never come from a scan that lost a list, and 0 under a threshold means the
\* rules ran on all five answers and found nothing that severe.
ExitMeans ==
  exit \in 0..3 =>
    LET severities == {f.severity : f \in ToSet(report[1].findings)}
    IN /\ printed /\ answered = Calls /\ errs = {}
       /\ exit # 0 <=> FailOnSet /\ \E s \in severities : Rank(s) >= Rank(FailOn)
       /\ exit = 3 <=> FailOnSet /\ "CRITICAL" \in severities
       /\ exit = 1 => severities \cap {"HIGH", "CRITICAL"} = {}

\* A run ends, whichever calls fail and whenever the context ends: the join
\* waits for calls that all return.
ScanEnds == <>(pc = "done")
=============================================================================
