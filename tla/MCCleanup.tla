------------------------------ MODULE MCCleanup ------------------------------
(***************************************************************************)
(* A small daemon for CleanupRun: one container that may be stopped or     *)
(* running and one another user may create during the run, both from the   *)
(* same reference; two images, so that the reference can move; one volume; *)
(* a network of their own and the built-in bridge.                         *)
(***************************************************************************)
EXTENDS CleanupProperties, TLC

MCRef == "c1" :> "app:latest" @@ "c2" :> "app:latest"
MCMounts == "c1" :> {"data"} @@ "c2" :> {"data"}
MCAttached == "c1" :> {"web"} @@ "c2" :> {"web"}
MCNetName == "web" :> "web" @@ "bridge" :> "bridge"
\* This daemon reports no creation time for the volume.
MCUndated == {<<"volume", "data">>}

Line(flags, apply, yes, keep, tty, format) ==
  [flags |-> flags, apply |-> apply, yes |-> yes, keep |-> keep, tty |-> tty, format |-> format]

MCCommandLines == {
  Line({}, FALSE, TRUE, FALSE, TRUE, "terminal"),
  Line({"all"}, TRUE, TRUE, FALSE, TRUE, "bad"),
  Line({"all", "volumes"}, TRUE, TRUE, TRUE, FALSE, "json"),
  Line({"all", "volumes"}, TRUE, FALSE, FALSE, TRUE, "terminal"),
  Line({"all"}, TRUE, TRUE, FALSE, FALSE, "json"),
  Line({"all"}, TRUE, FALSE, FALSE, FALSE, "terminal")}

MCBusyLines == {
  Line({"all", "volumes"}, TRUE, TRUE, TRUE, FALSE, "json"),
  Line({"all", "volumes"}, TRUE, FALSE, FALSE, TRUE, "terminal")}

\* The initial states considered: app:latest names i1, or has moved on to i2;
\* c1 is not there, stopped or up; under --keep-since c1 or data is recent.
MCInit ==
  /\ o \in CommandLines
  /\ ctr \in {"c1" :> s @@ "c2" :> "future" : s \in {"future", "exited", "running"}}
  /\ joined = Attached
  /\ runsOn = [c \in Containers |-> "i1"]
  /\ tag \in [Tags -> Images] /\ img \in SUBSET Images
  /\ vol = Volumes /\ net = Networks
  /\ young \in {{}} \cup (IF o.keep THEN {{<<"container", "c1">>}, {<<"volume", "data">>}} ELSE {})
  /\ Init

BusySpec == MCInit /\ [][Next]_vars

\* Under all the faults together, those with the most to do: both images are
\* there and c1 is; where nobody is asked it is stopped and the reference names
\* its image; under --keep-since something is recent.
FullInit ==
  /\ MCInit
  /\ img = Images /\ ctr["c1"] \in {"exited", "running"}
  /\ o.yes => ctr["c1"] = "exited" /\ tag["app:latest"] = "i1"
  /\ o.keep => young # {}
MCSpec == FullInit /\ [][Next]_vars /\ Fairness
==============================================================================
