------------------------------- MODULE MCScan -------------------------------
(***************************************************************************)
(* A small machine for ScanRun on which every rule has something to say:   *)
(* c1 mounts most of the host, c2 is privileged, may be stopped or appear  *)
(* during the scan, and depends on its image for its user.                 *)
(***************************************************************************)
EXTENDS ScanProperties

MCRef == "c1" :> "app:latest" @@ "c2" :> "app:latest"
MCMounts == "c1" :> {} @@ "c2" :> {"data"}
MCAttached == "c1" :> {"bridge"} @@ "c2" :> {"web"}
\* A second network has the name of the first.
MCNetName == "web" :> "web" @@ "web2" :> "web" @@ "bridge" :> "bridge"
MCImageUser == "i1" :> "app" @@ "i2" :> ""
MCSize == "i1" :> 1500 @@ "i2" :> 10
MCTagWord == "app:latest" :> "latest"

Bind(source, dest, ro) ==
  [type |-> "bind", source |-> source, dest |-> dest, socket |-> FALSE, readOnly |-> ro]
Publish(private, public, ip) ==
  [private |-> private, public |-> public, proto |-> "tcp", ip |-> ip]

\* Seven sensitive mounts, the root of the host among them, writable; one that
\* is not; and the socket, as a Mac's Docker Desktop shows it.
MCHostMounts == {
  Bind(<<"host_mnt">>, "/host", FALSE), Bind(<<"etc", "ssl">>, "/ssl", TRUE),
  Bind(<<"host_mnt", "Users", "me", ".ssh">>, "/ssh", TRUE), Bind(<<"proc">>, "/p", TRUE),
  Bind(<<"home", "me", ".config", "gcloud", "x">>, "/g", TRUE), Bind(<<"usr">>, "/u", TRUE),
  Bind(<<"dev">>, "/d", TRUE), Bind(<<"srv", "etc">>, "/srv", TRUE),
  Bind(<<"run", "desktop", "mnt", "host", "run", "my-docker.sock">>, "/s", TRUE)}

\* Six sensitive ports on every interface, more than a table lists, after three of
\* the Docker API; one on an address of its own and one not published.
MCConfig ==
  "c1" :> [user |-> "0:0", test |-> "none", health |-> "", restartPolicy |-> "no",
           restartCount |-> 5, privileged |-> FALSE, networkMode |-> "host",
           caps |-> {[name |-> "SYS_ADMIN", form |-> "prefixed"],
                     [name |-> "NET_RAW", form |-> "lower"]},
           mounts |-> MCHostMounts, memoryLimit |-> 0,
           published |-> {Publish(5432, 5432, "0.0.0.0"), Publish(5432, 5432, "::"),
                          Publish(5432, 15432, "127.0.0.1"), Publish(2375, 2375, "::"),
                          Publish(2375, 12375, "::"), Publish(2376, 2376, "0.0.0.0"),
                          Publish(22, 0, ""), Publish(3306, 13306, ""),
                          Publish(6379, 6379, "0.0.0.0"), Publish(9092, 9092, "0.0.0.0"),
                          Publish(9200, 80, "0.0.0.0"), Publish(27017, 27017, "[::]")}]
  @@
  "c2" :> [user |-> "", test |-> "CMD", health |-> "unhealthy", restartPolicy |-> "always",
           restartCount |-> 0, privileged |-> TRUE, networkMode |-> "default",
           caps |-> {[name |-> "SYS_ADMIN", form |-> "plain"]},
           mounts |-> {[type |-> "volume", source |-> <<"var", "lib", "docker", "volumes", "data">>,
                        dest |-> "/data", socket |-> FALSE, readOnly |-> FALSE]},
           memoryLimit |-> 512, published |-> {}]

-----------------------------------------------------------------------------
Absent == [DefaultFile EXCEPT !.kind = "absent"]
NoFiles == [p \in ToSet(SearchPaths) \cup {"--config"} |-> Absent]
W(rule, form) == [rule |-> rule, form |-> form]

Plain == [command |-> "scan", explicit |-> FALSE, files |-> NoFiles, ignore |-> {}, only |-> {},
          failOn |-> "", all |-> FALSE, format |-> "terminal"]
WithFile(i, place, file) == [i EXCEPT !.files[place] = file]

\* Runs that reach the daemon.
MCScans == {
  [Plain EXCEPT !.failOn = "HIGH"],
  WithFile([Plain EXCEPT !.format = "json", !.ignore = {W(2, "lower"), W(5, "spaced"), W(0, "empty")}],
    "home", [DefaultFile EXCEPT !.ignore = {W(1, "lower"), W(9, "plain")}, !.failOn = "CRITICAL",
                                !.restart = 6, !.large = 5]),
  WithFile([Plain EXCEPT !.command = "security", !.failOn = "none", !.only = {W(15, "plain")}],
    "user", [DefaultFile EXCEPT !.failOn = "LOW"]),
  [Plain EXCEPT !.command = "images", !.format = "bad"],
  WithFile([Plain EXCEPT !.command = "report", !.format = "json", !.failOn = "CRITICAL"],
    "project", [DefaultFile EXCEPT !.ignore = {W(r, "plain") : r \in {2, 4, 5, 6, 9}}])}

\* Runs that end before.
MCMistakes == {
  [Plain EXCEPT !.explicit = TRUE],
  [Plain EXCEPT !.ignore = {W(0, "plain")}],
  [Plain EXCEPT !.only = {W(0, "plain")}],
  [Plain EXCEPT !.format = "bad"],
  [Plain EXCEPT !.command = "report", !.failOn = "unknown"],
  WithFile(WithFile(Plain, "project", [Absent EXCEPT !.kind = "broken"]), "home", DefaultFile),
  WithFile(Plain, "user", [DefaultFile EXCEPT !.ignore = {W(1, "spaced")}]),
  WithFile(Plain, "user", [DefaultFile EXCEPT !.ignore = {W(0, "plain")}]),
  WithFile(Plain, "user", [DefaultFile EXCEPT !.restart = -1])}

MCInvocations == MCScans \cup MCMistakes

\* The machines considered: the tag on the image c1 runs, moved to a new one or
\* gone; c2 not there yet, stopped or up.  What runs on i1 leaves i2 to nobody.
MCInit ==
  /\ inv \in Invocations
  /\ ctr \in {"c1" :> "running" @@ "c2" :> s :
       s \in IF inv.failOn = "HIGH" THEN {"future", "exited", "running"} ELSE {"exited"}}
  /\ joined = Attached
  /\ runsOn = [c \in Containers |-> "i1"]
  /\ tag \in IF inv.failOn = "HIGH" THEN [Tags -> Images \cup {NoImage}] ELSE [Tags -> {"i1"}]
  /\ img = Images /\ vol = Volumes /\ net = Networks /\ young = {}
  /\ Init

MCSpec == MCInit /\ [][Next]_vars /\ WF_vars(Run)
=============================================================================
