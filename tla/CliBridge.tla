----------------------------- MODULE CliBridge -----------------------------
(***************************************************************************)
(* How the menu bar app reads a run of the doctordock binary               *)
(* (Core/DoctorDockCLI.swift): run, decode and checkSchema in one.         *)
(*                                                                         *)
(* Both pipes are read to their end before the deadline starts.  doctordock *)
(* closes its pipes by exiting, so the deadline has nothing left to wait   *)
(* for: that a run ends at all rests on the CLI's own --timeout.           *)
(***************************************************************************)
EXTENDS Naturals

\* A way a run may go.  What was never started has status 0 and no output.
Ending == [
  found : BOOLEAN,       \* resolveBinary found an executable
  launched : BOOLEAN,    \* process.run did not throw
  status : {0, 1, 2, 3, 10},
  blames : BOOLEAN,      \* stderr speaks of the Docker daemon
  output : {"none", "garbage", "other schema", "document"}]

Failures == {"binaryNotFound", "commandFailed", "dockerUnreachable",
             "decoding", "incompatibleSchema"}

\* Mutant: every exit code but 0 is a failure.
AnyExitFails(e) == e.status # 0

\* Exits 1, 2 and 3 come with a complete document: only 10 is the tool failing.
ToolFailed(e) == e.status = 10

\* What the output decodes to.
Decoded(output) ==
  CASE output = "none"         -> "commandFailed"
    [] output = "garbage"      -> "decoding"
    [] output = "other schema" -> "incompatibleSchema"
    [] output = "document"     -> "ok"

RunOutcome(e) ==
  CASE ~e.found                -> "binaryNotFound"
    [] e.found /\ ~e.launched  -> "commandFailed"
    [] e.launched /\ ToolFailed(e) -> IF e.blames THEN "dockerUnreachable" ELSE "commandFailed"
    [] OTHER                   -> Decoded(e.output)
=============================================================================
