---------------------------- MODULE MCScanStore ----------------------------
(***************************************************************************)
(* Two critical findings, a score that can fall by ten points or by four,  *)
(* and one task each for init, the timer and the user.                     *)
(***************************************************************************)
EXTENDS ScanStore

MCReports == [score : {50, 54, 60}, criticals : SUBSET Criticals]
=============================================================================
