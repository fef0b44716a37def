------------------------------ MODULE MCPanel ------------------------------
(***************************************************************************)
(* Two toggles, two ages, and runs of the CLI that succeed, that remove    *)
(* only some of the plan, and that fail.  No bound on how long the user    *)
(* goes on: only MaxPreviews, how many previews may be in flight when one  *)
(* more starts, and one Done at a time.                                    *)
(***************************************************************************)
EXTENDS CleanupPanel

CONSTANT MaxPreviews

Good == [found |-> TRUE, launched |-> TRUE, status |-> 0, blames |-> FALSE, output |-> "document"]
MCEndings == {Good, [Good EXCEPT !.status = 1],
              [Good EXCEPT !.status = 10, !.blames = TRUE, !.output = "none"]}

Bounded == Len(previews') <= MaxPreviews /\ refreshes' <= 1

MCNext == (UserActs \/ AnswerDialog \/ Store \/ Returns) /\ Bounded

MCFairness ==
  WF_vars(PreviewReturns) /\ WF_vars(ApplyReturns) /\ WF_vars(DoneContinues /\ Bounded)

MCSpec == Init /\ [][MCNext]_vars /\ MCFairness
=============================================================================
