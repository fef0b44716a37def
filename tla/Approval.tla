------------------------------ MODULE Approval ------------------------------
(***************************************************************************)
(* What a cleanup promises, whatever happens around it: one set of things  *)
(* is agreed to, once, before anything is asked for; only what was agreed  *)
(* to is asked for; only what was asked for goes, and each thing at most   *)
(* once.  When the run is over nothing more is asked for, though what it   *)
(* had asked for may still go.                                             *)
(* This is the header comment of internal/cleanup/cleanup.go: "the plan is *)
(* ... what the user approves.  Apply only ever executes a plan that       *)
(* already exists."                                                        *)
(***************************************************************************)
CONSTANT Things

VARIABLES
  phase,    \* "open", then "agreed" at most once, then "over"
  agreed,   \* what may go
  waiting,  \* what was asked for and neither went nor was refused
  gone      \* what went

vars == <<phase, agreed, waiting, gone>>

TypeOK ==
  /\ phase \in {"open", "agreed", "over"}
  /\ agreed \subseteq Things
  /\ waiting \subseteq agreed \ gone
  /\ gone \subseteq agreed

Init == phase = "open" /\ agreed = {} /\ waiting = {} /\ gone = {}

Agree ==
  /\ phase = "open" /\ phase' = "agreed"
  /\ agreed' \in SUBSET Things
  /\ UNCHANGED <<waiting, gone>>

Ask ==
  /\ phase = "agreed"
  /\ \E t \in agreed \ (waiting \cup gone) : waiting' = waiting \cup {t}
  /\ UNCHANGED <<phase, agreed, gone>>

Settle ==
  /\ \E t \in waiting :
       /\ waiting' = waiting \ {t}
       /\ gone' \in {gone, gone \cup {t}}
  /\ UNCHANGED <<phase, agreed>>

Close ==
  /\ phase # "over" /\ phase' = "over"
  /\ UNCHANGED <<agreed, waiting, gone>>

Next == Agree \/ Ask \/ Settle \/ Close

Spec == Init /\ [][Next]_vars
============================================================================
