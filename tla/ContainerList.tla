--------------------------- MODULE ContainerList ---------------------------
(***************************************************************************)
(* What docker.Client.ListContainers promises: every container of the list *)
(* described once, by what its own inspect said or by the list alone, and  *)
(* nothing returned before all are.                                        *)
(***************************************************************************)
EXTENDS Naturals

CONSTANTS
  Described(_),   \* what may be said of the i-th container of the list
  Blank           \* a slot of the result that is not written yet

VARIABLES n, out, returned

Init == out = [i \in 1..n |-> Blank] /\ returned = FALSE

Describe(i) ==
  /\ out[i] = Blank /\ ~returned
  /\ \E d \in Described(i) : out' = [out EXCEPT ![i] = d]
  /\ UNCHANGED <<n, returned>>

Return ==
  /\ \A i \in 1..n : out[i] # Blank
  /\ returned' = TRUE
  /\ UNCHANGED <<n, out>>

Next == Return \/ \E i \in 1..n : Describe(i)

Spec == Init /\ [][Next]_<<n, out, returned>> /\ WF_<<n, out, returned>>(Next)
=============================================================================
