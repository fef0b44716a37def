---------------------------- MODULE Docker_proofs ----------------------------
(***************************************************************************)
(* What every step of the other users of a daemon keeps.  The proofs about *)
(* the runs that share one with them rest on it.                           *)
(***************************************************************************)
EXTENDS Docker, FiniteSetTheorems, TLAPS

\* The other users keep the daemon's types.
LEMMA UserStepType ==
  ASSUME DockerTypeOK, UserStep
  PROVE  DockerTypeOK'
<1> USE DockerAssumption DEF DockerTypeOK, Spend, Keys, Kinds, Ids
<1>1. ASSUME NEW c \in Containers, UserCreate(c)
      PROVE  DockerTypeOK'
  BY <1>1 DEF UserCreate, Status, Stopped, Active
<1>2. ASSUME NEW c \in Containers, UserStart(c) \/ UserStop(c) \/ UserRemove(c)
      PROVE  DockerTypeOK'
  BY <1>2 DEF UserStart, UserStop, UserRemove, Status, Stopped, Active
<1>3. ASSUME NEW t \in Tags, NEW i \in Images, UserTag(t, i)
      PROVE  DockerTypeOK'
  BY <1>3 DEF UserTag
<1>4. ASSUME NEW v \in Volumes, UserVolume(v)
      PROVE  DockerTypeOK'
  BY <1>4 DEF UserVolume
<1>5. ASSUME NEW n \in Networks, UserDropNetwork(n)
      PROVE  DockerTypeOK'
  BY <1>5 DEF UserDropNetwork, NetworkRemove
<1>6. ASSUME NEW c \in Containers, NEW n \in Networks, UserConnect(c, n) \/ UserDisconnect(c, n)
      PROVE  DockerTypeOK'
  BY <1>6 DEF UserConnect, UserDisconnect
<1>7. QED
  BY <1>1, <1>2, <1>3, <1>4, <1>5, <1>6 DEF UserStep

\* What a step of theirs does to a container that is there: it keeps its image, and
\* stays or goes; none goes back to not having been.
LEMMA UserStepKeeps ==
  ASSUME DockerTypeOK, UserStep, NEW c \in Containers, Live(c)
  PROVE  runsOn'[c] = runsOn[c] /\ ctr'[c] # "future"
<1> USE DEF DockerTypeOK, Live
<1>1. ASSUME NEW d \in Containers, UserCreate(d)
      PROVE  runsOn'[c] = runsOn[c] /\ ctr'[c] # "future"
  BY <1>1 DEF UserCreate
<1>2. ASSUME NEW d \in Containers, UserStart(d) \/ UserStop(d) \/ UserRemove(d)
      PROVE  runsOn'[c] = runsOn[c] /\ ctr'[c] # "future"
  BY <1>2 DEF UserStart, UserStop, UserRemove
<1>3. ASSUME NEW t \in Tags, NEW i \in Images, UserTag(t, i)
      PROVE  runsOn'[c] = runsOn[c] /\ ctr'[c] # "future"
  BY <1>3 DEF UserTag
<1>4. ASSUME NEW v \in Volumes, UserVolume(v)
      PROVE  runsOn'[c] = runsOn[c] /\ ctr'[c] # "future"
  BY <1>4 DEF UserVolume
<1>5. ASSUME NEW n \in Networks, UserDropNetwork(n)
      PROVE  runsOn'[c] = runsOn[c] /\ ctr'[c] # "future"
  BY <1>5 DEF UserDropNetwork, NetworkRemove
<1>6. ASSUME NEW d \in Containers, NEW n \in Networks, UserConnect(d, n) \/ UserDisconnect(d, n)
      PROVE  runsOn'[c] = runsOn[c] /\ ctr'[c] # "future"
  BY <1>6 DEF UserConnect, UserDisconnect
<1>7. QED
  BY <1>1, <1>2, <1>3, <1>4, <1>5, <1>6 DEF UserStep

-----------------------------------------------------------------------------
(* Counting down. *)

\* A finite set that loses something and gains nothing has fewer elements.
LEMMA Fewer ==
  ASSUME NEW S, IsFiniteSet(S), NEW T, T \subseteq S, NEW x \in S, x \notin T
  PROVE  Cardinality(T) < Cardinality(S)
<1>1. /\ IsFiniteSet(T) /\ Cardinality(T) <= Cardinality(S)
      /\ Cardinality(S) = Cardinality(T) => S = T
  BY FS_Subset
<1>2. Cardinality(S) \in Nat /\ Cardinality(T) \in Nat
  BY <1>1, FS_CardinalityType
<1> QED BY <1>1, <1>2
==============================================================================
