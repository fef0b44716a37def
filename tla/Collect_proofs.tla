--------------------------- MODULE Collect_proofs ---------------------------
(***************************************************************************)
(* What holds of the pool and of the cache for any list of containers, any *)
(* images, any size of the pool and any inspects that fail.                *)
(***************************************************************************)
EXTENDS Collect, FiniteSetTheorems, TLAPS

Busy == {"inspect", "lookup", "ask", "store", "finish"}

Types ==
  /\ n \in 0..MaxListed /\ next \in 1..(n + 1)
  /\ sem \in Int
  /\ stage \in [Index -> Stages]
  /\ local \in [Index -> Users]
  /\ cache \in [Images -> Users]
  /\ out \in [1..n -> Int \X (Users \cup {"blank", "partial"})]
  /\ returned \in BOOLEAN
  /\ refused \subseteq Images

\* The semaphore counts the work in flight, which is what the loop has started.
PoolInv ==
  /\ \A i \in Index : stage[i] = "waiting" <=> i >= next
  /\ ~Inline => sem = Cardinality(InFlight) /\ sem <= Workers

\* What has been told of an image, by whatever way it came, is its own answer,
\* or root if an inspect of it failed.
Told(m, user) == user = Answer(m) \/ (user = "root" /\ m \in refused)

\* What a slot may say of the i-th container.
Says(i) == {Blank, Partial(i), <<i, Effective(i)>>} \cup
           {s \in {<<i, "root">>} : ImageOf[i] \in refused}

CacheInv ==
  /\ \A m \in Images : cache[m] # NotCached => Told(m, cache[m])
  /\ \A i \in Index : stage[i] = "store" => Told(ImageOf[i], local[i])
  /\ \A i \in Index : stage[i] \in {"ask", "store"} => ConfigUser[i] = ""
  /\ \A i \in 1..n : out[i] \in Says(i)

\* ListContainers returns when all its slots are written.
ReturnInv ==
  /\ \A i \in 1..n : stage[i] \in {"finish", "released", "done"} => out[i] # Blank
  /\ returned => next = n + 1 /\ \A i \in 1..n : stage[i] = "done"

Inv == Types /\ PoolInv /\ CacheInv /\ ReturnInv

-----------------------------------------------------------------------------
LEMMA InFlightIs ==
  ASSUME stage \in [Index -> Stages]
  PROVE  InFlight = {i \in Index : stage[i] \in Busy} /\ IsFiniteSet(InFlight)
<1>1. InFlight = {i \in Index : stage[i] \in Busy}
  BY DEF InFlight, Stages, Busy
<1>2. IsFiniteSet(Index)
  BY FS_Interval, CollectAssumption DEF CollectAssumption, Index
<1>3. QED  BY <1>1, <1>2, FS_Subset

LEMMA ImageTypes ==
  ASSUME NEW i \in Index
  PROVE  /\ ImageOf[i] \in Images
         /\ Answer(ImageOf[i]) \in Users \ {NotCached}
         /\ Effective(i) \in Users \ {NotCached}
         /\ ConfigUser[i] \in Users \ {NotCached}
<1>1. ImageOf[i] \in Images
  BY DEF Index, Images
<1>2. ConfigUser[i] # NotCached /\ ImageUser[ImageOf[i]] # NotCached
  BY <1>1, CollectAssumption DEF CollectAssumption, Index
<1>3. "root" # NotCached
  BY DEF NotCached
<1>4. QED  BY <1>1, <1>2, <1>3 DEF Answer, Effective, Users

LEMMA InvInit == Init => Inv
<1> SUFFICES ASSUME Init PROVE Inv
  OBVIOUS
<1>1. MaxListed \in Nat /\ Workers \in Nat \ {0}
  BY CollectAssumption DEF CollectAssumption
<1>2. n \in 0..MaxListed /\ next = 1 /\ sem = 0 /\ returned = FALSE
  BY DEF Init
<1>3. Types
  <2>1. stage \in [Index -> Stages] /\ local \in [Index -> Users]
    BY DEF Init, Stages, Users
  <2>2. cache \in [Images -> Users] /\ refused \subseteq Images
    BY DEF Init, Users
  <2>3. out \in [1..n -> Int \X (Users \cup {"blank", "partial"})]
    <3>1. Blank \in Int \X (Users \cup {"blank", "partial"})
      BY DEF Blank
    <3>2. QED  BY <3>1 DEF Init
  <2>4. next \in 1..(n + 1)
    BY <1>1, <1>2
  <2>5. returned \in BOOLEAN
    BY DEF Init
  <2>6. QED  BY <1>2, <2>1, <2>2, <2>3, <2>4, <2>5 DEF Types
<1>4. \A i \in Index : stage[i] = "waiting" /\ i >= next
  <2>1. \A i \in Index : stage[i] = "waiting"
    BY DEF Init
  <2>2. \A i \in Index : i >= 1
    BY <1>1 DEF Index
  <2>3. QED  BY <1>2, <2>1, <2>2
<1>5. PoolInv
  <2>1. InFlight = {}
    BY <1>4 DEF InFlight, Stages
  <2>2. QED  BY <1>1, <1>2, <1>4, <2>1, FS_EmptySet DEF PoolInv
<1>6. CacheInv
  BY <1>4 DEF Init, CacheInv, Says
<1>7. ReturnInv
  <2>1. 1..n \subseteq Index
    BY <1>1, <1>2 DEF Index
  <2>2. QED  BY <1>2, <1>4, <2>1 DEF ReturnInv
<1>8. QED  BY <1>3, <1>5, <1>6, <1>7 DEF Inv

-----------------------------------------------------------------------------
(* The pool. *)

\* A stage that moves within the work in flight leaves the pool alone.
LEMMA StaysInFlight ==
  ASSUME Types, PoolInv, NEW i \in Index, NEW s \in Busy, stage[i] \in Busy,
         Goes(i, s), UNCHANGED <<n, next, sem>>
  PROVE  PoolInv' /\ stage' \in [Index -> Stages]
<1>1. stage' \in [Index -> Stages]
  BY DEF Types, Goes, Stages, Busy
<1>2. InFlight' = InFlight
  BY <1>1 DEF Types, Goes, InFlight, Stages, Busy
<1>3. \A k \in Index : stage'[k] = "waiting" <=> stage[k] = "waiting"
  BY DEF Types, Goes, Busy
<1>4. QED  BY <1>1, <1>2, <1>3 DEF PoolInv, Inline, Types

\* The loop starts the next: one more in flight, one more token taken.
LEMMA SpawnKeepsPool ==
  ASSUME Types, PoolInv, Spawn
  PROVE  PoolInv' /\ stage' \in [Index -> Stages]
<1>1. next \in Index
  BY CollectAssumption DEF CollectAssumption, Spawn, Types, Index
<1>2. stage' \in [Index -> Stages]
  BY <1>1 DEF Spawn, Goes, Types, Stages
<1>3. InFlight' = InFlight \cup {next} /\ next \notin InFlight
  BY <1>1, <1>2 DEF Spawn, Goes, Types, PoolInv, InFlight, Stages
<1>4. IsFiniteSet(InFlight)
  BY InFlightIs DEF Types
<1>5. Cardinality(InFlight') = Cardinality(InFlight) + 1
  BY <1>3, <1>4, FS_AddElement
<1>6. sem' = Cardinality(InFlight') /\ sem' <= Workers
  BY <1>5, CollectAssumption DEF CollectAssumption, Spawn, PoolInv, Types
<1>7. \A k \in Index : stage'[k] = "waiting" <=> k >= next'
  BY <1>1 DEF Spawn, Goes, Types, PoolInv, Index
<1>8. QED  BY <1>2, <1>6, <1>7 DEF PoolInv

LEMMA CallInlineKeepsPool ==
  ASSUME Types, PoolInv, CallInline
  PROVE  PoolInv' /\ stage' \in [Index -> Stages]
<1>1. next \in Index
  BY CollectAssumption DEF CollectAssumption, CallInline, Types, Index
<1>2. stage' \in [Index -> Stages]
  BY <1>1 DEF CallInline, Goes, Types, Stages
<1>3. \A k \in Index : stage'[k] = "waiting" <=> k >= next'
  BY <1>1 DEF CallInline, Goes, Types, PoolInv, Index
<1>4. QED  BY <1>2, <1>3 DEF PoolInv, Inline, CallInline

LEMMA ReleaseKeepsPool ==
  ASSUME Types, PoolInv, NEW i \in Index, Release(i)
  PROVE  PoolInv' /\ stage' \in [Index -> Stages]
<1>1. stage' \in [Index -> Stages]
  BY DEF Release, Goes, Types, Stages
<1>2. InFlight' = InFlight \ {i} /\ i \in InFlight
  BY <1>1 DEF Release, Goes, Types, InFlight, Stages
<1>3. IsFiniteSet(InFlight)
  BY InFlightIs DEF Types
<1>4. Cardinality(InFlight') = Cardinality(InFlight) - 1
  BY <1>2, <1>3, FS_RemoveElement
<1>5. ~Inline => sem' = Cardinality(InFlight') /\ sem' <= Workers
  BY <1>4, CollectAssumption DEF CollectAssumption, Release, PoolInv, Types
<1>6. \A k \in Index : stage'[k] = "waiting" <=> stage[k] = "waiting"
  BY DEF Release, Goes, Types
<1>7. QED  BY <1>1, <1>5, <1>6 DEF PoolInv, Inline, Release

LEMMA DoneKeepsPool ==
  ASSUME Types, PoolInv, NEW i \in Index, Done(i)
  PROVE  PoolInv' /\ stage' \in [Index -> Stages]
<1>1. stage' \in [Index -> Stages]
  BY DEF Done, Goes, Types, Stages
<1>2. InFlight' = InFlight
  BY <1>1 DEF Done, Goes, Types, InFlight, Stages
<1>3. \A k \in Index : stage'[k] = "waiting" <=> stage[k] = "waiting"
  BY DEF Done, Goes, Types
<1>4. QED  BY <1>1, <1>2, <1>3 DEF PoolInv, Inline, Done

-----------------------------------------------------------------------------
(* The slots. *)

\* What is under way has been started, so it has a slot.
LEMMA StartedHasSlot ==
  ASSUME Types, PoolInv, NEW i \in Index, stage[i] # "waiting"
  PROVE  i \in 1..n
BY CollectAssumption DEF CollectAssumption, Types, PoolInv, Index

LEMMA SlotsAreIndices ==
  ASSUME Types
  PROVE  1..n \subseteq Index
BY CollectAssumption DEF CollectAssumption, Types, Index

\* A goroutine writes its own slot and no other.
LEMMA WriteStep ==
  ASSUME Types, NEW i \in 1..n, NEW user \in Users \cup {"partial"}, Write(i, user)
  PROVE  /\ out' \in [1..n -> Int \X (Users \cup {"blank", "partial"})]
         /\ out'[i] = <<i, user>> /\ out'[i] # Blank
         /\ \A k \in 1..n : k # i => out'[k] = out[k]
<1>1. i \in Int /\ i # 0
  BY DEF Types
<1>2. <<i, user>> \in Int \X (Users \cup {"blank", "partial"}) /\ <<i, user>> # Blank
  BY <1>1 DEF Blank
<1>3. QED  BY <1>2 DEF Write, Types

LEMMA InspectStep ==
  ASSUME Inv, NEW i \in Index, Inspect(i)
  PROVE  Inv'
<1>1. i \in 1..n
  BY StartedHasSlot DEF Inv, Inspect
<1>2. PoolInv' /\ stage' \in [Index -> Stages]
  <2>1. CASE Goes(i, "lookup")
    BY <2>1, StaysInFlight DEF Inv, Inspect, Busy
  <2>2. CASE Goes(i, "finish")
    BY <2>2, StaysInFlight DEF Inv, Inspect, Busy
  <2>3. QED  BY <2>1, <2>2 DEF Inspect
<1>3. CASE Goes(i, "lookup") /\ UNCHANGED out
  <2>1. Types'
    BY <1>2, <1>3 DEF Inv, Types, Inspect
  <2>2. CacheInv'
    BY <1>3 DEF Inv, Types, CacheInv, Inspect, Goes, Says, Told
  <2>3. ReturnInv'
    BY <1>1, <1>3 DEF Inv, Types, ReturnInv, Inspect, Goes, Index
  <2>4. QED  BY <1>2, <2>1, <2>2, <2>3 DEF Inv
<1>4. CASE Write(i, "partial") /\ Goes(i, "finish")
  <2>1. /\ out' \in [1..n -> Int \X (Users \cup {"blank", "partial"})]
        /\ out'[i] = <<i, "partial">> /\ out'[i] # Blank
        /\ \A k \in 1..n : k # i => out'[k] = out[k]
    BY <1>1, <1>4, WriteStep DEF Inv
  <2>2. Types'
    BY <1>2, <2>1 DEF Inv, Types, Inspect
  <2>3. CacheInv'
    BY <1>4, <2>1 DEF Inv, Types, CacheInv, Inspect, Goes, Says, Told, Partial
  <2>4. ReturnInv'
    BY <1>1, <1>4, <2>1 DEF Inv, Types, ReturnInv, Inspect, Goes, Index
  <2>5. QED  BY <1>2, <2>2, <2>3, <2>4 DEF Inv
<1>5. QED  BY <1>3, <1>4 DEF Inspect

\* A slot that was told what the cache or an answer said.
LEMMA TellStep ==
  ASSUME Inv, NEW i \in Index, stage[i] \in {"lookup", "store"}, NEW user \in Users,
         user = Effective(i) \/ (user = "root" /\ ImageOf[i] \in refused),
         Write(i, user), Goes(i, "finish"),
         UNCHANGED <<n, next, sem, local, returned, refused>>,
         cache' \in [Images -> Users],
         \A m \in Images : cache'[m] # NotCached => Told(m, cache'[m])
  PROVE  Inv'
<1>1. i \in 1..n
  BY StartedHasSlot DEF Inv
<1>2. PoolInv' /\ stage' \in [Index -> Stages]
  BY StaysInFlight DEF Inv, Busy
<1>3. /\ out' \in [1..n -> Int \X (Users \cup {"blank", "partial"})]
      /\ out'[i] = <<i, user>> /\ out'[i] # Blank
      /\ \A k \in 1..n : k # i => out'[k] = out[k]
  BY <1>1, WriteStep DEF Inv
<1>4. Types'
  BY <1>2, <1>3 DEF Inv, Types
<1>5. CacheInv'
  <2>1. \A k \in 1..n : out'[k] \in Says(k)
    BY <1>3 DEF Inv, CacheInv, Says
  <2>2. \A k \in Index : stage'[k] \in {"ask", "store"} => stage'[k] = stage[k]
    BY DEF Goes, Inv, Types
  <2>3. QED  BY <2>1, <2>2 DEF Inv, CacheInv, Says, Told
<1>6. ReturnInv'
  BY <1>1, <1>3 DEF Inv, Types, ReturnInv, Goes, Index
<1>7. QED  BY <1>2, <1>4, <1>5, <1>6 DEF Inv

LEMMA LookupStep ==
  ASSUME Inv, NEW i \in Index, Lookup(i)
  PROVE  Inv'
<1> DEFINE known == IF ConfigUser[i] # "" THEN ConfigUser[i] ELSE cache[ImageOf[i]]
<1>1. i \in 1..n
  BY StartedHasSlot DEF Inv, Lookup
<1>2. CASE known # NotCached /\ Write(i, known) /\ Goes(i, "finish")
  <2>1. known \in Users
    BY ImageTypes DEF Inv, Types
  <2>2. known = Effective(i) \/ (known = "root" /\ ImageOf[i] \in refused)
    BY <1>2, ImageTypes DEF Inv, CacheInv, Told, Effective
  <2>3. QED  BY <1>2, <2>1, <2>2, TellStep DEF Lookup, Inv, Types, CacheInv
<1>3. CASE known = NotCached /\ Goes(i, "ask") /\ UNCHANGED out
  <2>1. PoolInv' /\ stage' \in [Index -> Stages]
    BY <1>3, StaysInFlight DEF Inv, Lookup, Busy
  <2>2. Types'
    BY <1>3, <2>1 DEF Inv, Types, Lookup
  <2>3. CacheInv'
    <3>1. ConfigUser[i] = ""
      BY <1>3, ImageTypes
    <3>2. QED  BY <1>3, <3>1 DEF Inv, Types, CacheInv, Lookup, Goes, Says, Told
  <2>4. ReturnInv'
    <3>1. UNCHANGED <<n, next, returned, out>> /\ stage[i] = "lookup"
      BY <1>3 DEF Lookup
    <3>2. 1..n \subseteq Index
      BY SlotsAreIndices DEF Inv
    <3>3. \A k \in 1..n : stage'[k] = IF k = i THEN "ask" ELSE stage[k]
      BY <1>3, <3>2 DEF Inv, Types, Goes
    <3>4. QED  BY <1>1, <3>1, <3>3 DEF Inv, ReturnInv
  <2>5. QED  BY <2>1, <2>2, <2>3, <2>4 DEF Inv
<1>4. QED  BY <1>2, <1>3 DEF Lookup

LEMMA AskStep ==
  ASSUME Inv, NEW i \in Index, Ask(i)
  PROVE  Inv'
<1>1. i \in 1..n
  BY StartedHasSlot DEF Inv, Ask
<1>2. PoolInv' /\ stage' \in [Index -> Stages]
  BY StaysInFlight DEF Inv, Ask, Busy
<1>3. /\ local' \in [Index -> Users] /\ refused' \subseteq Images
      /\ refused \subseteq refused' /\ Told(ImageOf[i], local[i])'
      /\ \A k \in Index : k # i => local'[k] = local[k]
  <2>1. ImageOf[i] \in Images /\ Answer(ImageOf[i]) \in Users /\ "root" \in Users
    BY ImageTypes DEF Users
  <2>2. QED  BY <2>1 DEF Ask, Inv, Types, Told, Answer
<1>4. Types'
  BY <1>2, <1>3 DEF Inv, Types, Ask
<1>5. CacheInv'
  <2>1. \A k \in Index : stage'[k] \in {"ask", "store"} =>
          ConfigUser[k] = "" /\ (k = i \/ stage'[k] = stage[k])
    BY DEF Ask, Goes, Inv, Types, CacheInv
  <2>2. \A k \in Index : stage'[k] = "store" => Told(ImageOf[k], local[k])'
    BY <1>3, <2>1 DEF Inv, CacheInv, Told, Answer
  <2>3. QED  BY <1>3, <2>1, <2>2 DEF Ask, Inv, CacheInv, Says, Told, Answer
<1>6. ReturnInv'
  BY <1>1 DEF Inv, Types, ReturnInv, Ask, Goes, Index
<1>7. QED  BY <1>2, <1>4, <1>5, <1>6 DEF Inv

LEMMA StoreStep ==
  ASSUME Inv, NEW i \in Index, Store(i)
  PROVE  Inv'
<1>0. stage[i] = "store" /\ ConfigUser[i] = ""
  BY DEF Store, Inv, CacheInv
<1>1. local[i] \in Users /\ Told(ImageOf[i], local[i]) /\ ImageOf[i] \in Images
  BY <1>0, ImageTypes DEF Inv, Types, CacheInv
<1>2. local[i] = Effective(i) \/ (local[i] = "root" /\ ImageOf[i] \in refused)
  BY <1>0, <1>1 DEF Told, Effective
<1>3. /\ cache' \in [Images -> Users]
      /\ \A m \in Images : cache'[m] # NotCached => Told(m, cache'[m])
  BY <1>1 DEF Store, Inv, Types, CacheInv, Told
<1>4. QED  BY <1>0, <1>1, <1>2, <1>3, TellStep DEF Store

LEMMA LeaveStep ==
  ASSUME Inv, NEW i \in Index, Release(i) \/ Done(i)
  PROVE  Inv'
<1>1. i \in 1..n
  BY StartedHasSlot DEF Inv, Release, Done
<1>2. PoolInv' /\ stage' \in [Index -> Stages]
  BY ReleaseKeepsPool, DoneKeepsPool DEF Inv
<1>3. Types'
  BY <1>2 DEF Inv, Types, Release, Done
<1>4. CacheInv'
  BY DEF Inv, Types, CacheInv, Release, Done, Goes, Says, Told
<1>5. ReturnInv'
  <2>1. 1..n \subseteq Index
    BY SlotsAreIndices DEF Inv
  <2>2. \A k \in 1..n : stage'[k] = IF k = i THEN stage'[i] ELSE stage[k]
    BY <2>1 DEF Inv, Types, Release, Done, Goes
  <2>3. stage[i] \in {"finish", "released"} /\ UNCHANGED <<n, next, returned, out>>
    BY DEF Release, Done
  <2>4. QED  BY <1>1, <2>2, <2>3 DEF Inv, ReturnInv
<1>6. QED  BY <1>2, <1>3, <1>4, <1>5 DEF Inv

LEMMA LoopStep ==
  ASSUME Inv, Spawn \/ CallInline
  PROVE  Inv'
<1>1. PoolInv' /\ stage' \in [Index -> Stages]
  BY SpawnKeepsPool, CallInlineKeepsPool DEF Inv
<1>2. next \in Index /\ next \in 1..n /\ n \in Nat
  BY CollectAssumption DEF CollectAssumption, Inv, Types, Spawn, CallInline, Index
<1>3. Types'
  BY <1>1, <1>2 DEF Inv, Types, Spawn, CallInline
<1>4. CacheInv'
  BY <1>2 DEF Inv, Types, CacheInv, Spawn, CallInline, Goes, Says, Told
<1>5. ~returned
  BY <1>2 DEF Inv, ReturnInv
<1>6. ReturnInv'
  <2>1. 1..n \subseteq Index
    BY SlotsAreIndices DEF Inv
  <2>2. \A k \in 1..n : stage'[k] = IF k = next THEN "inspect" ELSE stage[k]
    BY <1>2, <2>1 DEF Inv, Types, Spawn, CallInline, Goes
  <2>3. UNCHANGED <<n, returned, out>>
    BY DEF Spawn, CallInline
  <2>4. QED  BY <1>5, <2>2, <2>3 DEF Inv, ReturnInv
<1>7. QED  BY <1>1, <1>3, <1>4, <1>6 DEF Inv

LEMMA ReturnStep ==
  ASSUME Inv, Return
  PROVE  Inv'
<1>1. next = n + 1
  BY CollectAssumption DEF CollectAssumption, Return, Inv, Types
<1>2. PoolInv'
  BY DEF Return, Inv, PoolInv, Inline, InFlight
<1>3. Types' /\ CacheInv'
  BY DEF Return, Inv, Types, CacheInv, Says, Told
<1>4. ReturnInv'
  BY <1>1 DEF Return, Inv, ReturnInv
<1>5. QED  BY <1>2, <1>3, <1>4 DEF Inv

LEMMA InvNext == Inv /\ [Next]_vars => Inv'
<1> SUFFICES ASSUME Inv, [Next]_vars PROVE Inv'
  OBVIOUS
<1>1. CASE UNCHANGED vars
  BY <1>1 DEF vars, Inv, Types, PoolInv, CacheInv, ReturnInv, Inline, InFlight, Says, Told
<1>2. CASE Spawn \/ CallInline
  BY <1>2, LoopStep
<1>3. CASE Return
  BY <1>3, ReturnStep
<1>4. ASSUME NEW i \in Index, Work(i)
      PROVE  Inv'
  BY <1>4, InspectStep, LookupStep, AskStep, StoreStep, LeaveStep DEF Work
<1>5. QED  BY <1>1, <1>2, <1>3, <1>4 DEF Next, Finished

LEMMA InvHolds == Spec => []Inv
<1>1. QED  BY InvInit, InvNext, PTL DEF Spec

-----------------------------------------------------------------------------
LEMMA InvBounds ==
  ASSUME Inv
  PROVE  PoolBound
<1>1. CASE ~Inline
  BY <1>1 DEF Inv, PoolInv, PoolBound
<1>2. CASE Inline
  <2>1. \A i \in InFlight : i \in 1..n
    BY StartedHasSlot DEF Inv, InFlight
  <2>2. InFlight \subseteq {1}
    BY <1>2, <2>1 DEF Inline, Inv, Types
  <2>3. Cardinality(InFlight) <= Cardinality({1}) /\ Cardinality({1}) = 1
    BY <2>2, FS_Singleton, FS_Subset
  <2>4. IsFiniteSet(InFlight)
    BY InFlightIs DEF Inv, Types
  <2>5. Cardinality(InFlight) \in Nat
    BY <2>4, FS_CardinalityType
  <2>6. QED  BY <2>3, <2>5, CollectAssumption DEF CollectAssumption, PoolBound
<1>3. QED  BY <1>1, <1>2

\* forEach's pool never has more than Workers containers under inspection, for
\* a list of any length and a pool of any size, the list of one done by the
\* caller included.
THEOREM PoolBounded == Spec => []PoolBound
<1>1. QED  BY InvBounds, InvHolds, PTL

\* No container is said to run as root on another image's answer, whatever the
\* workers' critical sections interleave to: it does, or an inspect of its own
\* image failed.
THEOREM RootIsNoMistake == Spec => []RootOnlyIfSo
<1>1. ASSUME Inv PROVE RootOnlyIfSo
  <2>1. SUFFICES ASSUME NEW i \in 1..n, out[i] = <<i, "root">>, ConfigUser[i] # "root",
                        ImageOf[i] \notin refused
                 PROVE  ImageUser[ImageOf[i]] \in {"", "root"}
    BY DEF RootOnlyIfSo
  <2>2. i \in Int /\ i # 0
    BY <1>1 DEF Inv, Types
  <2>3. <<i, "root">> = <<i, Effective(i)>>
    <3>1. out[i] # Blank /\ out[i] # Partial(i)
      BY <2>1, <2>2 DEF Blank, Partial
    <3>2. out[i] \in Says(i)
      BY <1>1 DEF Inv, CacheInv
    <3>3. QED  BY <2>1, <3>1, <3>2 DEF Says
  <2>4. Effective(i) = "root"
    BY <2>3
  <2>5. QED  BY <2>1, <2>4 DEF Effective, Answer
<1>2. QED  BY <1>1, InvHolds, PTL

\* Where no inspect failed, what the pool returns is what inspecting one
\* container after the other would, for every list and every interleaving.
THEOREM PoolIsSequential == Spec => []SameAsSequential
<1>1. ASSUME Inv PROVE SameAsSequential
  BY <1>1 DEF Inv, Types, CacheInv, ReturnInv, SameAsSequential, Says
<1>2. QED  BY <1>1, InvHolds, PTL

-----------------------------------------------------------------------------
(* The cache. *)

At(m, stages) == {i \in Index : ImageOf[i] = m /\ stage[i] \in stages}

\* While an image is not cached, the asks sent are those whose answers have yet
\* to be stored; once it is cached, no more are added.
AskInv ==
  /\ asked \in [Images -> Nat]
  /\ \A m \in Images :
       /\ asked[m] + Cardinality(At(m, {"ask"})) <= Workers
       /\ cache[m] = NotCached => asked[m] = Cardinality(At(m, {"store"}))

LEMMA AtIsFinite ==
  ASSUME NEW m, NEW stages
  PROVE  IsFiniteSet(At(m, stages)) /\ Cardinality(At(m, stages)) \in Nat
<1>1. IsFiniteSet(Index)
  BY FS_Interval, CollectAssumption DEF CollectAssumption, Index
<1>2. IsFiniteSet(At(m, stages))
  BY <1>1, FS_Subset DEF At
<1>3. QED  BY <1>2, FS_CardinalityType

LEMMA AskInit == Init => AskInv
<1> SUFFICES ASSUME Init PROVE AskInv
  OBVIOUS
<1>1. \A m : At(m, {"ask"}) = {} /\ At(m, {"store"}) = {}
  BY DEF Init, At
<1>2. Workers \in Nat
  BY CollectAssumption DEF CollectAssumption
<1>3. asked = [m \in Images |-> 0]
  BY DEF Init
<1>4. \A m \in Images : /\ Cardinality(At(m, {"ask"})) = 0
                        /\ Cardinality(At(m, {"store"})) = 0
  BY <1>1, FS_EmptySet
<1>5. QED  BY <1>2, <1>3, <1>4 DEF AskInv

\* A step that neither asks nor stores, and sends nobody to ask.
LEMMA AskIsLeftAlone ==
  ASSUME AskInv, UNCHANGED <<asked, cache>>,
         \A i \in Index : stage'[i] # stage[i] =>
           {stage[i], stage'[i]} \cap {"ask", "store"} = {}
  PROVE  AskInv'
<1>1. \A m \in Images : At(m, {"ask"})' = At(m, {"ask"}) /\ At(m, {"store"})' = At(m, {"store"})
  BY DEF At
<1>2. QED  BY <1>1 DEF AskInv

\* Whoever goes to ask while the image is not cached is in flight with all who
\* asked before.
LEMMA LookupAsks ==
  ASSUME Inv, AskInv, NEW i \in Index, Lookup(i)
  PROVE  AskInv'
<1> DEFINE m == ImageOf[i]
           asking == At(m, {"ask"})
           storing == At(m, {"store"})
<1>1. stage[i] = "lookup" /\ UNCHANGED <<asked, cache>> /\ m \in Images
  BY ImageTypes DEF Lookup
<1>2. CASE Goes(i, "finish")
  BY <1>1, <1>2, AskIsLeftAlone DEF Goes, Inv, Types
<1>3. CASE Goes(i, "ask") /\ cache[m] = NotCached
  <2>1. /\ \A k \in Images : At(k, {"store"})' = At(k, {"store"})
        /\ \A k \in Images : k # m => At(k, {"ask"})' = At(k, {"ask"})
        /\ At(m, {"ask"})' = asking \cup {i}
    BY <1>1, <1>3 DEF At, Goes, Inv, Types
  <2>2. asking \cup {i} \cup storing \subseteq InFlight
    BY <1>1 DEF At, InFlight, Stages
  <2>3. /\ IsFiniteSet(InFlight) /\ IsFiniteSet(asking) /\ IsFiniteSet(storing)
        /\ Cardinality(asking) \in Nat /\ Cardinality(storing) \in Nat
    BY AtIsFinite, InFlightIs DEF Inv, Types
  <2>4. IsFiniteSet(asking \cup {i})
    BY <2>3, FS_AddElement
  <2>5. (asking \cup {i}) \cap storing = {}
    BY <1>1 DEF At
  <2>6. Cardinality(asking \cup {i} \cup storing) =
          Cardinality(asking \cup {i}) + Cardinality(storing)
    <3>1. Cardinality(asking \cup {i} \cup storing) =
            Cardinality(asking \cup {i}) + Cardinality(storing) - Cardinality({})
      BY <2>3, <2>4, <2>5, FS_Union
    <3>2. Cardinality(asking \cup {i}) \in Nat
      BY <2>4, FS_CardinalityType
    <3>3. QED  BY <2>3, <3>1, <3>2, FS_EmptySet
  <2>7. Cardinality(asking \cup {i} \cup storing) <= Cardinality(InFlight)
    BY <2>2, <2>3, FS_Subset
  <2>8. Cardinality(InFlight) <= Workers
    BY InvBounds DEF PoolBound
  <2>9. asked[m] = Cardinality(storing)
    BY <1>1, <1>3 DEF AskInv
  <2>10. asked[m] + Cardinality(asking \cup {i}) <= Workers
    <3>1. /\ Cardinality(InFlight) \in Nat
          /\ Cardinality(asking \cup {i}) \in Nat
          /\ Workers \in Nat
      BY <2>3, <2>4, FS_CardinalityType, CollectAssumption DEF CollectAssumption
    <3>2. QED  BY <2>3, <2>6, <2>7, <2>8, <2>9, <3>1
  <2>11. QED  BY <1>1, <2>1, <2>10 DEF AskInv
<1>4. Goes(i, "finish") \/ (Goes(i, "ask") /\ cache[m] = NotCached)
  BY ImageTypes DEF Lookup
<1>5. QED  BY <1>2, <1>3, <1>4

LEMMA AskAsks ==
  ASSUME Inv, AskInv, NEW i \in Index, Ask(i)
  PROVE  AskInv'
<1> DEFINE m == ImageOf[i]
           asking == At(m, {"ask"})
           storing == At(m, {"store"})
<1>1. /\ stage[i] = "ask" /\ Goes(i, "store") /\ m \in Images
      /\ UNCHANGED cache /\ asked' = [asked EXCEPT ![m] = @ + 1]
  BY ImageTypes DEF Ask
<1>2. /\ \A k \in Images : k # m => At(k, {"ask"})' = At(k, {"ask"})
                                /\ At(k, {"store"})' = At(k, {"store"})
      /\ At(m, {"ask"})' = asking \ {i} /\ i \in asking
      /\ At(m, {"store"})' = storing \cup {i} /\ i \notin storing
  BY <1>1 DEF At, Goes, Inv, Types
<1>3. /\ Cardinality(asking \ {i}) = Cardinality(asking) - 1
      /\ Cardinality(storing \cup {i}) = Cardinality(storing) + 1
      /\ Cardinality(asking) \in Nat /\ Cardinality(storing) \in Nat
  BY <1>2, AtIsFinite, FS_AddElement, FS_RemoveElement
<1>4. asked' \in [Images -> Nat] /\ asked'[m] = asked[m] + 1 /\ asked[m] \in Nat
  BY <1>1 DEF AskInv
<1>5. asked'[m] + Cardinality(asking \ {i}) <= Workers
  BY <1>1, <1>3, <1>4 DEF AskInv
<1>6. cache'[m] = NotCached => asked'[m] = Cardinality(storing \cup {i})
  BY <1>1, <1>3, <1>4 DEF AskInv
<1>7. \A k \in Images : k # m => asked'[k] = asked[k]
  BY <1>1 DEF AskInv
<1>8. QED  BY <1>1, <1>2, <1>4, <1>5, <1>6, <1>7 DEF AskInv

LEMMA StoreAsks ==
  ASSUME Inv, AskInv, NEW i \in Index, Store(i)
  PROVE  AskInv'
<1> DEFINE m == ImageOf[i]
<1>1. /\ stage[i] = "store" /\ Goes(i, "finish") /\ m \in Images
      /\ UNCHANGED asked /\ cache' = [cache EXCEPT ![m] = local[i]]
  BY ImageTypes DEF Store
<1>2. local[i] # NotCached
  BY <1>1, ImageTypes DEF Inv, CacheInv, Told, NotCached
<1>3. /\ \A k \in Images : k # m => At(k, {"store"})' = At(k, {"store"})
      /\ \A k \in Images : At(k, {"ask"})' = At(k, {"ask"})
  BY <1>1 DEF At, Goes, Inv, Types
<1>4. \A k \in Images : cache'[k] = NotCached => k # m /\ cache[k] = NotCached
  BY <1>1, <1>2 DEF Inv, Types
<1>5. QED  BY <1>1, <1>3, <1>4 DEF AskInv

LEMMA AskNext == Inv /\ AskInv /\ [Next]_vars => AskInv'
<1> SUFFICES ASSUME Inv, AskInv, [Next]_vars PROVE AskInv'
  OBVIOUS
<1>1. CASE UNCHANGED vars
  BY <1>1, AskIsLeftAlone DEF vars
<1>2. CASE Spawn \/ CallInline
  <2>1. next \in Index /\ stage[next] = "waiting" /\ Goes(next, "inspect")
        /\ UNCHANGED <<asked, cache>>
    BY <1>2, CollectAssumption
       DEF CollectAssumption, Spawn, CallInline, Inv, Types, PoolInv, Index
  <2>2. QED  BY <2>1, AskIsLeftAlone DEF Goes, Inv, Types
<1>3. CASE Return
  BY <1>3, AskIsLeftAlone DEF Return
<1>4. ASSUME NEW i \in Index, Work(i)
      PROVE  AskInv'
  <2>1. CASE Inspect(i)
    <3>1. /\ stage[i] = "inspect" /\ UNCHANGED <<asked, cache>>
          /\ Goes(i, "lookup") \/ Goes(i, "finish")
      BY <2>1 DEF Inspect
    <3>2. QED  BY <3>1, AskIsLeftAlone DEF Goes, Inv, Types
  <2>2. CASE Release(i) \/ Done(i)
    <3>1. /\ stage[i] \in {"finish", "released"} /\ UNCHANGED <<asked, cache>>
          /\ Goes(i, "released") \/ Goes(i, "done")
      BY <2>2 DEF Release, Done
    <3>2. QED  BY <3>1, AskIsLeftAlone DEF Goes, Inv, Types
  <2>3. QED  BY <1>4, <2>1, <2>2, LookupAsks, AskAsks, StoreAsks DEF Work
<1>5. QED  BY <1>1, <1>2, <1>3, <1>4 DEF Next, Finished

\* No image is asked about more often than the pool is wide, however long the
\* list: the gap between looking in the cache and filling it costs at most one
\* ask for each worker.
THEOREM AsksAreBounded == Spec => []AsksBounded
<1>1. Inv /\ AskInv /\ [Next]_vars => (Inv /\ AskInv)'
  BY InvNext, AskNext
<1>2. Init => Inv /\ AskInv
  BY InvInit, AskInit
<1>3. ASSUME AskInv PROVE AsksBounded
  <2>1. SUFFICES ASSUME NEW m \in Images PROVE asked[m] <= Workers
    BY DEF AsksBounded
  <2>2. Cardinality(At(m, {"ask"})) \in Nat
    BY AtIsFinite
  <2>3. QED  BY <1>3, <2>2, CollectAssumption DEF AskInv, CollectAssumption
<1>4. QED  BY <1>1, <1>2, <1>3, PTL DEF Spec

-----------------------------------------------------------------------------
(* The types and the promise. *)

\* The caller doing the work itself takes no token.
TokenInv == Inline => sem = 0

\* A slot is written once: by the step that sends its goroutine to finish.
BlankInv == \A i \in 1..n : stage[i] \notin {"finish", "released", "done"} => out[i] = Blank

LEMMA TokenNext == TokenInv /\ [Next]_vars => TokenInv'
BY DEF TokenInv, Inline, Next, Spawn, CallInline, Return, Finished, Work, Inspect, Lookup, Ask,
       Store, Release, Done, vars

LEMMA BlankNext ==
  ASSUME Inv, BlankInv, [Next]_vars
  PROVE  BlankInv'
<1>1. CASE UNCHANGED vars
  BY <1>1 DEF vars, BlankInv
<1>2. CASE Spawn \/ CallInline
  <2>1. next \in Index /\ stage[next] = "waiting"
    BY <1>2, CollectAssumption
       DEF CollectAssumption, Spawn, CallInline, Inv, Types, PoolInv, Index
  <2>2. 1..n \subseteq Index
    BY SlotsAreIndices DEF Inv
  <2>3. QED  BY <1>2, <2>1, <2>2 DEF Spawn, CallInline, Goes, BlankInv, Inv, Types
<1>3. CASE Return
  BY <1>3 DEF Return, BlankInv
<1>4. ASSUME NEW i \in Index, Work(i)
      PROVE  BlankInv'
  <2>1. 1..n \subseteq Index
    BY SlotsAreIndices DEF Inv
  <2>2. \A k \in 1..n : k # i => stage'[k] = stage[k] /\ out'[k] = out[k]
    BY <1>4, <2>1 DEF Work, Inspect, Lookup, Ask, Store, Release, Done, Goes, Write, Inv, Types
  <2>3. /\ n' = n
        /\ \/ stage'[i] \in {"finish", "released", "done"}
           \/ stage[i] \notin {"finish", "released", "done"} /\ out' = out
    BY <1>4 DEF Work, Inspect, Lookup, Ask, Store, Release, Done, Goes, Inv, Types
  <2>4. QED  BY <2>2, <2>3 DEF BlankInv
<1>5. QED  BY <1>1, <1>2, <1>3, <1>4 DEF Next, Finished

LEMMA PoolInvariants == Spec => [](Inv /\ AskInv /\ TokenInv /\ BlankInv)
<1>1. Init => Inv /\ AskInv /\ TokenInv /\ BlankInv
  BY InvInit, AskInit DEF Init, TokenInv, BlankInv
<1>2. Inv /\ AskInv /\ TokenInv /\ BlankInv /\ [Next]_vars =>
        (Inv /\ AskInv /\ TokenInv /\ BlankInv)'
  BY InvNext, AskNext, TokenNext, BlankNext
<1>3. QED  BY <1>1, <1>2, PTL DEF Spec

\* The variables of the pool have their types; among them, the semaphore never
\* holds fewer than no tokens, which a second release would make it do.
THEOREM PoolTypes == Spec => []TypeOK
<1>1. ASSUME Inv, AskInv, TokenInv PROVE TypeOK
  <2>1. sem \in Nat
    <3>1. CASE Inline
      BY <1>1, <3>1 DEF TokenInv
    <3>2. CASE ~Inline
      BY <1>1, <3>2, InFlightIs, FS_CardinalityType DEF Inv, Types, PoolInv
    <3>3. QED  BY <3>1, <3>2
  <2>2. QED  BY <1>1, <2>1 DEF Inv, Types, AskInv, TypeOK
<1>2. QED  BY <1>1, PoolInvariants, PTL

\* What the pool does to the result is what ContainerList promises: each slot is
\* described once, by its own container's inspect, by its own image's, or by the
\* list alone, and the call returns when all are.  (That it does return is left
\* to the fairness TLC checks.)
THEOREM PoolKeepsPromise ==
  Spec => Promise!Init /\ [][Promise!Next]_<<n, out, returned>>
<1>1. Init => Promise!Init
  BY DEF Init, Promise!Init
<1>2. ASSUME Inv, Inv', BlankInv, [Next]_vars
      PROVE  [Promise!Next]_<<n, out, returned>>
  <2>1. CASE Return
    BY <1>2, <2>1 DEF Return, Inv, ReturnInv, Promise!Next, Promise!Return
  <2>2. ASSUME NEW i \in Index, Work(i), out' # out
        PROVE  Promise!Describe(i) /\ i \in 1..n
    <3>1. /\ stage[i] \in {"inspect", "lookup", "store"} /\ i \in 1..n
          /\ UNCHANGED <<n, returned>> /\ \E user : Write(i, user)
      BY <1>2, <2>2, StartedHasSlot
      DEF Inv, Work, Inspect, Lookup, Ask, Store, Release, Done
    <3>2. out[i] = Blank /\ ~returned
      BY <1>2, <3>1 DEF BlankInv, Inv, ReturnInv
    <3>3. PICK user : Write(i, user)
      BY <3>1
    <3>4. out'[i] \in Says(i)' \ {Blank} /\ out' = [out EXCEPT ![i] = out'[i]]
      <4>1. out' = [out EXCEPT ![i] = <<i, user>>] /\ i \in DOMAIN out
        BY <1>2, <3>1, <3>3 DEF Write, Inv, Types
      <4>2. i # 0
        BY <3>1
      <4>3. QED  BY <1>2, <3>1, <4>1, <4>2 DEF Inv, CacheInv, Blank
    <3>5. out'[i] \in Described(i)
      BY <3>4 DEF Says, Described, Effective, Answer
    <3>6. QED  BY <3>1, <3>2, <3>4, <3>5 DEF Promise!Describe
  <2>3. CASE Spawn \/ CallInline \/ Finished \/ UNCHANGED vars
    BY <2>3 DEF Spawn, CallInline, Finished, vars
  <2>4. ASSUME NEW i \in Index, Work(i)
        PROVE  UNCHANGED <<n, returned>>
    BY <2>4 DEF Work, Inspect, Lookup, Ask, Store, Release, Done
  <2>5. QED  BY <1>2, <2>1, <2>2, <2>3, <2>4 DEF Next, Promise!Next
<1>3. QED  BY <1>1, <1>2, PoolInvariants, PTL DEF Spec

-----------------------------------------------------------------------------
(* The end. *)

\* What is left of the work on an index at each of its stages, and what is left
\* in all: the stages still to come, and the return.
StagesLeft ==
  [waiting |-> 7, inspect |-> 6, lookup |-> 5, ask |-> 4, store |-> 3, finish |-> 2,
   released |-> 1, done |-> 0]
ToDo ==
  {x \in (1..n) \X (1..7) : x[2] <= StagesLeft[stage[x[1]]]} \cup {x \in {<<0, 0>>} : ~returned}
StepsLeft == Cardinality(ToDo)

\* The guards of the loop, of wg.Wait and of a goroutine.
LoopMayStep == next <= n /\ (Inline \/ sem < Workers)
CallMayReturn == ~returned /\ next > n /\ \A i \in 1..n : stage[i] = "done"
WorkMayStep(i) == stage[i] \in Busy \cup {"released"}

LEMMA ToDoIsFinite ==
  ASSUME Types
  PROVE  IsFiniteSet(ToDo) /\ StepsLeft \in 0..(7 * n + 1)
<1> DEFINE A == (1..n) \X (1..7)
           B == A \cup {<<0, 0>>}
<1>1. n \in Nat
  BY CollectAssumption DEF CollectAssumption, Types
<1>2. \A m \in Nat : IsFiniteSet(1..m) /\ Cardinality(1..m) = m
  BY FS_Interval
<1>3. /\ IsFiniteSet(1..n) /\ Cardinality(1..n) = n
      /\ IsFiniteSet(1..7) /\ Cardinality(1..7) = 7
  BY <1>1, <1>2
<1>4. IsFiniteSet(A) /\ Cardinality(A) = n * 7
  BY <1>3, FS_Product
<1>5. <<0, 0>> \notin A
  OBVIOUS
<1>6. ToDo \subseteq B
  BY DEF ToDo
<1> HIDE DEF A
<1>7. IsFiniteSet(B) /\ Cardinality(B) = n * 7 + 1
  BY <1>4, <1>5, FS_AddElement
<1> HIDE DEF B
<1>8. IsFiniteSet(ToDo) /\ StepsLeft <= n * 7 + 1
  BY <1>6, <1>7, FS_Subset DEF StepsLeft
<1>9. StepsLeft \in Nat
  BY <1>8, FS_CardinalityType DEF StepsLeft
<1> QED BY <1>1, <1>8, <1>9

\* An index that comes closer to its end leaves less to do.
LEMMA StageStep ==
  ASSUME Types, NEW i \in 1..n, NEW s \in Stages, Goes(i, s), UNCHANGED <<n, returned>>,
         StagesLeft[s] < StagesLeft[stage[i]]
  PROVE  StepsLeft' < StepsLeft
<1>1. \A t \in Stages : StagesLeft[t] \in 0..7
  BY DEF StagesLeft, Stages
<1>2. i \in Index /\ 1..n \subseteq Index
  BY SlotsAreIndices
<1>3. \A k \in 1..n : stage[k] \in Stages /\ stage'[k] = IF k = i THEN s ELSE stage[k]
  BY <1>2 DEF Goes, Types
<1>4. \A k \in 1..n : StagesLeft[stage'[k]] <= StagesLeft[stage[k]]
  BY <1>1, <1>3
<1>5. ToDo' \subseteq ToDo
  <2>1. \A k \in 1..n : StagesLeft[stage[k]] \in 0..7 /\ StagesLeft[stage'[k]] \in 0..7
    BY <1>1, <1>3
  <2> QED BY <1>4, <2>1 DEF ToDo
<1>6. <<i, StagesLeft[stage[i]]>> \in ToDo
  <2>1. StagesLeft[stage[i]] \in 1..7
    BY <1>1, <1>3
  <2> QED BY <2>1 DEF ToDo
<1>7. <<i, StagesLeft[stage[i]]>> \notin ToDo'
  <2>1. StagesLeft[stage[i]] \in Int /\ StagesLeft[s] \in Int /\ stage'[i] = s
    BY <1>1, <1>3
  <2>2. i # 0
    OBVIOUS
  <2> QED BY <2>1, <2>2 DEF ToDo
<1>8. IsFiniteSet(ToDo) /\ StepsLeft \in Nat
  BY ToDoIsFinite
<1>9. IsFiniteSet(ToDo') /\ Cardinality(ToDo') <= Cardinality(ToDo) /\ Cardinality(ToDo') # Cardinality(ToDo)
  BY <1>5, <1>6, <1>7, <1>8, FS_Subset
<1>10. Cardinality(ToDo') \in Nat
  BY <1>9, FS_CardinalityType
<1> QED BY <1>8, <1>9, <1>10 DEF StepsLeft

LEMMA LessToDo ==
  ASSUME Inv, [Next]_vars
  PROVE  StepsLeft' < StepsLeft \/ UNCHANGED vars
<1>1. CASE Spawn \/ CallInline
  <2>1. next \in Index /\ stage[next] = "waiting" /\ next \in 1..n
    BY <1>1, CollectAssumption
       DEF CollectAssumption, Spawn, CallInline, Inv, Types, PoolInv, Index
  <2>2. Goes(next, "inspect") /\ UNCHANGED <<n, returned>>
    BY <1>1 DEF Spawn, CallInline
  <2>3. "inspect" \in Stages /\ StagesLeft["inspect"] < StagesLeft["waiting"]
    BY DEF Stages, StagesLeft
  <2> QED BY <2>1, <2>2, <2>3, StageStep DEF Inv
<1>2. CASE Return
  <2>1. ~returned /\ returned' /\ UNCHANGED <<n, stage>>
    BY <1>2 DEF Return
  <2>2. ToDo' = ToDo \ {<<0, 0>>} /\ <<0, 0>> \in ToDo
    BY <2>1 DEF ToDo
  <2>3. IsFiniteSet(ToDo) /\ StepsLeft \in Nat
    BY ToDoIsFinite DEF Inv
  <2>4. Cardinality(ToDo \ {<<0, 0>>}) = Cardinality(ToDo) - 1
    BY <2>2, <2>3, FS_RemoveElement
  <2> QED BY <2>2, <2>3, <2>4 DEF StepsLeft
<1>3. ASSUME NEW i \in Index, Work(i)
      PROVE  StepsLeft' < StepsLeft
  <2>1. stage[i] \in Busy \cup {"released"} /\ UNCHANGED <<n, returned>>
    BY <1>3 DEF Work, Inspect, Lookup, Ask, Store, Release, Done, Busy
  <2>2. i \in 1..n
    BY <2>1, StartedHasSlot DEF Inv, Busy
  <2>3. PICK s \in Stages : Goes(i, s) /\ StagesLeft[s] < StagesLeft[stage[i]]
    <3>1. CASE Inspect(i)
      BY <3>1 DEF Inspect, Stages, StagesLeft
    <3>2. CASE Lookup(i)
      <4>1. stage[i] = "lookup" /\ (Goes(i, "finish") \/ Goes(i, "ask"))
        BY <3>2, Zenon DEF Lookup
      <4>2. /\ {"finish", "ask"} \subseteq Stages
            /\ StagesLeft["finish"] < StagesLeft["lookup"]
            /\ StagesLeft["ask"] < StagesLeft["lookup"]
        BY DEF Stages, StagesLeft
      <4> QED BY <4>1, <4>2
    <3>3. CASE Ask(i) \/ Store(i)
      BY <3>3 DEF Ask, Store, Stages, StagesLeft
    <3>4. CASE Release(i) \/ Done(i)
      BY <3>4 DEF Release, Done, Stages, StagesLeft
    <3> QED BY <1>3, <3>1, <3>2, <3>3, <3>4 DEF Work
  <2> QED BY <2>1, <2>2, <2>3, StageStep DEF Inv
<1> QED BY <1>1, <1>2, <1>3 DEF Next, Finished

\* forEach never waits on itself and never goes round: whatever the list, the size
\* of the pool and the failures, until the call returns the loop, wg.Wait or some
\* goroutine may step, and every step leaves fewer to take, of at most seven for
\* each container and one.  (That one which may step does is the fairness that
\* TLC's runs assume.)
THEOREM PoolRunsDown ==
  Spec => /\ [](~returned => LoopMayStep \/ CallMayReturn \/ \E i \in Index : WorkMayStep(i))
          /\ [](StepsLeft \in 0..(7 * n + 1))
          /\ [][StepsLeft' < StepsLeft]_vars
<1>1. ASSUME Inv, TokenInv, ~returned, ~\E i \in Index : WorkMayStep(i)
      PROVE  LoopMayStep \/ CallMayReturn
  <2>1. \A i \in Index : stage[i] \in {"waiting", "done"}
    BY <1>1 DEF Inv, Types, Stages, Busy, WorkMayStep
  <2>2. InFlight = {}
    BY <2>1 DEF InFlight
  <2>3. sem < Workers
    BY <1>1, <2>2, FS_EmptySet, CollectAssumption
       DEF CollectAssumption, Inv, PoolInv, TokenInv
  <2>4. CASE next <= n
    BY <2>3, <2>4 DEF LoopMayStep
  <2>5. CASE next > n
    <3>1. \A i \in 1..n : i \in Index /\ ~(i >= next)
      BY <1>1, <2>5, SlotsAreIndices DEF Inv, Types
    <3>2. \A i \in 1..n : stage[i] = "done"
      BY <1>1, <2>1, <3>1 DEF Inv, PoolInv
    <3> QED BY <1>1, <2>5, <3>2 DEF CallMayReturn
  <2> QED BY <1>1, <2>4, <2>5, CollectAssumption DEF CollectAssumption, Inv, Types
<1>2. ASSUME Inv PROVE StepsLeft \in 0..(7 * n + 1)
  BY <1>2, ToDoIsFinite DEF Inv
<1>3. ASSUME Inv, [Next]_vars PROVE [StepsLeft' < StepsLeft]_vars
  BY <1>3, LessToDo
<1> QED BY <1>1, <1>2, <1>3, PoolInvariants, PTL DEF Spec
============================================================================
