------------------------------ MODULE Collect ------------------------------
(***************************************************************************)
(* docker.ListContainers after the list call has returned n containers:    *)
(* forEach's pool of goroutines, each inspecting one container and, when   *)
(* the container sets no user, asking the cache shared by all of them and  *)
(* then the daemon for its image's.                                        *)
(*                                                                         *)
(*   waiting -> inspect -> lookup -> ask -> store -> finish -> released    *)
(*           -> done                                                       *)
(***************************************************************************)
EXTENDS Integers, FiniteSets

CONSTANTS
  MaxListed,    \* bound on the length of the list
  Workers,      \* the size of the pool; 8 in the code
  ImageOf,      \* [1..MaxListed -> images]: what each container runs
  ConfigUser,   \* [1..MaxListed -> STRING]: its own user, "" when it sets none
  ImageUser,    \* the user each image sets, "" when it sets none
  InspectFails  \* whether an inspect may return an error

Images == {ImageOf[i] : i \in 1..MaxListed}
NotCached == "?"   \* no user name

ASSUME CollectAssumption ==
  /\ MaxListed \in Nat /\ Workers \in Nat \ {0}
  /\ ConfigUser \in [1..MaxListed -> STRING \ {NotCached}]
  /\ ImageUser \in [Images -> STRING \ {NotCached}]
  /\ InspectFails \in BOOLEAN

VARIABLES
  n,         \* containers listed
  next,      \* the index the loop has come to
  sem,       \* tokens in the semaphore channel
  stage,     \* where the work on each index is
  local,     \* the user a goroutine was told and has yet to store
  cache,     \* imageUserCache; NotCached where it has no entry
  out,       \* the result slots
  returned,  \* ListContainers has returned
  asked,     \* history: image inspects sent, per image
  refused    \* history: images an inspect of which failed

vars == <<n, next, sem, stage, local, cache, out, returned, asked, refused>>

Index == 1..MaxListed
Stages == {"waiting", "inspect", "lookup", "ask", "store", "finish", "released", "done"}
\* The user names there are: what nobody set, the default, and those set.
Users == {"", "root", NotCached} \cup {ConfigUser[i] : i \in Index}
                                 \cup {ImageUser[m] : m \in Images}
Blank == <<0, "blank">>
\* What a slot says: which container it is about, and the user or "partial".
Partial(i) == <<i, "partial">>

TypeOK ==
  /\ n \in 0..MaxListed /\ next \in 1..(n + 1)
  /\ sem \in Nat
  /\ stage \in [Index -> Stages]
  /\ local \in [Index -> Users]
  /\ cache \in [Images -> Users]
  /\ DOMAIN out = 1..n
  /\ returned \in BOOLEAN
  /\ asked \in [Images -> Nat]
  /\ refused \subseteq Images

Init ==
  /\ n \in 0..MaxListed /\ next = 1 /\ sem = 0
  /\ stage = [i \in Index |-> "waiting"]
  /\ local = [i \in Index |-> ""]
  /\ cache = [m \in Images |-> NotCached]
  /\ out = [i \in 1..n |-> Blank]
  /\ returned = FALSE
  /\ asked = [m \in Images |-> 0] /\ refused = {}

Goes(i, s) == stage' = [stage EXCEPT ![i] = s]

\* What asking about image m tells, and what is then said of container i.
Answer(m) == IF ImageUser[m] # "" THEN ImageUser[m] ELSE "root"
Effective(i) == IF ConfigUser[i] # "" THEN ConfigUser[i] ELSE Answer(ImageOf[i])

-----------------------------------------------------------------------------
(* forEach *)
Inline == n <= 1

\* Mutant: the goroutine is started before the token is taken.
SpawnUnbounded ==
  /\ ~Inline /\ next <= n
  /\ next' = next + 1 /\ sem' = sem + 1
  /\ Goes(next, "inspect")
  /\ UNCHANGED <<n, local, cache, out, returned, asked, refused>>

\* The loop takes a token, waiting for one to be free, and starts the next.
Spawn ==
  /\ ~Inline /\ next <= n /\ sem < Workers
  /\ next' = next + 1 /\ sem' = sem + 1
  /\ Goes(next, "inspect")
  /\ UNCHANGED <<n, local, cache, out, returned, asked, refused>>

\* One container is done by the caller itself.
CallInline ==
  /\ Inline /\ next <= n
  /\ next' = next + 1
  /\ Goes(next, "inspect")
  /\ UNCHANGED <<n, sem, local, cache, out, returned, asked, refused>>

\* Mutant: the work whose inspect failed gives its token back before it returns,
\* and the deferred call does again.
ReleaseTwice(i) ==
  /\ stage[i] = "finish"
  /\ Goes(i, "released")
  /\ sem' = IF Inline THEN sem ELSE IF out[i] = Partial(i) THEN sem - 2 ELSE sem - 1
  /\ UNCHANGED <<n, next, local, cache, out, returned, asked, refused>>

\* The deferred calls run in reverse: the token goes back first.
Release(i) ==
  /\ stage[i] = "finish"
  /\ Goes(i, "released")
  /\ sem' = IF Inline THEN sem ELSE sem - 1
  /\ UNCHANGED <<n, next, local, cache, out, returned, asked, refused>>

Done(i) ==
  /\ stage[i] = "released"
  /\ Goes(i, "done")
  /\ UNCHANGED <<n, next, sem, local, cache, out, returned, asked, refused>>

\* Mutant: once the last goroutine is started, nothing is waited for.
ReturnAtOnce ==
  /\ ~returned /\ next > n
  /\ returned' = TRUE
  /\ UNCHANGED <<n, next, sem, stage, local, cache, out, asked, refused>>

\* wg.Wait
Return ==
  /\ ~returned /\ next > n /\ \A i \in 1..n : stage[i] = "done"
  /\ returned' = TRUE
  /\ UNCHANGED <<n, next, sem, stage, local, cache, out, asked, refused>>

-----------------------------------------------------------------------------
(* buildContainer and resolveEffectiveUser *)
\* Mutant: the goroutine writes where the loop has come to.
WriteAtLoopIndex(i, user) == out' = [out EXCEPT ![next - 1] = <<i, user>>]

Write(i, user) == out' = [out EXCEPT ![i] = <<i, user>>]

\* The container's inspect: a failure leaves what the list said.
Inspect(i) ==
  /\ stage[i] = "inspect"
  /\ \/ Goes(i, "lookup") /\ UNCHANGED out
     \/ InspectFails /\ Write(i, "partial") /\ Goes(i, "finish")
  /\ UNCHANGED <<n, next, sem, local, cache, returned, asked, refused>>

\* Mutant: a miss leaves a placeholder, so that no other worker asks too.
LookupReserving(i) ==
  LET known == IF ConfigUser[i] # "" THEN ConfigUser[i] ELSE cache[ImageOf[i]]
  IN /\ stage[i] = "lookup"
     /\ \/ /\ known # NotCached /\ Write(i, known) /\ Goes(i, "finish")
           /\ UNCHANGED cache
        \/ /\ known = NotCached /\ cache' = [cache EXCEPT ![ImageOf[i]] = "root"]
           /\ Goes(i, "ask") /\ UNCHANGED out
     /\ UNCHANGED <<n, next, sem, local, returned, asked, refused>>

\* The user is the container's own, or the cache has it (first critical
\* section), or the image must be asked.
Lookup(i) ==
  LET known == IF ConfigUser[i] # "" THEN ConfigUser[i] ELSE cache[ImageOf[i]]
  IN /\ stage[i] = "lookup"
     /\ \/ known # NotCached /\ Write(i, known) /\ Goes(i, "finish")
        \/ known = NotCached /\ Goes(i, "ask") /\ UNCHANGED out
     /\ UNCHANGED <<n, next, sem, local, cache, returned, asked, refused>>

\* Outside the lock.  An inspect that fails, like an image that sets no user,
\* makes it root.
Ask(i) ==
  LET m == ImageOf[i]
  IN /\ stage[i] = "ask"
     /\ Goes(i, "store")
     /\ asked' = [asked EXCEPT ![m] = @ + 1]
     /\ \/ local' = [local EXCEPT ![i] = Answer(m)]
           /\ UNCHANGED refused
        \/ InspectFails /\ local' = [local EXCEPT ![i] = "root"] /\ refused' = refused \cup {m}
     /\ UNCHANGED <<n, next, sem, cache, out, returned>>

\* Mutant: the answer is used and not remembered.
StoreNothing(i) ==
  /\ stage[i] = "store"
  /\ Write(i, local[i]) /\ Goes(i, "finish")
  /\ UNCHANGED <<n, next, sem, local, cache, returned, asked, refused>>

\* Second critical section: whatever was told last is what the cache keeps.
Store(i) ==
  /\ stage[i] = "store"
  /\ cache' = [cache EXCEPT ![ImageOf[i]] = local[i]]
  /\ Write(i, local[i]) /\ Goes(i, "finish")
  /\ UNCHANGED <<n, next, sem, local, returned, asked, refused>>

-----------------------------------------------------------------------------
Work(i) == Inspect(i) \/ Lookup(i) \/ Ask(i) \/ Store(i) \/ Release(i) \/ Done(i)
Finished == returned /\ UNCHANGED vars
Next == Spawn \/ CallInline \/ Return \/ Finished \/ \E i \in Index : Work(i)

\* Every goroutine is scheduled and every call to the daemon returns.
Fairness ==
  /\ WF_vars(Spawn \/ CallInline) /\ WF_vars(Return)
  /\ \A i \in Index : WF_vars(Work(i))
Spec == Init /\ [][Next]_vars
FairSpec == Spec /\ Fairness

-----------------------------------------------------------------------------
InFlight == {i \in Index : stage[i] \in Stages \ {"waiting", "released", "done"}}

\* At no moment are more than Workers containers being inspected, however many
\* the machine has: the daemon never sees the burst forEach's comment fears.
PoolBound == Cardinality(InFlight) <= Workers

\* No image is asked about by more workers than the pool has, though looking in
\* the cache and filling it are two critical sections: those that found it empty
\* were all in flight when the first of them filled it.
AsksBounded == \A m \in Images : asked[m] <= Workers

\* A container is said to run as root only if it does, or if an inspect of its
\* own image failed: neither another image's answer nor another slot's is ever
\* taken for its own.
RootOnlyIfSo ==
  \A i \in 1..n : out[i] = <<i, "root">> /\ ConfigUser[i] # "root" =>
    ImageUser[ImageOf[i]] \in {"", "root"} \/ ImageOf[i] \in refused

\* Where no inspect failed, the pool tells exactly what asking one container
\* after the other would.
SameAsSequential ==
  returned /\ refused = {} =>
    \A i \in 1..n : out[i] \in {Partial(i), <<i, Effective(i)>>}

\* ListContainers keeps the promise of ContainerList, to return included.
Described(i) == {Partial(i), <<i, "root">>, <<i, ConfigUser[i]>>, <<i, ImageUser[ImageOf[i]]>>}
Promise == INSTANCE ContainerList
KeepsPromise == Promise!Spec
=============================================================================
