---------------------------- MODULE JsonSeedProofs ----------------------------
(***************************************************************************)
(* Proofs about JsonSeed, for every set of threads and of seeds.           *)
(***************************************************************************)
EXTENDS JsonSeed, TLAPS

TypeOK ==
  /\ variant \in {"atomic", "sync"}
  /\ seed_initialized \in BOOLEAN
  /\ pc \in [Threads -> {"start", "claim", "generate", "store", "wait", "object", "done"}]
  /\ new_seed \in [Threads -> Seeds \cup {0, 1}]
  /\ found \in [Threads -> Seeds \cup {0, 1}]
  /\ hashtable_seed \in Seeds \cup {0, 1}

\* is t about to set the seed?
Setting(t) == pc[t] \in {"generate", "store"}

\* With __atomic builtins, the one thread that claimed the seed sets it, once.
ClaimInv ==
  variant = "atomic" =>
    /\ \A t \in Threads : Setting(t) => seed_initialized /\ hashtable_seed = 0
    /\ \A t, u \in Threads : Setting(t) /\ Setting(u) => t = u
    /\ seed_initialized /\ hashtable_seed = 0 => \E t \in Threads : Setting(t)

\* With __sync builtins a thread waits, if at all, for a seed that is there.
SwapInv ==
  variant = "sync" =>
    \A t \in Threads : pc[t] # "claim" /\ (pc[t] = "wait" => hashtable_seed # 0)

\* What will be stored is a seed; and once there is an object, the seed is set.
SeedInv ==
  /\ hashtable_seed # 0 /\ variant = "atomic" => seed_initialized
  /\ \A t \in Threads :
       /\ pc[t] = "store" => new_seed[t] # 0
       /\ pc[t] = "object" => hashtable_seed # 0
       /\ pc[t] = "wait" /\ variant = "atomic" => seed_initialized
       /\ pc[t] = "done" => found[t] = hashtable_seed /\ found[t] # 0

IInv == TypeOK /\ ClaimInv /\ SwapInv /\ SeedInv

------------------------------------------------------------------------------
\* Before any thread has begun, the invariant holds.
LEMMA Initially == SeedInit => IInv
BY DEF SeedInit, IInv, TypeOK, ClaimInv, SwapInv, SeedInv, Setting

\* Calling json_object_seed keeps it.
LEMMA CallKeeps ==
  ASSUME IInv, NEW t \in Threads, json_object_seed(t)
  PROVE  IInv'
BY DEF IInv, TypeOK, ClaimInv, SwapInv, SeedInv, Setting, json_object_seed, Go

\* So does the test-and-set, which only the first thread passes.
LEMMA ClaimKeeps ==
  ASSUME IInv, NEW t \in Threads, claim(t)
  PROVE  IInv'
BY DEF IInv, TypeOK, ClaimInv, SwapInv, SeedInv, Setting, claim, Go

\* So does making up a seed.
LEMMA GenerateKeeps ==
  ASSUME IInv, NEW t \in Threads, generate(t)
  PROVE  IInv'
BY DEF IInv, TypeOK, ClaimInv, SwapInv, SeedInv, Setting, generate, generate_seed, Go

\* So does storing it: by the only thread that may, or if no other one was first.
LEMMA StoreKeeps ==
  ASSUME IInv, NEW t \in Threads, store(t)
  PROVE  IInv'
BY DEF IInv, TypeOK, ClaimInv, SwapInv, SeedInv, Setting, store, Go

\* So does the end of waiting.
LEMMA WaitKeeps ==
  ASSUME IInv, NEW t \in Threads, wait(t)
  PROVE  IInv'
BY DEF IInv, TypeOK, ClaimInv, SwapInv, SeedInv, Setting, wait, Go

\* So does a thread's first object.
LEMMA ObjectKeeps ==
  ASSUME IInv, NEW t \in Threads, json_object(t)
  PROVE  IInv'
BY DEF IInv, TypeOK, ClaimInv, SwapInv, SeedInv, Setting, json_object, Go

\* The invariant is inductive.
LEMMA StepKeeps == IInv /\ [SeedNext]_seedVars => IInv'
<1>. SUFFICES ASSUME IInv, [SeedNext]_seedVars PROVE IInv'
  OBVIOUS
<1>1. CASE UNCHANGED seedVars
  BY <1>1 DEF IInv, TypeOK, ClaimInv, SwapInv, SeedInv, Setting, seedVars
<1>2. CASE SeedNext
  <2>1. PICK t \in Threads : Thread(t)
    BY <1>2 DEF SeedNext
  <2>. QED
    BY <2>1, CallKeeps, ClaimKeeps, GenerateKeeps, StoreKeeps, WaitKeeps, ObjectKeeps
    DEF Thread
<1>. QED
  BY <1>1, <1>2

\* The invariant says what OneSeed promises: a thread that waits under __atomic
\* builtins has seen the flag, so the seed is there or the claimer is on its way.
LEMMA Promised == IInv => OneSeed
BY DEF IInv, TypeOK, ClaimInv, SwapInv, SeedInv, Setting, OneSeed

------------------------------------------------------------------------------
\* However many threads set the seed at once, all objects are made under one seed,
\* which does not change any more, and no thread waits in vain.  (json_object_seed)
THEOREM SeedIsOne == SeedSpec => []OneSeed
<1>1. SeedSpec => []IInv
  BY Initially, StepKeeps, PTL DEF SeedSpec
<1>. QED
  BY <1>1, Promised, PTL
=============================================================================
