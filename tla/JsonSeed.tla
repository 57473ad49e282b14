------------------------------- MODULE JsonSeed -------------------------------
(***************************************************************************)
(* The seed of jansson's hash function, set by whichever thread makes the  *)
(* first object or calls json_object_seed first                            *)
(* (jansson-2.7/src/hashtable_seed.c and json_object in value.c).  Keys    *)
(* are hashed with the seed at the time: an object that is made under one  *)
(* seed and searched under another loses its keys.                         *)
(*                                                                         *)
(* Two of the four variants of the file are for other compilers: "atomic"  *)
(* (__atomic builtins) and "sync" (__sync builtins).                       *)
(***************************************************************************)
EXTENDS Integers

CONSTANTS
  Threads,
  Seeds      \* of which 0 asks for a random one

VARIABLES
  variant,          \* what the compiler has
  hashtable_seed,
  seed_initialized,
  pc,               \* thread -> where it is
  new_seed,         \* thread -> the seed that it would set
  found             \* thread -> the seed that its first object was made under

seedVars == <<variant, hashtable_seed, seed_initialized, pc, new_seed, found>>

SeedInit ==
  /\ variant \in {"atomic", "sync"}
  /\ hashtable_seed = 0 /\ seed_initialized = FALSE
  /\ pc = [t \in Threads |-> "start"] /\ new_seed = [t \in Threads |-> 0]
  /\ found = [t \in Threads |-> 0]

Go(t, where) == pc' = [pc EXCEPT ![t] = where]

\* random bytes, or the time: never 0
generate_seed == (Seeds \ {0}) \cup {1}

\* json_object_seed, by the program or by its first json_object
json_object_seed(t) ==
  /\ pc[t] = "start"
  /\ new_seed' \in {[new_seed EXCEPT ![t] = s] : s \in Seeds}
  /\ Go(t, IF hashtable_seed # 0 THEN "object"
           ELSE IF variant = "atomic" THEN "claim" ELSE "generate")
  /\ UNCHANGED <<variant, hashtable_seed, seed_initialized, found>>

\* __atomic_test_and_set
claim(t) ==
  /\ pc[t] = "claim"
  /\ seed_initialized' = TRUE
  /\ Go(t, IF seed_initialized THEN "wait" ELSE "generate")
  /\ UNCHANGED <<variant, hashtable_seed, new_seed, found>>

generate(t) ==
  /\ pc[t] = "generate"
  /\ IF new_seed[t] # 0 THEN UNCHANGED new_seed
     ELSE new_seed' \in {[new_seed EXCEPT ![t] = s] : s \in generate_seed}
  /\ Go(t, "store")
  /\ UNCHANGED <<variant, hashtable_seed, seed_initialized, found>>
\* mutant: the seed is stored without looking whether another thread was first
storeAlways(t) ==
  /\ pc[t] = "store"
  /\ hashtable_seed' = new_seed[t] /\ Go(t, "object")
  /\ UNCHANGED <<variant, seed_initialized, new_seed, found>>

\* __atomic_store_n by the one that claimed it, or a compare-and-swap by each
store(t) ==
  /\ pc[t] = "store"
  /\ IF variant = "sync" /\ hashtable_seed # 0
       THEN Go(t, "wait") /\ UNCHANGED hashtable_seed
       ELSE hashtable_seed' = new_seed[t] /\ Go(t, "object")
  /\ UNCHANGED <<variant, seed_initialized, new_seed, found>>

wait(t) ==
  /\ pc[t] = "wait" /\ hashtable_seed # 0
  /\ Go(t, "object")
  /\ UNCHANGED <<variant, hashtable_seed, seed_initialized, new_seed, found>>

\* json_object, whose keys are hashed with the seed from now on
json_object(t) ==
  /\ pc[t] = "object"
  /\ found' = [found EXCEPT ![t] = hashtable_seed]
  /\ Go(t, "done")
  /\ UNCHANGED <<variant, hashtable_seed, seed_initialized, new_seed>>

Thread(t) == json_object_seed(t) \/ claim(t) \/ generate(t) \/ store(t) \/ wait(t)
             \/ json_object(t)

SeedNext == \E t \in Threads : Thread(t)

SeedSpec == SeedInit /\ [][SeedNext]_seedVars

------------------------------------------------------------------------------
\* No object is made under one seed and used under another, whichever threads set
\* the seed at once; and a thread waits only while another one is about to set it.
\* (json_object_seed)
OneSeed ==
  \A t \in Threads :
    /\ pc[t] = "done" => found[t] = hashtable_seed /\ found[t] # 0
    /\ pc[t] = "wait" => \/ hashtable_seed # 0
                        \/ \E u \in Threads : pc[u] \in {"generate", "store"}
=============================================================================
