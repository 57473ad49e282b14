---------------------------- MODULE MCHashTable ----------------------------
(* Instances of HashTable for TLC. *)
EXTENDS HashTable

\* three keys that share bucket 5
CollidingKeys == {5, 261, 517}

\* three keys of bucket 0, with key 0 among them
KeysWithZero == {0, 256, 512}

CleanMemory == {<<>>}

AnyMemory == {<<>>, <<Wild>>}
==============================================================================
