----------------------------- MODULE MCHashTable -----------------------------
(* Three buckets, three keys: a and b start at the same bucket with         *)
(* different steps, c's sequence wraps around the word and so does not have *)
(* a constant step.                                                         *)
EXTENDS HashTable, TLC

CONSTANTS a, b, c, v, w

MCHashA == a :> 1 @@ b :> 4 @@ c :> 7
MCHashB == a :> 0 @@ b :> 3 @@ c :> 4
=============================================================================
