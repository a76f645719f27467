------------------------------ MODULE HashTable ------------------------------
(***************************************************************************)
(* The hash table of esp32/include/ht.h: open addressing with double       *)
(* hashing and tombstones.  esp32/src/main.c keeps its stations' addresses *)
(* in one.  An operation probes one bucket per step.                       *)
(*                                                                         *)
(* The table depends on murmur3_32 only through the two numbers it returns *)
(* for a key, which are constants here: nothing relies on their values.    *)
(* (The source passes its arguments in the wrong order; the model takes    *)
(* the numbers it would compute for a key to be fixed.)  Memory allocation *)
(* is left out.                                                            *)
(*                                                                         *)
(* A definition whose name extends that of the definition after it is a    *)
(* mutated form of it, used only to show that a property would notice it.  *)
(***************************************************************************)
EXTENDS Integers, FiniteSets

CONSTANTS
    Size,          \* number of buckets, 50 in new_ht
    Word,          \* 2^32: the probe sequence is computed in a u32
    Keys, Values,
    HashA, HashB,  \* murmur3_32 of a key with each seed
    None,          \* NULL
    Deleted,       \* &HT_DELETED_ITEM
    MaxProbes,     \* bound: buckets an operation looks at
    MaxMisses      \* bound: deletes of an absent key

ASSUME HashAssumption ==
    /\ Size \in Nat \ {0} /\ Word \in Nat \ {0}
    /\ HashA \in [Keys -> 0..(Word - 1)] /\ HashB \in [Keys -> 0..(Word - 1)]
    /\ MaxProbes \in Nat /\ MaxMisses \in Nat
    /\ None \notin Keys \cup Values

VARIABLES
    items,   \* the buckets
    count,
    op,      \* the operation in progress, or None
    index,   \* the bucket it is at
    i,       \* the attempt it would make next
    hit,     \* history: it has already changed the table
    result,  \* what the last operation returned
    misses   \* history: deletes that found nothing

vars == <<items, count, op, index, i, hit, result, misses>>

------------------------------------------------------------------------------
Buckets == 0..(Size - 1)
Item == [key : Keys, value : Values]
Slot == Item \cup {None, Deleted}
Operation == [name : {"insert", "search", "update", "delete"},
              key : Keys, value : Values]

ASSUME MarkerAssumption ==
    /\ None # Deleted /\ None \notin Item \cup Operation /\ Deleted \notin Item

(* ht_get_hash                                                              *)
BucketOffByOne(k, attempt) ==
    ((HashA[k] + attempt * (HashB[k] + 1)) % Word) % (Size + 1)

Bucket(k, attempt) == ((HashA[k] + attempt * (HashB[k] + 1)) % Word) % Size

TypeOK ==
    /\ items \in [Buckets -> Slot]
    /\ count \in Int
    /\ op \in Operation \cup {None}
    /\ index \in Buckets
    /\ i \in 1..(MaxProbes + 1)
    /\ hit \in BOOLEAN
    /\ result \in Values \cup {None}
    /\ misses \in 0..MaxMisses

(* new_ht                                                                   *)
Init ==
    /\ items = [b \in Buckets |-> None]
    /\ count = 0
    /\ op = None /\ index = 0 /\ i = 1 /\ hit = FALSE
    /\ result = None /\ misses = 0

Call ==
    /\ op = None
    /\ \E o \in Operation :
          /\ o.name = "delete" => misses < MaxMisses
          /\ op' = o /\ index' = Bucket(o.key, 0)
    /\ i' = 1 /\ hit' = FALSE
    /\ UNCHANGED <<items, count, result, misses>>

------------------------------------------------------------------------------
(* What the operation finds in its bucket.                                  *)
Here == items[index]
AtEnd == Here = None
AtDeleted == Here = Deleted
AtKey == Here \in Item /\ Here.key = op.key
AtOther == Here \in Item /\ Here.key # op.key

ProbeOn ==
    /\ i <= MaxProbes
    /\ index' = Bucket(op.key, i)
    /\ i' = i + 1
    /\ UNCHANGED <<op, result, misses>>

Finish(r) ==
    /\ op' = None
    /\ result' = r
    /\ hit' = FALSE
    /\ UNCHANGED <<index, i>>

(* The loops of insert, search and update do not move on from a tombstone:  *)
(* there, none of their steps is enabled, and the operation never returns.  *)
Entry == [key |-> op.key, value |-> op.value]

InsertProbe ==
    /\ op # None /\ op.name = "insert" /\ AtOther
    /\ ProbeOn
    /\ UNCHANGED <<items, count, hit>>

InsertReplaceCounts ==
    /\ op # None /\ op.name = "insert" /\ AtKey
    /\ items' = [items EXCEPT ![index] = Entry]
    /\ count' = count + 1
    /\ Finish(None)
    /\ UNCHANGED misses

InsertReplace ==
    /\ op # None /\ op.name = "insert" /\ AtKey
    /\ items' = [items EXCEPT ![index] = Entry]
    /\ Finish(None)
    /\ UNCHANGED <<count, misses>>

InsertNewReusesTombstone ==
    /\ op # None /\ op.name = "insert" /\ (AtEnd \/ AtDeleted)
    /\ items' = [items EXCEPT ![index] = Entry]
    /\ count' = count + 1
    /\ Finish(None)
    /\ UNCHANGED misses

InsertNew ==
    /\ op # None /\ op.name = "insert" /\ AtEnd
    /\ items' = [items EXCEPT ![index] = Entry]
    /\ count' = count + 1
    /\ Finish(None)
    /\ UNCHANGED misses

SearchProbeSameAttempt ==
    /\ op # None /\ op.name = "search" /\ AtOther
    /\ index' = Bucket(op.key, i)
    /\ UNCHANGED <<i, op, result, misses, items, count, hit>>

SearchProbe ==
    /\ op # None /\ op.name = "search" /\ AtOther
    /\ ProbeOn
    /\ UNCHANGED <<items, count, hit>>

Search ==
    /\ op # None /\ op.name = "search" /\ (AtKey \/ AtEnd)
    /\ Finish(IF AtKey THEN Here.value ELSE None)
    /\ UNCHANGED <<items, count, misses>>

(* update sets the value and goes on looking.                               *)
UpdateProbeKeepsOther ==
    /\ op # None /\ op.name = "update" /\ (AtKey \/ AtOther)
    /\ items' = [items EXCEPT ![index].value = op.value]
    /\ hit' = (hit \/ AtKey)
    /\ ProbeOn
    /\ UNCHANGED count

UpdateProbe ==
    /\ op # None /\ op.name = "update" /\ (AtKey \/ AtOther)
    /\ items' = IF AtKey THEN [items EXCEPT ![index].value = op.value]
                ELSE items
    /\ hit' = (hit \/ AtKey)
    /\ ProbeOn
    /\ UNCHANGED count

Update ==
    /\ op # None /\ op.name = "update" /\ AtEnd
    /\ Finish(None)
    /\ UNCHANGED <<items, count, misses>>

(* delete leaves a tombstone and goes on looking, past tombstones too, to   *)
(* the end of the chain, where it counts down whether it found the key or   *)
(* not.                                                                     *)
DeleteProbeFrees ==
    /\ op # None /\ op.name = "delete" /\ ~AtEnd
    /\ items' = IF AtKey THEN [items EXCEPT ![index] = None] ELSE items
    /\ hit' = (hit \/ AtKey)
    /\ ProbeOn
    /\ UNCHANGED count

DeleteProbe ==
    /\ op # None /\ op.name = "delete" /\ ~AtEnd
    /\ items' = IF AtKey THEN [items EXCEPT ![index] = Deleted] ELSE items
    /\ hit' = (hit \/ AtKey)
    /\ ProbeOn
    /\ UNCHANGED count

Delete ==
    /\ op # None /\ op.name = "delete" /\ AtEnd
    /\ count' = count - 1
    /\ misses' = IF hit THEN misses ELSE misses + 1
    /\ Finish(None)
    /\ UNCHANGED items

Step ==
    \/ InsertProbe \/ InsertReplace \/ InsertNew
    \/ SearchProbe \/ Search
    \/ UpdateProbe \/ Update
    \/ DeleteProbe \/ Delete

Next == Call \/ Step

Spec == Init /\ [][Next]_vars

(* The code runs to the end once called.                                    *)
FairSpec == Spec /\ WF_vars(Step)

------------------------------------------------------------------------------
(* No key is stored twice, although insert stops at the first free bucket   *)
(* and tombstones open the chains of other keys.                            *)
Stored == {b \in Buckets : items[b] \in Item}

UniqueKeys ==
    \A b, c \in Stored : items[b].key = items[c].key => b = c

(* A stored key can be found: no free bucket comes before it on its probe   *)
(* sequence.                                                                *)
Reachable ==
    \A b \in Stored :
        \E n \in 0..MaxProbes :
            /\ Bucket(items[b].key, n) = b
            /\ \A p \in 0..(n - 1) : items[Bucket(items[b].key, p)] # None

(* Between operations count is the number of stored keys, less one for each *)
(* delete that found nothing.                                               *)
CountTracks == op = None => count = Cardinality(Stored) - misses

(* The table implements the map: an operation that returns has done what    *)
(* the map would do, and a search returns what was last stored.             *)
MapOf == [k \in Keys |->
             IF \E b \in Stored : items[b].key = k
             THEN items[CHOOSE b \in Stored : items[b].key = k].value
             ELSE None]

Map == INSTANCE AbstractMap WITH
           map <- MapOf, pending <- op, effected <- hit
ImplementsMap == Map!Spec

(* An operation whose probe sequence comes to a free bucket returns, unless *)
(* it is not a delete and meets a tombstone before: a full table, a probe   *)
(* sequence that goes round the others and a tombstone are the only ways to *)
(* hang, and overflow of the u32 is not one.                                *)
WillEnd ==
    /\ op # None
    /\ \E n \in 0..(MaxProbes - 1) :
          /\ items[Bucket(op.key, n)] = None
          /\ op.name = "delete" \/ \A p \in 0..n : items[Bucket(op.key, p)] # Deleted

Returns == WillEnd ~> op = None
=============================================================================
