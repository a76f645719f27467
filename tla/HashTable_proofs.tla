--------------------------- MODULE HashTable_proofs ---------------------------
(***************************************************************************)
(* Proofs about the hash table for every size, word, set of keys and pair  *)
(* of hash functions, and every bound on the number of probes.             *)
(***************************************************************************)
EXTENDS HashTable, FiniteSetTheorems, TLAPS

LEMMA BucketType ==
    ASSUME NEW k \in Keys, NEW n \in Nat
    PROVE  Bucket(k, n) \in Buckets
  <1> DEFINE x == (HashA[k] + n * (HashB[k] + 1)) % Word
  <1>1. HashA[k] \in Nat /\ HashB[k] \in Nat
    BY HashAssumption
  <1>2. n * (HashB[k] + 1) \in Nat
    BY <1>1
  <1>3. HashA[k] + n * (HashB[k] + 1) \in Nat
    BY <1>1, <1>2
  <1>4. x \in Nat
    BY <1>3, HashAssumption
  <1> HIDE DEF x
  <1>5. x % Size \in 0..(Size - 1)
    BY <1>4, HashAssumption
  <1> QED BY <1>5 DEF Bucket, Buckets, x

LEMMA EntryType ==
    ASSUME op \in Operation
    PROVE  /\ op.key \in Keys /\ op.value \in Values
           /\ op.name \in {"insert", "search", "update", "delete"}
           /\ Entry \in Item /\ Entry.key = op.key /\ Entry.value = op.value
           /\ Entry # None /\ Entry # Deleted
  <1>1. op.key \in Keys /\ op.value \in Values
        /\ op.name \in {"insert", "search", "update", "delete"}
    BY DEF Operation
  <1>2. Entry \in Item /\ Entry.key = op.key /\ Entry.value = op.value
    BY <1>1 DEF Entry, Item
  <1> QED BY <1>1, <1>2, MarkerAssumption

LEMMA InProgress ==
    ASSUME TypeOK, op # None
    PROVE  /\ op \in Operation /\ index \in Buckets
           /\ items \in [Buckets -> Slot] /\ Here \in Slot
           /\ AtKey => Here \in Item /\ Here.key = op.key
  BY DEF TypeOK, Here, AtKey

(* Writing the value of an entry that has the key stores the entry anew.    *)
LEMMA ValueWritten ==
    ASSUME TypeOK, op # None, AtKey
    PROVE  [items EXCEPT ![index].value = op.value]
             = [items EXCEPT ![index] = Entry]
  <1>1. /\ op \in Operation /\ items \in [Buckets -> Slot]
        /\ items[index] \in Item /\ items[index].key = op.key
    BY InProgress DEF Here, AtKey
  <1>2. [items[index] EXCEPT !.value = op.value] = Entry
    BY <1>1 DEF Item, Entry
  <1>3. [items EXCEPT ![index].value = op.value]
          = [items EXCEPT ![index] = [items[index] EXCEPT !.value = op.value]]
    BY <1>1
  <1> QED BY <1>2, <1>3

-----------------------------------------------------------------------------
(* Every step of an operation probes on or finishes.                        *)
Probe == InsertProbe \/ SearchProbe \/ UpdateProbe \/ DeleteProbe
Finishing == InsertReplace \/ InsertNew \/ Search \/ Update \/ Delete

StoreEntry == items' = [items EXCEPT ![index] = Entry]
StoreDeleted == items' = [items EXCEPT ![index] = Deleted]

LEMMA ProbeShape ==
    ASSUME TypeOK, Probe
    PROVE  /\ op # None /\ i <= MaxProbes /\ i' = i + 1
           /\ index' = Bucket(op.key, i)
           /\ UNCHANGED <<op, result, misses, count>>
           /\ ~AtEnd
           /\ \/ ~AtKey /\ items' = items /\ hit' = hit
              \/ AtKey /\ hit' = TRUE /\ op.name = "update" /\ StoreEntry
              \/ AtKey /\ hit' = TRUE /\ op.name = "delete" /\ StoreDeleted
  <1>h. hit \in BOOLEAN /\ None \notin Item
    BY MarkerAssumption DEF TypeOK
  <1>1. CASE InsertProbe \/ SearchProbe
    BY <1>h, <1>1 DEF InsertProbe, SearchProbe, ProbeOn, AtOther, AtKey, AtEnd
  <1>2. CASE UpdateProbe
    <2>1. /\ op # None /\ op.name = "update" /\ ProbeOn /\ count' = count
          /\ hit' = (hit \/ AtKey)
      BY <1>2 DEF UpdateProbe
    <2>2. ~AtEnd
      BY <1>h, <1>2 DEF UpdateProbe, AtOther, AtKey, AtEnd
    <2>3. CASE AtKey
      <3>1. items' = [items EXCEPT ![index].value = op.value]
        BY <1>2, <2>3 DEF UpdateProbe
      <3>2. StoreEntry
        BY <2>1, <2>3, <3>1, ValueWritten DEF StoreEntry
      <3> QED BY <2>1, <2>2, <2>3, <3>2 DEF ProbeOn
    <2>4. CASE ~AtKey
      <3>1. items' = items /\ hit' = hit
        BY <1>h, <1>2, <2>1, <2>4 DEF UpdateProbe
      <3> QED BY <2>1, <2>2, <2>4, <3>1 DEF ProbeOn
    <2> QED BY <2>3, <2>4
  <1>3. CASE DeleteProbe
    <2>1. /\ op # None /\ op.name = "delete" /\ ProbeOn /\ count' = count
          /\ hit' = (hit \/ AtKey) /\ ~AtEnd
      BY <1>3 DEF DeleteProbe
    <2>2. CASE AtKey
      <3>1. StoreDeleted
        BY <1>3, <2>2 DEF DeleteProbe, StoreDeleted
      <3> QED BY <2>1, <2>2, <3>1 DEF ProbeOn
    <2>3. CASE ~AtKey
      <3>1. items' = items /\ hit' = hit
        BY <1>h, <1>3, <2>1, <2>3 DEF DeleteProbe
      <3> QED BY <2>1, <2>3, <3>1 DEF ProbeOn
    <2> QED BY <2>2, <2>3
  <1> QED BY <1>1, <1>2, <1>3 DEF Probe

Replaces ==
    /\ op.name = "insert" /\ AtKey /\ StoreEntry
    /\ count' = count /\ result' = None /\ misses' = misses
Adds ==
    /\ op.name = "insert" /\ AtEnd /\ StoreEntry
    /\ count' = count + 1 /\ result' = None /\ misses' = misses
Finds ==
    /\ op.name = "search" /\ (AtKey \/ AtEnd) /\ items' = items
    /\ count' = count /\ misses' = misses
    /\ result' = IF AtKey THEN Here.value ELSE None
Ends ==
    /\ op.name \in {"update", "delete"} /\ AtEnd /\ items' = items
    /\ result' = None
    /\ IF op.name = "delete"
       THEN count' = count - 1 /\ misses' = IF hit THEN misses ELSE misses + 1
       ELSE count' = count /\ misses' = misses

LEMMA FinishShape ==
    ASSUME Finishing
    PROVE  /\ op # None /\ op' = None /\ hit' = FALSE /\ UNCHANGED <<index, i>>
           /\ Replaces \/ Adds \/ Finds \/ Ends
  <1>1. CASE InsertReplace
    BY <1>1 DEF InsertReplace, Finish, Replaces, StoreEntry
  <1>2. CASE InsertNew
    BY <1>2 DEF InsertNew, Finish, Adds, StoreEntry
  <1>3. CASE Search
    BY <1>3 DEF Search, Finish, Finds
  <1>4. CASE Update
    BY <1>4 DEF Update, Finish, Ends
  <1>5. CASE Delete
    BY <1>5 DEF Delete, Finish, Ends
  <1> QED BY <1>1, <1>2, <1>3, <1>4, <1>5 DEF Finishing

LEMMA StepCases ==
    ASSUME [Next]_vars
    PROVE  Call \/ Probe \/ Finishing \/ UNCHANGED vars
  BY DEF Next, Step, Probe, Finishing

-----------------------------------------------------------------------------
(* The operation in progress has reached its bucket along its probe         *)
(* sequence, has passed no free bucket and has left none with its key       *)
(* behind, but for the entry it has updated; and what it has already done   *)
(* to the table is done for every bucket.                                   *)
Passed(p) == items[Bucket(op.key, p)]

ProbeInv ==
    op # None =>
      /\ index = Bucket(op.key, i - 1)
      /\ \A p \in 0..(i - 2) :
            /\ Passed(p) # None
            /\ Passed(p) \in Item /\ Passed(p).key = op.key
                 => op.name = "update" /\ hit
      /\ hit => /\ op.name \in {"update", "delete"}
                /\ \A b \in Stored : items[b].key = op.key =>
                      op.name = "update" /\ items[b].value = op.value
      /\ op.name = "delete" => misses < MaxMisses

Inv == TypeOK /\ ProbeInv /\ UniqueKeys /\ Reachable

LEMMA TypeStep ==
    ASSUME TypeOK, ProbeInv, [Next]_vars
    PROVE  TypeOK'
  <1> USE HashAssumption
  <1>1. CASE Call
    <2>1. PICK o \in Operation : op' = o /\ index' = Bucket(o.key, 0)
      BY <1>1 DEF Call
    <2>2. index' \in Buckets
      BY <2>1, BucketType DEF Operation
    <2>3. i' = 1 /\ hit' = FALSE /\ UNCHANGED <<items, count, result, misses>>
      BY <1>1 DEF Call
    <2>4. 1 \in 1..(MaxProbes + 1) /\ FALSE \in BOOLEAN
      OBVIOUS
    <2> QED BY <2>1, <2>2, <2>3, <2>4 DEF TypeOK
  <1>2. CASE Probe
    <2>1. /\ op # None /\ i <= MaxProbes /\ i' = i + 1
          /\ index' = Bucket(op.key, i)
          /\ UNCHANGED <<op, result, misses, count>>
          /\ items' = items \/ StoreEntry \/ StoreDeleted
          /\ hit' = hit \/ hit' = TRUE
      BY <1>2, ProbeShape
    <2>2. /\ op \in Operation /\ index \in Buckets /\ i \in Nat
          /\ items \in [Buckets -> Slot]
      BY <2>1, InProgress DEF TypeOK
    <2>3. Entry \in Slot /\ Deleted \in Slot /\ op.key \in Keys
      BY <2>2, EntryType DEF Slot
    <2>4. items' \in [Buckets -> Slot]
      BY <2>1, <2>2, <2>3 DEF StoreEntry, StoreDeleted
    <2>5. index' \in Buckets
      BY <2>1, <2>2, <2>3, BucketType
    <2>6. i' \in 1..(MaxProbes + 1) /\ hit' \in BOOLEAN
      <3>1. i' \in 1..(MaxProbes + 1)
        BY <2>1, <2>2
      <3>2. hit' \in BOOLEAN
        BY <2>1, Zenon DEF TypeOK
      <3> QED BY <3>1, <3>2
    <2>7. UNCHANGED <<op, result, misses, count>>
      BY <2>1
    <2> QED BY <2>4, <2>5, <2>6, <2>7 DEF TypeOK
  <1>3. CASE Finishing
    <2>1. /\ op # None /\ op' = None /\ hit' = FALSE /\ UNCHANGED <<index, i>>
          /\ Replaces \/ Adds \/ Finds \/ Ends
      BY <1>3, FinishShape
    <2>2. /\ op \in Operation /\ index \in Buckets
          /\ items \in [Buckets -> Slot] /\ Here \in Slot
      BY <2>1, InProgress
    <2>3. items' \in [Buckets -> Slot]
      <3>1. Entry \in Slot
        BY <2>2, EntryType DEF Slot
      <3>2. items' = items \/ StoreEntry
        BY <2>1 DEF Replaces, Adds, Finds, Ends
      <3> QED BY <2>2, <3>1, <3>2 DEF StoreEntry
    <2>4. result' \in Values \cup {None}
      <3>1. AtKey => Here.value \in Values
        BY DEF AtKey, Item
      <3> QED BY <2>1, <3>1 DEF Replaces, Adds, Finds, Ends
    <2>5. count' \in Int
      BY <2>1 DEF Replaces, Adds, Finds, Ends, TypeOK
    <2>6. misses' \in 0..MaxMisses
      BY <2>1 DEF Replaces, Adds, Finds, Ends, TypeOK, ProbeInv
    <2> QED BY <2>1, <2>3, <2>4, <2>5, <2>6 DEF TypeOK
  <1>4. CASE UNCHANGED vars
    BY <1>4 DEF vars, TypeOK
  <1> QED BY <1>1, <1>2, <1>3, <1>4, StepCases

-----------------------------------------------------------------------------
(* An operation that has done nothing yet and comes to a free bucket: its   *)
(* key is not in the table.                                                 *)
LEMMA Absent ==
    ASSUME Inv, op # None, AtEnd,
           op.name = "update" => ~hit
    PROVE  \A b \in Stored : items[b].key # op.key
  <1> SUFFICES ASSUME NEW b \in Stored, items[b].key = op.key
               PROVE  FALSE
    OBVIOUS
  <1>1. PICK n \in 0..MaxProbes :
          /\ Bucket(op.key, n) = b
          /\ \A p \in 0..(n - 1) : items[Bucket(op.key, p)] # None
    BY DEF Inv, Reachable
  <1>2. items[Bucket(op.key, i - 1)] = None /\ i \in Nat \ {0} /\ MaxProbes \in Nat
    BY HashAssumption DEF Inv, TypeOK, ProbeInv, AtEnd, Here
  <1>3. items[b] \in Item /\ None \notin Item
    BY MarkerAssumption DEF Stored
  <1>4. n # i - 1
    BY <1>1, <1>2, <1>3
  <1>5. CASE n < i - 1
    <2>1. n \in 0..(i - 2)
      BY <1>1, <1>2, <1>5
    <2>2. Passed(n) \in Item /\ Passed(n).key = op.key
      BY <1>1, <1>3 DEF Passed
    <2> QED BY <2>1, <2>2 DEF Inv, ProbeInv
  <1>6. CASE n > i - 1
    <2>1. i - 1 \in 0..(n - 1)
      BY <1>1, <1>2, <1>6
    <2> QED BY <1>1, <1>2, <2>1
  <1> QED BY <1>1, <1>2, <1>4, <1>5, <1>6

(* What storing an entry, or a tombstone in the place of one, makes of the  *)
(* buckets.                                                                 *)
LEMMA AfterEntry ==
    ASSUME TypeOK, op # None, StoreEntry
    PROVE  /\ items'[index] = Entry
           /\ \A b \in Buckets \ {index} : items'[b] = items[b]
           /\ Stored' = Stored \cup {index}
           /\ \A b \in Buckets : items[b] # None => items'[b] # None
  <1>1. /\ op \in Operation /\ index \in Buckets /\ items \in [Buckets -> Slot]
    BY InProgress
  <1>2. Entry \in Item /\ Entry # None
    BY <1>1, EntryType
  <1>3. /\ items'[index] = Entry
        /\ \A b \in Buckets \ {index} : items'[b] = items[b]
    BY <1>1 DEF StoreEntry
  <1> QED BY <1>1, <1>2, <1>3 DEF Stored

LEMMA AfterDeleted ==
    ASSUME TypeOK, op # None, StoreDeleted
    PROVE  /\ items'[index] = Deleted
           /\ \A b \in Buckets \ {index} : items'[b] = items[b]
           /\ Stored' = Stored \ {index}
           /\ \A b \in Buckets : items[b] # None => items'[b] # None
  <1>1. /\ op \in Operation /\ index \in Buckets /\ items \in [Buckets -> Slot]
    BY InProgress
  <1>2. Deleted \notin Item /\ Deleted # None
    BY MarkerAssumption
  <1>3. /\ items'[index] = Deleted
        /\ \A b \in Buckets \ {index} : items'[b] = items[b]
    BY <1>1 DEF StoreDeleted
  <1> QED BY <1>1, <1>2, <1>3 DEF Stored

(* A probe sequence that was whole stays so as long as no bucket is freed.  *)
LEMMA StaysReachable ==
    ASSUME TypeOK, Reachable,
           \A b \in Buckets : items[b] # None => items'[b] # None,
           NEW b \in Stored', b \in Stored, items'[b].key = items[b].key
    PROVE  \E n \in 0..MaxProbes :
             /\ Bucket(items'[b].key, n) = b
             /\ \A p \in 0..(n - 1) : items'[Bucket(items'[b].key, p)] # None
  <1>1. PICK n \in 0..MaxProbes :
          /\ Bucket(items[b].key, n) = b
          /\ \A p \in 0..(n - 1) : items[Bucket(items[b].key, p)] # None
    BY DEF Reachable
  <1>2. items[b].key \in Keys
    BY DEF Stored, Item
  <1>3. \A p \in 0..(n - 1) : Bucket(items[b].key, p) \in Buckets
    <2> SUFFICES ASSUME NEW p \in 0..(n - 1)
                 PROVE  Bucket(items[b].key, p) \in Buckets
      OBVIOUS
    <2>1. p \in Nat
      BY HashAssumption
    <2> QED BY <1>2, <2>1, BucketType
  <1> QED BY <1>1, <1>3

-----------------------------------------------------------------------------
(* A step leaves the table alone, stores the entry where its key is or, for *)
(* a key that is nowhere, in a free bucket, or puts a tombstone where the   *)
(* key is.                                                                  *)
Writes ==
    \/ items' = items
    \/ op # None /\ StoreEntry /\ AtKey
    \/ op # None /\ StoreEntry /\ AtEnd /\ \A b \in Stored : items[b].key # op.key
    \/ op # None /\ StoreDeleted /\ AtKey

LEMMA StepWrites ==
    ASSUME Inv, [Next]_vars
    PROVE  Writes
  <1>1. CASE Call
    BY <1>1 DEF Call, Writes
  <1>2. CASE Probe
    BY <1>2, ProbeShape DEF Inv, Writes
  <1>3. CASE Finishing
    <2>1. op # None /\ (Replaces \/ Adds \/ Finds \/ Ends)
      BY <1>3, FinishShape
    <2>2. CASE Adds
      <3>1. \A b \in Stored : items[b].key # op.key
        BY <2>1, <2>2, Absent DEF Adds
      <3> QED BY <2>1, <2>2, <3>1 DEF Adds, Writes
    <2> QED BY <2>1, <2>2 DEF Replaces, Finds, Ends, Writes
  <1>4. CASE UNCHANGED vars
    BY <1>4 DEF vars, Writes
  <1> QED BY <1>1, <1>2, <1>3, <1>4, StepCases

LEMMA UniqueStep ==
    ASSUME Inv, Writes
    PROVE  UniqueKeys'
  <1>1. CASE items' = items
    BY <1>1 DEF Inv, UniqueKeys, Stored
  <1>2. CASE op # None /\ StoreEntry /\ AtKey
    <2>1. /\ items'[index] = Entry /\ Entry.key = op.key
          /\ \A b \in Buckets \ {index} : items'[b] = items[b]
          /\ Stored' = Stored \cup {index}
      BY <1>2, AfterEntry, InProgress, EntryType DEF Inv
    <2>2. index \in Stored /\ items[index].key = op.key
      BY <1>2, InProgress DEF Inv, Stored, AtKey, Here
    <2>3. \A b \in Stored' : b \in Stored /\ items'[b].key = items[b].key
      BY <2>1, <2>2 DEF Stored
    <2> QED BY <2>3 DEF Inv, UniqueKeys
  <1>3. CASE /\ op # None /\ StoreEntry /\ AtEnd
             /\ \A b \in Stored : items[b].key # op.key
    <2>1. /\ items'[index] = Entry /\ Entry.key = op.key
          /\ \A b \in Buckets \ {index} : items'[b] = items[b]
          /\ Stored' = Stored \cup {index}
      BY <1>3, AfterEntry, InProgress, EntryType DEF Inv
    <2>2. \A b \in Stored' \ {index} : b \in Stored /\ items'[b] = items[b]
      BY <2>1 DEF Stored
    <2>3. \A b \in Stored' \ {index} : items'[b].key # op.key
      BY <1>3, <2>2
    <2> QED BY <2>1, <2>2, <2>3 DEF Inv, UniqueKeys
  <1>4. CASE op # None /\ StoreDeleted /\ AtKey
    <2>1. \A b \in Stored' : b \in Stored /\ items'[b] = items[b]
      BY <1>4, AfterDeleted DEF Inv, Stored
    <2> QED BY <2>1 DEF Inv, UniqueKeys
  <1> QED BY <1>1, <1>2, <1>3, <1>4 DEF Writes

LEMMA ReachStep ==
    ASSUME Inv, Writes
    PROVE  Reachable'
  <1> USE DEF Inv
  <1> SUFFICES ASSUME NEW b \in Stored'
               PROVE  \E n \in 0..MaxProbes :
                        /\ Bucket(items'[b].key, n) = b
                        /\ \A p \in 0..(n - 1) : items'[Bucket(items'[b].key, p)] # None
    BY DEF Reachable
  <1>1. CASE items' = items
    <2>1. b \in Stored
      BY <1>1 DEF Stored
    <2> QED BY <1>1, <2>1 DEF Reachable
  <1>2. CASE op # None /\ StoreEntry /\ AtKey
    <2>1. /\ items'[index] = Entry /\ Entry.key = op.key
          /\ \A c \in Buckets \ {index} : items'[c] = items[c]
          /\ Stored' = Stored \cup {index}
          /\ \A c \in Buckets : items[c] # None => items'[c] # None
      BY <1>2, AfterEntry, InProgress, EntryType
    <2>2. index \in Stored /\ items[index].key = op.key
      BY <1>2, InProgress DEF Stored, AtKey, Here
    <2>3. b \in Stored /\ items'[b].key = items[b].key
      BY <2>1, <2>2 DEF Stored
    <2> QED BY <2>1, <2>3, StaysReachable
  <1>3. CASE /\ op # None /\ StoreEntry /\ AtEnd
             /\ \A c \in Stored : items[c].key # op.key
    <2>1. /\ items'[index] = Entry /\ Entry.key = op.key
          /\ \A c \in Buckets \ {index} : items'[c] = items[c]
          /\ Stored' = Stored \cup {index}
          /\ \A c \in Buckets : items[c] # None => items'[c] # None
      BY <1>3, AfterEntry, InProgress, EntryType
    <2>2. CASE b = index
      <3>1. /\ index = Bucket(op.key, i - 1)
            /\ \A p \in 0..(i - 2) : items[Bucket(op.key, p)] # None
        BY <1>3 DEF ProbeInv, Passed
      <3>2. i - 1 \in 0..MaxProbes /\ (i - 1) - 1 = i - 2
        BY HashAssumption DEF TypeOK
      <3>3. op.key \in Keys
        BY <1>3, InProgress, EntryType
      <3>4. \A p \in 0..(i - 2) : items'[Bucket(op.key, p)] # None
        <4> SUFFICES ASSUME NEW p \in 0..(i - 2)
                     PROVE  items'[Bucket(op.key, p)] # None
          OBVIOUS
        <4>1. p \in Nat
          BY <3>2
        <4>2. Bucket(op.key, p) \in Buckets
          BY <3>3, <4>1, BucketType
        <4> QED BY <2>1, <3>1, <4>2
      <3> QED BY <2>1, <2>2, <3>1, <3>2, <3>4
    <2>3. CASE b # index
      <3>1. b \in Stored /\ items'[b].key = items[b].key
        BY <2>1, <2>3 DEF Stored
      <3> QED BY <2>1, <3>1, StaysReachable
    <2> QED BY <2>2, <2>3
  <1>4. CASE op # None /\ StoreDeleted /\ AtKey
    <2>1. /\ b \in Stored /\ items'[b] = items[b]
          /\ \A c \in Buckets : items[c] # None => items'[c] # None
      BY <1>4, AfterDeleted DEF Stored
    <2> QED BY <2>1, StaysReachable
  <1> QED BY <1>1, <1>2, <1>3, <1>4 DEF Writes

LEMMA ProbeInvStep ==
    ASSUME Inv, [Next]_vars
    PROVE  ProbeInv'
  <1> USE DEF Inv
  <1>1. CASE Call
    <2>1. PICK o \in Operation :
             /\ o.name = "delete" => misses < MaxMisses
             /\ op' = o /\ index' = Bucket(o.key, 0)
      BY <1>1 DEF Call
    <2>2. i' = 1 /\ ~hit' /\ misses' = misses
      BY <1>1 DEF Call
    <2> QED BY <2>1, <2>2 DEF ProbeInv
  <1>2. CASE Probe
    <2>1. /\ op # None /\ i <= MaxProbes /\ i' = i + 1
          /\ index' = Bucket(op.key, i)
          /\ op' = op /\ misses' = misses
          /\ ~AtEnd
      BY <1>2, ProbeShape
    <2>2. /\ i \in Nat \ {0} /\ op \in Operation /\ op.key \in Keys
          /\ index \in Buckets /\ items \in [Buckets -> Slot]
      BY <2>1, InProgress, EntryType DEF TypeOK
    <2>3. index' = Bucket(op'.key, i' - 1) /\ i' - 2 = i - 1
      BY <2>1, <2>2
    <2>4. /\ index = Bucket(op.key, i - 1)
          /\ \A p \in 0..(i - 1) : p = i - 1 \/ p \in 0..(i - 2)
          /\ \A p \in 0..(i - 1) : Bucket(op.key, p) \in Buckets
      <3>1. index = Bucket(op.key, i - 1)
        BY <2>1 DEF ProbeInv
      <3>2. \A p \in 0..(i - 1) : p \in Nat /\ (p = i - 1 \/ p \in 0..(i - 2))
        BY <2>2
      <3> QED BY <2>2, <3>1, <3>2, BucketType
    <2>5. op.name = "delete" => misses < MaxMisses
      BY <2>1 DEF ProbeInv
    <2>6. CASE ~AtKey /\ items' = items /\ hit' = hit
      <3>1. Here \in Item => Here.key # op.key
        BY <2>6 DEF AtKey
      <3>2. ASSUME NEW p \in 0..(i - 1)
            PROVE  /\ Passed(p)' # None
                   /\ Passed(p)' \in Item /\ Passed(p)'.key = op.key
                        => op.name = "update" /\ hit'
        <4>1. Passed(p)' = Passed(p)
          BY <2>1, <2>6 DEF Passed
        <4>2. CASE p = i - 1
          BY <2>1, <2>4, <3>1, <4>1, <4>2 DEF Passed, Here, AtEnd
        <4>3. CASE p \in 0..(i - 2)
          BY <2>1, <2>6, <4>1, <4>3 DEF ProbeInv
        <4> QED BY <2>4, <4>2, <4>3
      <3>3. Stored' = Stored
        BY <2>6 DEF Stored
      <3>4. hit => /\ op.name \in {"update", "delete"}
                   /\ \A b \in Stored : items[b].key = op.key =>
                        op.name = "update" /\ items[b].value = op.value
        BY <2>1 DEF ProbeInv
      <3> QED BY <2>1, <2>3, <2>5, <2>6, <3>2, <3>3, <3>4 DEF ProbeInv
    <2>7. ASSUME AtKey
          PROVE  index \in Stored /\ items[index].key = op.key
      BY <2>1, <2>7, InProgress DEF Stored, AtKey, Here
    <2>8. CASE AtKey /\ hit' = TRUE /\ op.name = "update" /\ StoreEntry
      <3>1. /\ items'[index] = Entry /\ Entry.value = op.value
            /\ \A b \in Buckets \ {index} : items'[b] = items[b]
            /\ Stored' = Stored \cup {index}
            /\ \A b \in Buckets : items[b] # None => items'[b] # None
        BY <2>1, <2>2, <2>8, AfterEntry, EntryType
      <3>2. ASSUME NEW p \in 0..(i - 1) PROVE Passed(p)' # None
        <4>1. Passed(p)' = items'[Bucket(op.key, p)]
          BY <2>1 DEF Passed
        <4>2. items[Bucket(op.key, p)] # None
          <5>1. CASE p = i - 1
            BY <2>1, <2>4, <5>1 DEF AtEnd, Here
          <5>2. CASE p \in 0..(i - 2)
            BY <2>1, <5>2 DEF ProbeInv, Passed
          <5> QED BY <2>4, <5>1, <5>2
        <4> QED BY <2>4, <3>1, <4>1, <4>2
      <3>3. ASSUME NEW b \in Stored', items'[b].key = op.key
            PROVE  items'[b].value = op.value
        <4>1. CASE b = index
          BY <3>1, <4>1
        <4>2. CASE b # index
          <5>1. b \in Stored /\ items'[b] = items[b]
            BY <3>1, <4>2 DEF Stored
          <5> QED BY <2>7, <2>8, <3>3, <4>2, <5>1 DEF UniqueKeys
        <4> QED BY <4>1, <4>2
      <3> QED BY <2>1, <2>3, <2>5, <2>8, <3>2, <3>3 DEF ProbeInv
    <2>9. CASE AtKey /\ hit' = TRUE /\ op.name = "delete" /\ StoreDeleted
      <3>1. /\ items'[index] = Deleted /\ Deleted \notin Item
            /\ \A b \in Buckets \ {index} : items'[b] = items[b]
            /\ Stored' = Stored \ {index}
            /\ \A b \in Buckets : items[b] # None => items'[b] # None
        BY <2>1, <2>9, AfterDeleted, MarkerAssumption
      <3>2. ASSUME NEW b \in Buckets, items'[b] \in Item
            PROVE  items'[b].key # op.key
        <4>1. b # index /\ items'[b] = items[b] /\ b \in Stored
          BY <3>1, <3>2 DEF Stored
        <4> QED BY <2>7, <2>9, <4>1 DEF UniqueKeys
      <3>3. ASSUME NEW p \in 0..(i - 1)
            PROVE  /\ Passed(p)' # None
                   /\ ~(Passed(p)' \in Item /\ Passed(p)'.key = op.key)
        <4>1. Passed(p)' = items'[Bucket(op.key, p)]
          BY <2>1 DEF Passed
        <4>2. items[Bucket(op.key, p)] # None
          <5>1. CASE p = i - 1
            BY <2>1, <2>4, <5>1 DEF AtEnd, Here
          <5>2. CASE p \in 0..(i - 2)
            BY <2>1, <5>2 DEF ProbeInv, Passed
          <5> QED BY <2>4, <5>1, <5>2
        <4> QED BY <2>4, <3>1, <3>2, <4>1, <4>2
      <3>4. \A b \in Stored' : items'[b].key # op.key
        BY <3>2 DEF Stored
      <3> QED BY <2>1, <2>3, <2>5, <2>9, <3>3, <3>4 DEF ProbeInv
    <2> QED BY <1>2, <2>6, <2>8, <2>9, ProbeShape
  <1>3. CASE Finishing
    BY <1>3, FinishShape DEF ProbeInv
  <1>4. CASE UNCHANGED vars
    BY <1>4 DEF vars, ProbeInv, Passed, Stored
  <1> QED BY <1>1, <1>2, <1>3, <1>4, StepCases

LEMMA InvStep == Inv /\ [Next]_vars => Inv'
  <1> SUFFICES ASSUME Inv, [Next]_vars PROVE Inv'
    OBVIOUS
  <1>1. TypeOK'
    BY TypeStep DEF Inv
  <1>2. ProbeInv'
    BY ProbeInvStep
  <1>3. UniqueKeys' /\ Reachable'
    BY StepWrites, UniqueStep, ReachStep
  <1> QED BY <1>1, <1>2, <1>3 DEF Inv

LEMMA InvInit == Init => Inv
  <1> SUFFICES ASSUME Init PROVE Inv
    OBVIOUS
  <1>1. Stored = {}
    BY MarkerAssumption DEF Init, Stored
  <1>2. TypeOK
    <2>1. items \in [Buckets -> Slot] /\ 0 \in Buckets
      BY HashAssumption DEF Init, Slot, Buckets
    <2>2. 1 \in 1..(MaxProbes + 1) /\ 0 \in 0..MaxMisses
      BY HashAssumption
    <2>3. /\ count = 0 /\ op = None /\ index = 0 /\ i = 1 /\ hit = FALSE
          /\ result = None /\ misses = 0
      BY DEF Init
    <2>4. count \in Int
      BY <2>3
    <2> QED BY <2>1, <2>2, <2>3, <2>4, Zenon DEF TypeOK
  <1>3. ProbeInv
    BY DEF Init, ProbeInv
  <1> QED BY <1>1, <1>2, <1>3 DEF Inv, UniqueKeys, Reachable

(* Type correctness, for every size and pair of hash functions: a probe     *)
(* never leaves the table.                                                  *)
THEOREM TypeCorrect == Spec => []TypeOK
  <1>1. Inv => TypeOK
    BY DEF Inv
  <1> QED BY <1>1, InvInit, InvStep, PTL DEF Spec

(* No key is stored twice.                                                  *)
THEOREM UniqueKeysCorrect == Spec => []UniqueKeys
  <1>1. Inv => UniqueKeys
    BY DEF Inv
  <1> QED BY <1>1, InvInit, InvStep, PTL DEF Spec

(* Every stored key is found before a free bucket on its probe sequence.    *)
THEOREM ReachableCorrect == Spec => []Reachable
  <1>1. Inv => Reachable
    BY DEF Inv
  <1> QED BY <1>1, InvInit, InvStep, PTL DEF Spec

-----------------------------------------------------------------------------
(* The map that a table t with entries at the buckets S stands for.         *)
MapFrom(t, S) == [k \in Keys |->
                    IF \E b \in S : t[b].key = k
                    THEN t[CHOOSE b \in S : t[b].key = k].value
                    ELSE None]

LEMMA MapFromType ==
    ASSUME NEW t, NEW S
    PROVE  MapFrom(t, S) = [k \in Keys |-> MapFrom(t, S)[k]]
  BY DEF MapFrom

LEMMA MapOfFrom == MapOf = MapFrom(items, Stored)
  BY DEF MapOf, MapFrom

LEMMA Lookup ==
    ASSUME NEW t, NEW S, NEW k \in Keys, NEW b \in S, t[b].key = k,
           \A c \in S : t[c].key = k => c = b
    PROVE  MapFrom(t, S)[k] = t[b].value
  <1>1. (CHOOSE c \in S : t[c].key = k) = b
    OBVIOUS
  <1> QED BY <1>1 DEF MapFrom

LEMMA LookupAbsent ==
    ASSUME NEW t, NEW S, NEW k \in Keys, \A c \in S : t[c].key # k
    PROVE  MapFrom(t, S)[k] = None
  BY DEF MapFrom

(* The value of the key an operation has come to.                           *)
LEMMA MapAtKey ==
    ASSUME Inv, op # None, AtKey
    PROVE  /\ op.key \in Keys /\ MapOf[op.key] = Here.value
           /\ Here.value \in Values /\ MapOf[op.key] # None
  <1>1. /\ index \in Stored /\ items[index].key = op.key /\ op.key \in Keys
        /\ Here = items[index] /\ items[index] \in Item
    BY InProgress, EntryType DEF Inv, Stored, AtKey, Here
  <1>2. \A c \in Stored : items[c].key = op.key => c = index
    BY <1>1 DEF Inv, UniqueKeys
  <1>3. MapOf[op.key] = items[index].value
    BY <1>1, <1>2, Lookup, MapOfFrom
  <1>4. items[index].value \in Values /\ None \notin Values
    BY <1>1, HashAssumption DEF Item
  <1> QED BY <1>1, <1>3, <1>4

LEMMA MapAbsent ==
    ASSUME Inv, op # None, AtEnd, op.name = "update" => ~hit
    PROVE  op.key \in Keys /\ MapOf[op.key] = None
  <1>1. op.key \in Keys
    BY InProgress, EntryType DEF Inv
  <1>2. \A b \in Stored : items[b].key # op.key
    BY Absent
  <1> QED BY <1>1, <1>2, LookupAbsent, MapOfFrom

(* What the two kinds of write do to the map.                               *)
LEMMA MapStored ==
    ASSUME Inv, op # None, StoreEntry,
           AtKey \/ (AtEnd /\ \A b \in Stored : items[b].key # op.key)
    PROVE  MapOf' = [MapOf EXCEPT ![op.key] = op.value]
  <1>1. /\ items'[index] = Entry /\ Entry.key = op.key /\ Entry.value = op.value
        /\ \A b \in Buckets \ {index} : items'[b] = items[b]
        /\ Stored' = Stored \cup {index}
        /\ op.key \in Keys
    BY AfterEntry, InProgress, EntryType DEF Inv
  <1>2. \A b, c \in Stored' : items'[b].key = items'[c].key => b = c
    <2>1. Writes
      BY DEF Writes
    <2> QED BY <2>1, UniqueStep DEF UniqueKeys
  <1>3. \A b \in Stored' \ {index} : b \in Stored /\ items'[b] = items[b]
    BY <1>1 DEF Stored
  <1>4. MapOf' = MapFrom(items', Stored')
    BY DEF MapOf, MapFrom
  <1>5. MapFrom(items', Stored')[op.key] = op.value
    BY <1>1, <1>2, Lookup
  <1>6. ASSUME NEW k \in Keys, k # op.key
        PROVE  MapFrom(items', Stored')[k] = MapFrom(items, Stored)[k]
    <2>1. \A b \in Stored' : items'[b].key = k => b \in Stored /\ items[b].key = k
      BY <1>1, <1>3, <1>6
    <2>2. \A b \in Stored : items[b].key = k => b # index
      <3>1. AtKey \/ AtEnd
        OBVIOUS
      <3>2. CASE AtKey
        BY <1>6, <3>2 DEF AtKey, Here
      <3>3. CASE AtEnd
        BY <3>3, MarkerAssumption DEF AtEnd, Here, Stored
      <3> QED BY <3>1, <3>2, <3>3
    <2>3. \A b \in Stored : items[b].key = k => b \in Stored' /\ items'[b] = items[b]
      BY <1>1, <2>2 DEF Stored
    <2>4. CASE \E b \in Stored : items[b].key = k
      <3>1. PICK b \in Stored : items[b].key = k
        BY <2>4
      <3>2. MapFrom(items, Stored)[k] = items[b].value
        BY <3>1, Lookup DEF Inv, UniqueKeys
      <3>3. b \in Stored' /\ items'[b] = items[b]
        BY <2>3, <3>1
      <3>4. MapFrom(items', Stored')[k] = items'[b].value
        BY <1>2, <3>1, <3>3, Lookup
      <3> QED BY <3>2, <3>3, <3>4
    <2>5. CASE ~\E b \in Stored : items[b].key = k
      BY <2>1, <2>5, LookupAbsent
    <2> QED BY <2>4, <2>5
  <1> QED BY <1>1, <1>4, <1>5, <1>6, MapOfFrom, MapFromType

LEMMA MapDeleted ==
    ASSUME Inv, op # None, StoreDeleted, AtKey
    PROVE  MapOf' = [MapOf EXCEPT ![op.key] = None]
  <1>1. /\ \A b \in Buckets \ {index} : items'[b] = items[b]
        /\ Stored' = Stored \ {index}
        /\ op.key \in Keys
        /\ index \in Stored /\ items[index].key = op.key
    BY AfterDeleted, InProgress, EntryType DEF Inv, Stored, AtKey, Here
  <1>2. \A b \in Stored' : b \in Stored /\ items'[b] = items[b]
    BY <1>1 DEF Stored
  <1>3. \A b \in Stored' : items'[b].key # op.key
    BY <1>1, <1>2 DEF Inv, UniqueKeys
  <1>4. MapOf' = MapFrom(items', Stored')
    BY DEF MapOf, MapFrom
  <1>5. MapFrom(items', Stored')[op.key] = None
    BY <1>1, <1>3, LookupAbsent
  <1>6. ASSUME NEW k \in Keys, k # op.key
        PROVE  MapFrom(items', Stored')[k] = MapFrom(items, Stored)[k]
    <2>1. \A b \in Stored : items[b].key = k => b \in Stored' /\ items'[b] = items[b]
      BY <1>1, <1>2, <1>6
    <2>2. CASE \E b \in Stored : items[b].key = k
      <3>1. PICK b \in Stored : items[b].key = k
        BY <2>2
      <3>2. \A c \in Stored : items[c].key = k => c = b
        BY <3>1 DEF Inv, UniqueKeys
      <3>3. MapFrom(items, Stored)[k] = items[b].value
        BY <3>1, <3>2, Lookup
      <3>4. MapFrom(items', Stored')[k] = items'[b].value
        BY <1>2, <2>1, <3>1, <3>2, Lookup
      <3> QED BY <2>1, <3>1, <3>3, <3>4
    <2>3. CASE ~\E b \in Stored : items[b].key = k
      BY <1>2, <2>3, LookupAbsent
    <2> QED BY <2>2, <2>3
  <1> QED BY <1>1, <1>4, <1>5, <1>6, MapOfFrom, MapFromType

-----------------------------------------------------------------------------
LEMMA MapSame == items' = items => MapOf' = MapOf
  BY DEF MapOf, Stored

LEMMA MapType == MapOf = [k \in Keys |-> MapOf[k]]
  BY DEF MapOf

mapVars == <<MapOf, op, hit, result>>

LEMMA MapRefines ==
    ASSUME Inv, [Next]_vars
    PROVE  [Map!Next]_mapVars
  <1>1. CASE Call
    <2>1. op = None /\ op' \in Operation /\ hit' = FALSE /\ result' = result
          /\ items' = items
      BY <1>1 DEF Call
    <2>2. MapOf' = MapOf
      BY <2>1, MapSame
    <2> QED BY <2>1, <2>2 DEF Map!Next, Map!Call, Map!Operation, Operation
  <1>2. CASE Probe
    <2>1. /\ op # None /\ op' = op /\ result' = result
      BY <1>2, ProbeShape DEF Inv
    <2>h. hit \in BOOLEAN
      BY DEF Inv, TypeOK
    <2>2. CASE items' = items /\ hit' = hit
      BY <2>1, <2>2, MapSame DEF mapVars
    <2>3. CASE AtKey /\ hit' = TRUE /\ op.name = "update" /\ StoreEntry
      <3>1. MapOf' = [MapOf EXCEPT ![op.key] = op.value]
        BY <2>1, <2>3, MapStored
      <3>2. op.key \in Keys /\ MapOf[op.key] # None /\ MapOf[op.key] = Here.value
        BY <2>1, <2>3, MapAtKey
      <3>3. CASE ~hit
        <4>1. Map!Apply(op) = [MapOf EXCEPT ![op.key] = op.value]
          BY <2>3, <3>2 DEF Map!Apply
        <4> QED BY <2>1, <2>3, <3>1, <3>3, <4>1 DEF Map!Next, Map!Effect
      <3>4. CASE hit
        <4>1. index \in Stored /\ items[index].key = op.key /\ Here = items[index]
          BY <2>1, <2>3, InProgress DEF Inv, Stored, AtKey, Here
        <4>2. Here.value = op.value
          BY <2>1, <3>4, <4>1 DEF Inv, ProbeInv
        <4>3. MapOf' = MapOf
          BY <3>1, <3>2, <4>2, MapType
        <4> QED BY <2>1, <2>3, <3>4, <4>3 DEF mapVars
      <3> QED BY <3>3, <3>4
    <2>4. CASE AtKey /\ hit' = TRUE /\ op.name = "delete" /\ StoreDeleted
      <3>1. MapOf' = [MapOf EXCEPT ![op.key] = None]
        BY <2>1, <2>4, MapDeleted
      <3>2. index \in Stored /\ items[index].key = op.key
        BY <2>1, <2>4, InProgress DEF Inv, Stored, AtKey, Here
      <3>3. ~hit
        BY <2>1, <2>4, <3>2 DEF Inv, ProbeInv
      <3>4. Map!Apply(op) = [MapOf EXCEPT ![op.key] = None]
        BY <2>4 DEF Map!Apply
      <3> QED BY <2>1, <2>4, <3>1, <3>3, <3>4 DEF Map!Next, Map!Effect
    <2> QED BY <1>2, <2>2, <2>3, <2>4, ProbeShape DEF Inv
  <1>3. CASE Finishing
    <2>1. /\ op # None /\ op' = None /\ hit' = FALSE
          /\ Replaces \/ Adds \/ Finds \/ Ends
      BY <1>3, FinishShape
    <2>2. hit => op.name \in {"update", "delete"}
      BY <2>1 DEF Inv, ProbeInv
    <2>3. CASE Replaces \/ Adds
      <3>1. op.name = "insert" /\ StoreEntry /\ result' = None /\ ~hit
        BY <2>2, <2>3 DEF Replaces, Adds
      <3>2. AtKey \/ (AtEnd /\ \A b \in Stored : items[b].key # op.key)
        <4>1. CASE Replaces
          BY <4>1 DEF Replaces
        <4>2. CASE Adds
          BY <2>1, <3>1, <4>2, Absent DEF Adds
        <4> QED BY <2>3, <4>1, <4>2
      <3>3. MapOf' = [MapOf EXCEPT ![op.key] = op.value]
        BY <2>1, <3>1, <3>2, MapStored
      <3>4. Map!Apply(op) = [MapOf EXCEPT ![op.key] = op.value]
        BY <3>1 DEF Map!Apply
      <3> QED BY <2>1, <3>1, <3>3, <3>4 DEF Map!Next, Map!Return
    <2>4. CASE Finds
      <3>1. /\ op.name = "search" /\ (AtKey \/ AtEnd) /\ items' = items
            /\ result' = (IF AtKey THEN Here.value ELSE None) /\ ~hit
        BY <2>2, <2>4 DEF Finds
      <3>2. result' = MapOf[op.key]
        <4>1. CASE AtKey
          BY <2>1, <3>1, <4>1, MapAtKey
        <4>2. CASE ~AtKey
          BY <2>1, <3>1, <4>2, MapAbsent
        <4> QED BY <4>1, <4>2
      <3>3. Map!Apply(op) = MapOf
        BY <3>1 DEF Map!Apply
      <3> QED BY <2>1, <3>1, <3>2, <3>3, MapSame DEF Map!Next, Map!Return
    <2>5. CASE Ends
      <3>1. /\ op.name \in {"update", "delete"} /\ AtEnd /\ items' = items
            /\ result' = None
        BY <2>5 DEF Ends
      <3>2. ASSUME ~hit PROVE Map!Apply(op) = MapOf
        <4>1. op.key \in Keys /\ MapOf[op.key] = None
          BY <2>1, <3>1, <3>2, MapAbsent
        <4>2. CASE op.name = "update"
          BY <4>1, <4>2 DEF Map!Apply
        <4>3. CASE op.name = "delete"
          <5>1. Map!Apply(op) = [MapOf EXCEPT ![op.key] = None]
            BY <4>3 DEF Map!Apply
          <5> QED BY <4>1, <5>1, MapType
        <4> QED BY <3>1, <4>2, <4>3
      <3> QED BY <2>1, <3>1, <3>2, MapSame DEF Map!Next, Map!Return
    <2> QED BY <2>1, <2>3, <2>4, <2>5
  <1>4. CASE UNCHANGED vars
    BY <1>4, MapSame DEF vars, mapVars
  <1> QED BY <1>1, <1>2, <1>3, <1>4, StepCases

(* Refinement: the table with its probes and tombstones implements the      *)
(* abstract map; each operation that returns took effect once, and a search *)
(* returns what the map holds.                                              *)
THEOREM TableIsMap == Spec => ImplementsMap
  <1>1. Init => Map!Init
    <2> SUFFICES ASSUME Init PROVE Map!Init
      OBVIOUS
    <2>1. Stored = {}
      BY MarkerAssumption DEF Init, Stored
    <2>2. MapOf = [k \in Keys |-> None]
      BY <2>1 DEF MapOf
    <2> QED BY <2>2 DEF Init, Map!Init
  <1>2. Inv /\ [Next]_vars => [Map!Next]_<<MapOf, op, hit, result>>
    BY MapRefines DEF mapVars
  <1> QED BY <1>1, <1>2, InvInit, InvStep, PTL DEF Spec, ImplementsMap, Map!Spec

-----------------------------------------------------------------------------
(* A delete in progress that has left its tombstone has still to count it.  *)
Owed == IF op # None /\ hit /\ op.name = "delete" THEN 1 ELSE 0
CountInv == count = Cardinality(Stored) - misses + Owed

LEMMA StoredFinite == IsFiniteSet(Stored) /\ Cardinality(Stored) \in Nat
  <1>1. IsFiniteSet(Buckets)
    BY HashAssumption, FS_Interval DEF Buckets
  <1>2. Stored \in SUBSET Buckets
    BY DEF Stored
  <1>3. IsFiniteSet(Stored)
    BY <1>1, <1>2, FS_Subset
  <1> QED BY <1>3, FS_CardinalityType

LEMMA CountStep ==
    ASSUME Inv, CountInv, [Next]_vars
    PROVE  CountInv'
  <1>t. /\ count \in Int /\ misses \in Int /\ Owed \in 0..1
        /\ Cardinality(Stored) \in Nat /\ IsFiniteSet(Stored)
        /\ hit \in BOOLEAN
    BY HashAssumption, StoredFinite DEF Inv, TypeOK, Owed
  <1>s. items' = items => Stored' = Stored
    BY DEF Stored
  <1>k. op # None /\ AtKey => index \in Stored /\ items[index].key = op.key
    BY InProgress DEF Inv, Stored, AtKey, Here
  <1>1. CASE Call
    <2>1. /\ op = None /\ ~hit' /\ Stored' = Stored
          /\ count' = count /\ misses' = misses
      BY <1>1, <1>s DEF Call
    <2>2. Owed = 0 /\ Owed' = 0
      BY <2>1 DEF Owed
    <2> QED BY <2>1, <2>2 DEF CountInv
  <1>2. CASE Probe
    <2>1. op # None /\ op' = op /\ misses' = misses /\ count' = count
      BY <1>2, ProbeShape DEF Inv
    <2>2. CASE items' = items /\ hit' = hit
      BY <1>s, <2>1, <2>2 DEF CountInv, Owed
    <2>3. CASE AtKey /\ op.name = "update" /\ StoreEntry
      <3>1. Stored' = Stored
        BY <1>k, <2>1, <2>3, AfterEntry DEF Inv
      <3>2. Owed' = 0 /\ Owed = 0
        BY <2>1, <2>3 DEF Owed
      <3> QED BY <2>1, <3>1, <3>2 DEF CountInv
    <2>4. CASE AtKey /\ hit' = TRUE /\ op.name = "delete" /\ StoreDeleted
      <3>1. Stored' = Stored \ {index}
        BY <2>1, <2>4, AfterDeleted DEF Inv
      <3>2. Cardinality(Stored') = Cardinality(Stored) - 1
        BY <1>k, <1>t, <2>1, <2>4, <3>1, FS_RemoveElement
      <3>3. ~hit
        BY <1>k, <2>1, <2>4 DEF Inv, ProbeInv
      <3>4. Owed = 0 /\ Owed' = 1
        BY <2>1, <2>4, <3>3 DEF Owed
      <3> QED BY <1>t, <2>1, <3>2, <3>4 DEF CountInv
    <2> QED BY <1>2, <2>2, <2>3, <2>4, ProbeShape DEF Inv
  <1>3. CASE Finishing
    <2>1. /\ op # None /\ op' = None /\ hit' = FALSE
          /\ Replaces \/ Adds \/ Finds \/ Ends
      BY <1>3, FinishShape
    <2>2. Owed' = 0
      BY <2>1 DEF Owed
    <2>3. CASE Replaces
      <3>1. Stored' = Stored
        BY <1>k, <2>1, <2>3, AfterEntry DEF Inv, Replaces
      <3>2. Owed = 0
        BY <2>3 DEF Replaces, Owed
      <3> QED BY <2>2, <2>3, <3>1, <3>2 DEF Replaces, CountInv
    <2>4. CASE Adds
      <3>1. Stored' = Stored \cup {index} /\ index \notin Stored
        BY <2>1, <2>4, AfterEntry, MarkerAssumption
           DEF Inv, Adds, Stored, AtEnd, Here
      <3>2. Cardinality(Stored') = Cardinality(Stored) + 1
        BY <1>t, <3>1, FS_AddElement
      <3>3. Owed = 0
        BY <2>4 DEF Adds, Owed
      <3> QED BY <1>t, <2>2, <2>4, <3>2, <3>3 DEF Adds, CountInv
    <2>5. CASE Finds
      <3>1. Owed = 0
        BY <2>5 DEF Finds, Owed
      <3> QED BY <1>s, <2>2, <2>5, <3>1 DEF Finds, CountInv
    <2>6. CASE Ends
      <3>1. Stored' = Stored
        BY <1>s, <2>6 DEF Ends
      <3>2. CASE op.name = "update"
        <4>1. Owed = 0 /\ count' = count /\ misses' = misses
          BY <2>6, <3>2 DEF Ends, Owed
        <4> QED BY <2>2, <3>1, <4>1 DEF CountInv
      <3>3. CASE op.name = "delete"
        <4>1. count' = count - 1 /\ misses' = IF hit THEN misses ELSE misses + 1
          BY <2>6, <3>3 DEF Ends
        <4>2. Owed = IF hit THEN 1 ELSE 0
          BY <2>1, <3>3 DEF Owed
        <4> QED BY <1>t, <2>2, <3>1, <4>1, <4>2 DEF CountInv
      <3> QED BY <2>6, <3>2, <3>3 DEF Ends
    <2> QED BY <2>1, <2>3, <2>4, <2>5, <2>6
  <1>4. CASE UNCHANGED vars
    BY <1>4, <1>s DEF vars, CountInv, Owed
  <1> QED BY <1>1, <1>2, <1>3, <1>4, StepCases

(* Between operations count is the number of stored keys, less one for each *)
(* delete that found nothing.                                               *)
THEOREM CountCorrect == Spec => []CountTracks
  <1>1. Init => CountInv
    <2> SUFFICES ASSUME Init PROVE CountInv
      OBVIOUS
    <2>1. Stored = {}
      BY MarkerAssumption DEF Init, Stored
    <2>2. Cardinality(Stored) = 0
      BY <2>1, FS_EmptySet
    <2>3. count = 0 /\ misses = 0 /\ Owed = 0
      BY DEF Init, Owed
    <2> QED BY <2>2, <2>3 DEF CountInv
  <1>2. Inv /\ CountInv /\ [Next]_vars => CountInv'
    BY CountStep
  <1>3. Inv /\ CountInv => CountTracks
    <2> SUFFICES ASSUME Inv, CountInv, op = None
                 PROVE  count = Cardinality(Stored) - misses
      BY DEF CountTracks
    <2>1. Owed = 0 /\ Cardinality(Stored) \in Nat /\ misses \in Int
      BY HashAssumption, StoredFinite DEF Owed, Inv, TypeOK
    <2> QED BY <2>1 DEF CountInv
  <1> QED BY <1>1, <1>2, <1>3, InvInit, InvStep, PTL DEF Spec
=============================================================================
