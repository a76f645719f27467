----------------------------- MODULE AbstractMap -----------------------------
(***************************************************************************)
(* What the hash table of the ESP32 firmware promises its only caller at a *)
(* time: a partial map from keys to values.  An operation is called, takes *)
(* effect at one moment of its own, and returns; it may also never return. *)
(***************************************************************************)
CONSTANTS
    Keys, Values,
    None           \* neither a key nor a value: NULL

VARIABLES
    map,       \* the value of each key, or None
    pending,   \* the operation in progress, or None
    effected,  \* whether it has taken effect
    result     \* what the last operation returned

Operation == [name : {"insert", "search", "update", "delete"},
              key : Keys, value : Values]

Init ==
    /\ map = [k \in Keys |-> None]
    /\ pending = None
    /\ effected = FALSE
    /\ result = None

Call ==
    /\ pending = None
    /\ pending' \in Operation
    /\ effected' = FALSE
    /\ UNCHANGED <<map, result>>

Apply(o) ==
    CASE o.name = "insert" -> [map EXCEPT ![o.key] = o.value]
      [] o.name = "update" /\ map[o.key] # None
                           -> [map EXCEPT ![o.key] = o.value]
      [] o.name = "delete" -> [map EXCEPT ![o.key] = None]
      [] OTHER -> map

(* An operation may take effect and return in one step.                     *)
Effect ==
    /\ pending # None /\ ~effected
    /\ map' = Apply(pending)
    /\ effected' = TRUE
    /\ UNCHANGED <<pending, result>>

Return ==
    /\ pending # None
    /\ map' = IF effected THEN map ELSE Apply(pending)
    /\ pending' = None
    /\ effected' = FALSE
    /\ result' = IF pending.name = "search" THEN map[pending.key] ELSE None

Next == Call \/ Effect \/ Return

Spec == Init /\ [][Next]_<<map, pending, effected, result>>
=============================================================================
