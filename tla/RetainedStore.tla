---------------------------- MODULE RetainedStore ----------------------------
(***************************************************************************)
(* What the list of retained topics promises: a store with one value for   *)
(* each topic or none.  A value is kept as it was put or dropped, never    *)
(* changed, whether memory runs out, the list is full, or the store is     *)
(* filled from an image of an earlier one that was cut off.                *)
(***************************************************************************)
CONSTANTS Topic, Value, None

VARIABLES
    map,             \* the value of each topic
    saved            \* the values that the image on the storage holds

Init == map = [t \in Topic |-> None] /\ saved = [t \in Topic |-> None]

Put(t, v) == map' = [map EXCEPT ![t] = v] /\ UNCHANGED saved
Drop(t) == map' = [map EXCEPT ![t] = None] /\ UNCHANGED saved
Clear == map' = [t \in Topic |-> None] /\ UNCHANGED saved
Save == saved' = map /\ UNCHANGED map

\* The image is put over the store, as far as it goes.
Load == /\ map' \in [Topic -> Value \cup {None}]
        /\ \A t \in Topic : map'[t] \in {map[t], saved[t], None}
        /\ UNCHANGED saved

Next == (\E t \in Topic : Drop(t) \/ \E v \in Value : Put(t, v)) \/ Clear \/ Save \/ Load

Spec == Init /\ [][Next]_<<map, saved>>
=============================================================================
