-------------------------- MODULE MCQueueScheduler --------------------------
(* Values of the function-valued constants for TLC's small instances.      *)
EXTENDS QueueProperties, TLC

CONSTANTS j1, j2

(* One quota group and one user; j1 comes before j2. *)
OneGroup == [j \in Jobs |-> "v4"]
OneOwner == [j \in Jobs |-> "ann"]
OneChip  == [j \in Jobs |-> 1]
ByName   == [j \in Jobs |-> IF j = j1 THEN 1 ELSE 2]

(* The service serves everybody. *)
Unfocused == [k \in 0..MaxCrashes |-> "all"]

(* max_attempts *)
Once     == [j \in Jobs |-> 1]
Twice    == [j \in Jobs |-> 2]

(* Chips: room for every job at once, or for one at a time. *)
Room     == [g \in Groups |-> Cardinality(Jobs)]
OneSlot  == [g \in Groups |-> 1]
OneEach  == [u \in Users |-> 1]
=============================================================================
