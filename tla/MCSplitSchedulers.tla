-------------------------- MODULE MCSplitSchedulers --------------------------
(* Values for TLC: bob's job, served by everybody's scheduler, then by one *)
(* that is focused on ann, or by bob's own beside ann's.                   *)
EXTENDS SplitSchedulers, MCQueueScheduler

BobsJobs    == [j \in Jobs |-> "bob"]
AnnAlways   == [k \in 0..MaxCrashes |-> "ann"]
AnnNextTime == [k \in 0..MaxCrashes |-> IF k = 0 THEN "all" ELSE "ann"]
=============================================================================
