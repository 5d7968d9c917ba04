--------------------------- MODULE SplitSchedulers ---------------------------
(***************************************************************************)
(* A split deployment: when the scheduler here is a focused one, a second  *)
(* one, focused on another user, may be started on another host.  The lock *)
(* is a local file, so nothing keeps the two apart: they share the job     *)
(* directories, the snapshot and the QRs, and each has a memory of its     *)
(* own.  The second one runs QueueScheduler over variables of its own.     *)
(*                                                                         *)
(* It may be started at any time.  For TLC, AtFirst bounds it: then it is  *)
(* started before the first submission or not at all, and if it is, no     *)
(* call fails and nobody cleans up from then on.                           *)
(***************************************************************************)
EXTENDS AdminCleanup

CONSTANTS Partner,   \* the user the second scheduler is focused on
          AtFirst    \* bound: TRUE for a start before everything else only

ASSUME PartnerAssumption == Partner \in Users /\ Partner # "all"
ASSUME AtFirstAssumption == AtFirst \in BOOLEAN

VARIABLES theirMem, theirTracked, theirBackoff, theirPhase, theirJobsLeft,
          theirQrsLeft, theirDue, theirLate

theirMemory == <<theirMem, theirTracked, theirBackoff>>
theirLoop   == <<theirPhase, theirJobsLeft, theirQrsLeft, theirDue, theirLate>>
theirVars   == <<theirMemory, theirLoop>>
allVars     == <<vars, adminVars, theirVars>>

There == INSTANCE QueueScheduler WITH
    mem <- theirMem, tracked <- theirTracked, backoff <- theirBackoff,
    phase <- theirPhase, jobsLeft <- theirJobsLeft, qrsLeft <- theirQrsLeft,
    due <- theirDue, late <- theirLate,
    Focus <- [k \in 0..MaxCrashes |-> Partner]

-----------------------------------------------------------------------------
Deployed == theirPhase # "off"

SplitInit ==
    /\ CleanupInit
    /\ theirMem = mem /\ theirTracked = {} /\ theirBackoff = {}
    /\ theirPhase = "off" /\ theirJobsLeft = {} /\ theirQrsLeft = {}
    /\ theirDue = {} /\ theirLate = TRUE

(* Each host has a lock of its own. *)
StartThere ==
    /\ ~Deployed /\ FocusedOn # "all"
    /\ theirPhase' = "idle"
    /\ IF AtFirst
       THEN /\ phase = "idle" /\ step = "ready" /\ \A j \in Jobs : filed[j] = "new"
            /\ step' = "executing" /\ faults' = MaxFaults
       ELSE UNCHANGED <<step, faults>>
    /\ UNCHANGED <<gcsVars, qrs, memVars, loopVars, crashes, named, unjudged,
                   sentence, doomed, theirMemory, theirJobsLeft, theirQrsLeft,
                   theirDue, theirLate>>

StepThere ==
    /\ Deployed
    /\ There!Scheduler \/ \E j \in theirBackoff : There!BackoffOver(j)
    /\ UNCHANGED <<memVars, loopVars, crashes, adminVars>>

SplitNext ==
    \/ CleanupNext /\ UNCHANGED theirVars
    \/ StartThere
    \/ StepThere

SplitSpec == SplitInit /\ [][SplitNext]_allVars

(* Nothing is assumed of the second scheduler: it may stop anywhere.       *)
FairSplitSpec == SplitSpec /\ LoopFairness

-----------------------------------------------------------------------------
(* A focused scheduler leaves other users' jobs alone: it requests no QR   *)
(* for them, answers no retry, changes no status and deletes no QR, except *)
(* to honour a cancellation (README.md:221-227, scheduler.py:711-733).     *)
FocusKeepsToItsUser == [][~UNCHANGED loopVars => KeepsToItsUser]_allVars
=============================================================================
