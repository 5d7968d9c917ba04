----------------------------- MODULE SetupBarrier -----------------------------
(***************************************************************************)
(* The startup script on the workers of one attempt: setup, the setup      *)
(* barrier, the user command, and the report a worker leaves when it ends  *)
(* (startup_script.py).  Workers share nothing but objects in GCS, which   *)
(* they read and write one call at a time; pc[h] is the next call of host  *)
(* h.  Any call may fail: a read is then like one that finds nothing, a    *)
(* write ends the script.                                                  *)
(*                                                                         *)
(* The objects are filed under job and attempt, not under the QR: when a   *)
(* crash or a call that timed out has made the scheduler request a second  *)
(* QR for the attempt (scheduler.py:511-516), its slice finds the markers  *)
(* of the first.  So the model has all slices of an attempt, and a slice   *)
(* that starts later finds whatever the others have left.                  *)
(*                                                                         *)
(* HostName, AlmostAll, LeaderTimesOut, AnyReports and FailurePhase are    *)
(* plausible mistakes that no specification uses: a property notices each. *)
(***************************************************************************)
EXTENDS Integers, FiniteSets

CONSTANTS Slices,     \* the QRs requested for the attempt
          Workers,    \* the hosts of a slice by number, spec.resources.workers
                      \* of them
          Unsure,     \* the slices on which hosts may not learn their
                      \* number
          NoReport

ASSUME WorkersAssumption ==
    IsFiniteSet(Workers) /\ Workers \subseteq Nat /\ 0 \in Workers

Hosts == Slices \X Workers

SliceOf(h) == h[1]
Number(h)  == h[2]

ExpectedWorkers == Cardinality(Workers)

VARIABLES
    id,          \* WORKER_ID of host h
    pc,          \* where the script of host h is
    stage,       \* JOB_PHASE of host h
    ready,       \* the ids with a marker setup-ready/worker-ID
    complete,    \* the marker setup-complete
    claimed,     \* the marker claimed
    succeeded,   \* the marker succeeded
    failed       \* the failure report, or NoReport

markers == <<ready, complete, claimed, succeeded>>
vars    == <<id, pc, stage, markers, failed>>

Types == {"SETUP_ERROR", "APPLICATION_ERROR"}

ASSUME ReportAssumption == NoReport \notin [worker : Nat, type : Types]

TypeOK ==
    /\ id \in [Hosts -> Nat]
    /\ pc \in [Hosts -> {"setup", "announce", "poll", "peek", "count",
                           "release", "claim", "command", "stat", "report",
                           "over"}]
    /\ stage \in [Hosts -> {"setup", "setup_barrier", "command"}]
    /\ ready \subseteq Nat
    /\ complete \in BOOLEAN /\ claimed \in BOOLEAN /\ succeeded \in BOOLEAN
    /\ failed \in [worker : Nat, type : Types] \cup {NoReport}

(* get_worker_id: a host that neither its environment nor its name tells   *)
(* its number takes itself for worker 0.                                   *)
WorkerIds ==
    {f \in [Hosts -> Workers] : \A h \in Hosts :
        f[h] = Number(h) \/ (SliceOf(h) \in Unsure /\ f[h] = 0)}

Init ==
    /\ id \in WorkerIds
    /\ pc = [h \in Hosts |-> "setup"] /\ stage = [h \in Hosts |-> "setup"]
    /\ ready = {}
    /\ complete = FALSE /\ claimed = FALSE /\ succeeded = FALSE
    /\ failed = NoReport

Leads(h) == id[h] = 0

Goto(h, there) == pc' = [pc EXCEPT ![h] = there] /\ UNCHANGED id

-----------------------------------------------------------------------------
(* Download and setup command; `set -e` ends the script if one fails.      *)
SetupDone(h) ==
    /\ pc[h] = "setup"
    /\ Goto(h, "announce") /\ stage' = [stage EXCEPT ![h] = "setup_barrier"]
    /\ UNCHANGED <<markers, failed>>

HostName(h)   == Number(h)
MarkerName(h) == id[h]

Announce(h) ==
    /\ pc[h] = "announce"
    /\ Goto(h, "poll")
    /\ ready' = ready \cup {MarkerName(h)}
    /\ UNCHANGED <<stage, complete, claimed, succeeded, failed>>

(* Worker 0: unless a failure is reported, count the ready markers.        *)
LeaderPolls(h) ==
    /\ Leads(h) /\ pc[h] = "poll"
    /\ (failed # NoReport /\ Goto(h, "stat")) \/ Goto(h, "count")
    /\ UNCHANGED <<stage, markers, failed>>

AlmostAll(listing) == Cardinality(listing) >= ExpectedWorkers - 1
AllReady(listing)  == Cardinality(listing) >= ExpectedWorkers

Listings == {ready, {}}

LeaderCounts(h) ==
    /\ pc[h] = "count"
    /\ \E listing \in Listings :
          Goto(h, IF AllReady(listing) THEN "release" ELSE "poll")
    /\ UNCHANGED <<stage, markers, failed>>

LeaderReleases(h) ==
    /\ pc[h] = "release"
    /\ Goto(h, "claim")
    /\ complete' = TRUE
    /\ UNCHANGED <<stage, ready, claimed, succeeded, failed>>

LeaderClaims(h) ==
    /\ pc[h] = "claim"
    /\ Goto(h, "command") /\ stage' = [stage EXCEPT ![h] = "command"]
    /\ claimed' = TRUE
    /\ UNCHANGED <<ready, complete, succeeded, failed>>

(* The others: first the release marker, then the failure report.          *)
FollowerPolls(h) ==
    /\ ~Leads(h) /\ pc[h] = "poll"
    /\ \/ /\ complete
          /\ Goto(h, "command") /\ stage' = [stage EXCEPT ![h] = "command"]
       \/ Goto(h, "peek") /\ UNCHANGED stage
    /\ UNCHANGED <<markers, failed>>

FollowerPeeks(h) ==
    /\ pc[h] = "peek"
    /\ (failed # NoReport /\ Goto(h, "stat")) \/ Goto(h, "poll")
    /\ UNCHANGED <<stage, markers, failed>>

(* The deadline passes: the loop ends and the script with it. *)
LeaderTimesOut(h) ==
    /\ Leads(h) /\ pc[h] = "poll"
    /\ Goto(h, "stat")
    /\ UNCHANGED <<stage, markers, failed>>

TimesOut(h) ==
    /\ pc[h] = "poll"
    /\ Goto(h, "stat")
    /\ UNCHANGED <<stage, markers, failed>>

-----------------------------------------------------------------------------
(* The script ends: with 0 (worker 0 reports success) ... *)
AnyReports(h)     == TRUE
ReportsSuccess(h) == Leads(h)

Succeeds(h) ==
    /\ pc[h] = "command"
    /\ Goto(h, "over")
    /\ succeeded' \in {succeeded, succeeded \/ ReportsSuccess(h)}
    /\ UNCHANGED <<stage, ready, complete, claimed, failed>>

(* ... with an error, of a command or of a call to GCS ... *)
Fails(h) ==
    /\ pc[h] \in {"setup", "announce", "release", "claim", "command"}
    /\ Goto(h, "stat")
    /\ UNCHANGED <<stage, markers, failed>>

(* ... or preempted (exit code 42, or SIGTERM at any time before the trap).*)
Preempted(h) ==
    /\ pc[h] \notin {"stat", "report", "over"}
    /\ Goto(h, "over")
    /\ UNCHANGED <<stage, markers, failed>>

(* cleanup: an earlier report is kept, else this worker's is written. *)
LooksForReport(h) ==
    /\ pc[h] = "stat"
    /\ (failed # NoReport /\ Goto(h, "over")) \/ Goto(h, "report")
    /\ UNCHANGED <<stage, markers, failed>>

FailurePhase(h) == stage[h]
FailureType(h)  == IF stage[h] = "command" THEN "APPLICATION_ERROR" ELSE "SETUP_ERROR"

WritesReport(h) ==
    /\ pc[h] = "report"
    /\ Goto(h, "over")
    /\ failed' \in {failed, [worker |-> id[h], type |-> FailureType(h)]}
    /\ UNCHANGED <<stage, markers>>

-----------------------------------------------------------------------------
Barrier(h) ==
    \/ LeaderPolls(h) \/ LeaderCounts(h) \/ LeaderReleases(h) \/ LeaderClaims(h)
    \/ FollowerPolls(h) \/ FollowerPeeks(h) \/ TimesOut(h)

Script(h) ==
    \/ SetupDone(h) \/ Announce(h) \/ Barrier(h)
    \/ Succeeds(h) \/ Fails(h) \/ Preempted(h)
    \/ LooksForReport(h) \/ WritesReport(h)

Next == \E h \in Hosts : Script(h)

Spec == Init /\ [][Next]_vars

(* A loop goes on from call to call, and ends at its deadline.  Of setup,  *)
(* command and the writing of markers nothing is assumed.                  *)
FairSpec ==
    /\ Spec
    /\ \A h \in Hosts :
          /\ WF_vars(LeaderCounts(h) \/ FollowerPeeks(h))
          /\ SF_vars(TimesOut(h))

-----------------------------------------------------------------------------
(* The barrier of an attempt opens only when its slices have, for every    *)
(* worker number, a host of that number that has completed its setup: the  *)
(* user command, the claim and the report of success come after that       *)
(* (startup_script.py:127-168, 240-244).                                   *)
Opened == complete \/ claimed \/ succeeded \/ \E h \in Hosts : stage[h] = "command"

HasSetUp(h) == stage[h] # "setup"

EveryNumberReady ==
    Opened => \A n \in Workers : \E h \in Hosts : id[h] = n /\ HasSetUp(h)

(* The slices beside s have come to nothing: none of their workers has     *)
(* completed its setup.                                                    *)
FirstToSetUp(s) == \A h \in Hosts : SliceOf(h) # s => ~HasSetUp(h)

(* As long as the attempt has one slice that gets that far, no worker      *)
(* enters the user command, and nothing is claimed or reported a success,  *)
(* before every worker of the slice has completed its setup                *)
(* (startup_script.py:127-168, 240-244).                                   *)
NobodyEarly ==
    Opened => \A s \in Slices : FirstToSetUp(s) =>
                  \A w \in Workers : HasSetUp(<<s, w>>)

(* A slice on which two hosts go by the same number does not get past the  *)
(* barrier on its own markers, since they are counted by number: what      *)
(* follows it, the claim, the command of worker 0 and its report, has one  *)
(* author (startup_script.py:76-88, 142-153, 195, 243).                    *)
OneOfEachNumber ==
    Opened => \A s \in Slices : FirstToSetUp(s) =>
                  \A v, w \in Workers : id[<<s, v>>] = id[<<s, w>>] => v = w

(* What README.md:294-298 says of every slice: a slow setup on one host    *)
(* cannot make the others enter the command early.                         *)
SliceReadyFirst ==
    \A h \in Hosts : stage[h] = "command" =>
        \A w \in Workers : HasSetUp(<<SliceOf(h), w>>)

(* Nobody waits in the barrier for ever, whoever fails or disappears       *)
(* (startup_script.py:131-169).                                            *)
BarrierEnds ==
    \A h \in Hosts : []<>(pc[h] \notin {"poll", "peek", "count"})

(* What worker 0 of a slice and the markers show of all this is what the   *)
(* scheduler reckons with, however many slices share the attempt and       *)
(* whoever takes himself for worker 0: success is reported only after the  *)
(* claim and by a worker 0 that lives, and whoever is left when it has     *)
(* ended can report nothing but a failure (startup_script.py:108-113,      *)
(* 179-213, 230-245).                                                      *)
Lives(h)   == pc[h] # "over"
Leaders(s) == {h \in Hosts : SliceOf(h) = s /\ Leads(h)}

WorkerZero(s) ==
    IF \A h \in Leaders(s) : ~Lives(h) THEN "tail"
    ELSE IF \E h \in Leaders(s) : stage[h] = "command" THEN "run" ELSE "boot"

Seen == INSTANCE StartupScript WITH
    worker <- [s \in Slices |-> WorkerZero(s)], failed <- failed # NoReport

BarrierIsStartupScript == Seen!ScriptSpec

(* The first worker failure report is the one that stays.                  *)
FirstReportKept == [][failed # NoReport => failed' = failed]_vars
=============================================================================
