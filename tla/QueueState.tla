----------------------------- MODULE QueueState -----------------------------
(***************************************************************************)
(* The state of the TPU job queue, shared by its environment and by its    *)
(* scheduler: the objects of a job directory in GCS, the queued resources  *)
(* (QRs) of Google Cloud, the memory of the scheduler process, and the     *)
(* operators that read a job's record.                                     *)
(*                                                                         *)
(* Wall-clock times, names, messages and labels are left out; a QR's name  *)
(* (prefix, random hex, resource, attempt) is the position of its creation *)
(* in qrs, so names are fresh as the random ones are taken to be.          *)
(*                                                                         *)
(* Beside some definitions stands a variant with a plausible mistake       *)
(* (ReadLastAttempt beside ReadAttempt).  No specification uses them; each *)
(* shows that a property notices the mistake (README, Mutants).            *)
(***************************************************************************)
EXTENDS Integers, Sequences, FiniteSets

CONSTANTS
    Jobs,         \* job ids that may be submitted
    Groups,       \* quota groups
    Users,        \* submitting users
    Group,        \* [Jobs -> Groups]: the quota group of the job's resource
    Owner,        \* [Jobs -> Users]: spec.submitted_by
    Chips,        \* [Jobs -> Nat]: chips of the job's resource
    Rank,         \* [Jobs -> Int]: order of (priority, submit_time, job_id)
    MaxAttempts,  \* [Jobs -> Nat]: spec.max_attempts
    Enabled,      \* jobs whose resource is enabled in resources.yaml
    Unreadable,   \* jobs whose spec.json or status.json does not parse
    Expirable,    \* bound: jobs that may reach the retention age in a behaviour
    Happenings,   \* bound: what users and the cloud do besides the usual
    Focus,        \* [0..MaxCrashes -> user or "all"]: --focus-user, see FocusedOn
    Quota,        \* [Groups -> Nat]: quota_groups[g].total_chips
    Capped,       \* users with a chip limit (user_limits: None lifts it)
    UserCap,      \* [Users -> Nat]: max_chips_for(user)
    FaultKinds,   \* bound: which calls may go wrong (see IsFault)
    MaxFaults,    \* bound: how many of them do
    MaxCrashes    \* bound: how often the scheduler process dies

ASSUME SpecAssumption ==
    /\ Group \in [Jobs -> Groups] /\ Owner \in [Jobs -> Users]
    /\ Chips \in [Jobs -> Nat] /\ Rank \in [Jobs -> Int]
    /\ \A i, j \in Jobs : Rank[i] = Rank[j] => i = j

ASSUME AttemptAssumption == MaxAttempts \in [Jobs -> Nat \ {0}]

ASSUME LimitAssumption ==
    /\ Quota \in [Groups -> Nat] /\ UserCap \in [Users -> Nat]
    /\ Capped \subseteq Users /\ Enabled \subseteq Jobs
    /\ Unreadable \subseteq Jobs /\ Expirable \subseteq Jobs

(* The calls that can go wrong, each with the source line that meets it.   *)
AllFaultKinds ==
    {"scan",      \* a list or read of the job scan fails
     "refresh",   \* a focused process cannot read the status.json of another's job
     "describe",  \* describing a QR fails or reports an unknown state
     "probe",     \* `ls .../claimed` fails although the marker is there
     "read",      \* `cat` of a completion marker fails though it is there
     "heartbeat", \* an admin's `cat` of a heartbeat fails though it is there
     "save",      \* a write of status.json fails; its result is ignored
     "unmark",    \* the deletion of the retry marker fails, result ignored
     "create",    \* a create is refused, or is accepted but times out
     "delete",    \* a QR deletion is refused
     "reap",      \* the recursive deletion of a job directory fails
     "abort"}     \* an exception ends the iteration, the process goes on

(* What may befall a job from outside the scheduler. *)
AllHappenings ==
    {"slow",      \* the scheduler runs between a submission's two writes
     "cancel",    \* the user asks for its cancellation
     "retry",     \* the user asks for another attempt
     "blind",     \* the CLI cannot read the published snapshot
     "cleanup",   \* an admin runs tpu admin cleanup
     "sicken",    \* a VM stops or falls ill while its QR stays ACTIVE
     "suspend",   \* a QR is suspended or fails
     "vanish",    \* a startup script ends without a marker
     "linger",    \* a startup script runs on while its QR is being deleted
    "impatient"} \* --idle-minutes is shorter than the heartbeat interval

ASSUME FaultAssumption ==
    /\ Happenings \subseteq AllHappenings
    /\ FaultKinds \subseteq AllFaultKinds
    /\ MaxFaults \in Nat /\ MaxCrashes \in Nat

ASSUME FocusAssumption == Focus \in [0..MaxCrashes -> Users \cup {"all"}]

-----------------------------------------------------------------------------
VARIABLES
    \* GCS: one job directory per job
    filed,       \* "new", "spec" (status.json yet to be written), "full",
                 \* "torn" (its deletion stopped half-way), "reaped"
    statusFile,  \* status.json
    canceled,    \* jobs with the marker `canceled`
    retryAsked,  \* attempts the user had seen when writing `retry`; 0: no marker
    claimed,     \* <<job, attempt>> with attempts/attempt-N/claimed
    succeeded,   \* ... with attempts/attempt-N/succeeded
    failed,      \* ... with attempts/attempt-N/failed
    snapshot,    \* scheduler_state.json, which the CLI reads first
    \* Google Cloud: every QR ever created, by name
    qrs,
    \* memory of the scheduler process
    mem,         \* Scheduler.jobs: the record held for each loaded job
    tracked,     \* Scheduler.queued_resources
    backoff,     \* jobs whose _create_retry_not_before lies in the future
    phase,       \* the stage run_once is in
    jobsLeft,    \* jobs the stage has still to visit
    qrsLeft,     \* QRs the stage has still to visit
    due,         \* the rest of the handler that is under way, if any
    \* time and budgets
    late,        \* longer than a timeout since completions were last read
    crashes, faults

gcsVars    == <<filed, statusFile, canceled, retryAsked, claimed, succeeded,
                failed, snapshot>>
memVars    == <<mem, tracked, backoff>>
loopVars   == <<phase, jobsLeft, qrsLeft, due, late>>
budgetVars == <<crashes, faults>>
vars       == <<gcsVars, qrs, memVars, loopVars, budgetVars>>

-----------------------------------------------------------------------------
(***************************************************************************)
(* The record of a job: JobState, with ABSENT for a file that is not there *)
(* or a job that is not loaded.  A log entry is an AttemptRecord: its      *)
(* number, the QR it ran on, and how it ended.  Both failure types a       *)
(* worker reports (SETUP_ERROR and APPLICATION_ERROR) are "APP": the       *)
(* scheduler treats them alike.                                            *)
(***************************************************************************)
Terminal == {"SUCCEEDED", "FAILED", "CANCELED"}
Holding  == {"PROVISIONING", "RUNNING"}
Statuses == {"PENDING"} \cup Holding \cup Terminal

QrStates == {"WAITING", "ACTIVE", "SUSPENDED"}
Outcomes == {"INFRA", "APP", "OK"}
Entry    == [attempt : Nat, qr : Nat, outcome : Outcomes]
Record   == [status : Statuses \cup {"ABSENT"}, attempt : Nat,
             log : Seq(Entry), qr : Nat, qrState : QrStates \cup {"none"}]

NoRecord == [status |-> "ABSENT", attempt |-> 0, log |-> <<>>, qr |-> 0,
             qrState |-> "none"]
NewRecord == [NoRecord EXCEPT !.status = "PENDING"]

(* Without a QR: current_qr_name and current_qr_state set to None. *)
Released(r) == [r EXCEPT !.qr = 0, !.qrState = "none"]

NextAttempt(r) == r.attempt + 1

AttemptsLeft(j, r) == r.attempt < MaxAttempts[j]

(* The attempt whose markers and heartbeat are read. *)
ReadLastAttempt(r) == r.attempt
ReadAttempt(r) == NextAttempt(r)

(* An attempt is closed by appending its record and counting it. *)
ClosedUncounted(r, outcome) ==
    [r EXCEPT !.log = Append(@, [attempt |-> NextAttempt(r), qr |-> r.qr,
                                 outcome |-> outcome])]

Closed(r, outcome) ==
    [r EXCEPT !.log = Append(@, [attempt |-> NextAttempt(r), qr |-> r.qr,
                                 outcome |-> outcome]),
              !.attempt = NextAttempt(r)]

-----------------------------------------------------------------------------
(***************************************************************************)
(* A QR: the job and attempt its startup script was written for, what      *)
(* Google Cloud does with it, and how far worker 0's script is.  "SICK" is *)
(* a QR that is ACTIVE while its TPU VM is stopped or unhealthy;           *)
(* "SUSPENDED" stands for SUSPENDING, SUSPENDED and FAILED.  A worker is   *)
(* in "tail" when worker 0 has ended while other workers may still run.    *)
(***************************************************************************)
Infra   == {"WAITING", "ACTIVE", "SICK", "SUSPENDED", "DELETING", "GONE"}
Worker  == {"off", "boot", "run", "tail", "over"}
QR      == [job : Jobs, attempt : Nat, infra : Infra, worker : Worker]
Names   == DOMAIN qrs

NewQRCreating(j, a) ==
    [job |-> j, attempt |-> a, infra |-> "CREATING", worker |-> "off"]

NewQR(j, a) == [job |-> j, attempt |-> a, infra |-> "WAITING", worker |-> "off"]

(* What is made of the answer of `queued-resources describe`: "none" when  *)
(* there is no such QR, or when its state is none that QRState knows.      *)
Described(q) ==
    CASE qrs[q].infra = "SICK"               -> "ACTIVE"
      [] qrs[q].infra \in {"DELETING", "GONE"} -> "none"
      [] OTHER                               -> qrs[q].infra

QrsOf(j) == {q \in Names : qrs[q].job = j}

(* Worker 0 of some QR of this attempt renews attempts/attempt-N/heartbeat. *)
Beating(j, a) ==
    \E q \in QrsOf(j) : qrs[q].attempt = a /\ qrs[q].worker \in {"boot", "run"}

-----------------------------------------------------------------------------
Loaded == {j \in Jobs : mem[j].status # "ABSENT"}

(* A process keeps its command line; the one started after k crashes is    *)
(* focused on Focus[k], and attends to the jobs of that user only.         *)
FocusedOn == Focus[crashes]
AttendsToAll(j) == TRUE
Attends(j) == FocusedOn = "all" \/ Owner[j] = FocusedOn
Attended == {j \in Loaded : Attends(j)}

(* The directories with a spec.json. *)
Listed == {j \in Jobs : filed[j] \notin {"new", "reaped"}}

(* What becomes of status.json once it is read. *)
StateOnFile(j) ==
    IF statusFile[j].status = "ABSENT" THEN NewRecord ELSE statusFile[j]

(* What the CLI knows of a job.  Bound: the name of its QR only in         *)
(* behaviours with an admin cleanup, which alone looks at it.              *)
View(r) == [status |-> r.status, attempt |-> r.attempt,
            qr |-> IF "cleanup" \in Happenings THEN r.qr ELSE 0]

(* A call may go wrong while its kind is enabled and the budget lasts.     *)
IsFault(kind) ==
    /\ kind \in FaultKinds
    /\ faults < MaxFaults
    /\ faults' = faults + 1

NoFault == UNCHANGED faults

Tasks == {"preempt", "examine", "save", "cleanup", "adopt", "requeue"}
Phases == {"idle", "scan", "refresh", "cancel", "poll", "complete", "retry", "schedule",
           "reap", "reconcile", "publish"}

(* Records, tasks and sets name only QRs that were created; 0 is no QR.    *)
Known == Names \cup {0}

GcsOK ==
    /\ filed \in [Jobs -> {"new", "spec", "full", "torn", "reaped"}]
    /\ statusFile \in [Jobs -> Record]
    /\ \A j \in Jobs : statusFile[j].qr \in Known
    /\ canceled \subseteq Jobs
    /\ retryAsked \in [Jobs -> Nat]
    /\ claimed \subseteq Jobs \X Nat
    /\ succeeded \subseteq Jobs \X Nat
    /\ failed \subseteq Jobs \X Nat
    /\ snapshot \in [Jobs -> [status : Statuses \cup {"ABSENT"}, attempt : Nat, qr : Nat]]

CloudOK == qrs \in Seq(QR)

MemoryOK ==
    /\ mem \in [Jobs -> Record]
    /\ \A j \in Jobs : mem[j].qr \in Known
    /\ tracked \subseteq Names
    /\ backoff \subseteq Jobs

DueOK ==
    /\ due \subseteq [do : Tasks, job : Jobs, qr : Known]
    /\ \A d \in due : d.do = "adopt" => d.qr # 0

LoopOK ==
    /\ phase \in Phases
    /\ jobsLeft \subseteq Jobs
    /\ qrsLeft \subseteq Names
    /\ DueOK
    /\ late \in BOOLEAN

BudgetOK == crashes \in 0..MaxCrashes /\ faults \in 0..MaxFaults

TypeOK == GcsOK /\ CloudOK /\ MemoryOK /\ LoopOK /\ BudgetOK
=============================================================================
