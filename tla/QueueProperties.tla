--------------------------- MODULE QueueProperties ---------------------------
(***************************************************************************)
(* What makes the scheduler correct: invariants, action properties, the    *)
(* ledger it implements, and what must eventually happen.                  *)
(***************************************************************************)
EXTENDS QueueScheduler

Records(j) == {mem[j], statusFile[j]}

(***************************************************************************)
(* Invariants                                                              *)
(***************************************************************************)

(* The QR a record names as current was created for that job and for the   *)
(* attempt the record is about to close, so that the markers and the       *)
(* heartbeat that are read (by attempt number) are those of the QR that is *)
(* polled (by name) -- across crashes, lost writes and retries             *)
(* (scheduler.py:516-552, 189, 384).                                       *)
QrFits(j, r) ==
    /\ r.status \in Holding <=> r.qr # 0
    /\ r.qr # 0 => /\ r.qr \in Names
                   /\ AttemptOf(r.qr) = <<j, NextAttempt(r)>>

CurrentQrFitsAttempt == \A j \in Jobs : \A r \in Records(j) : QrFits(j, r)

(* Every log entry names the QR of its own attempt, and a verdict rests on *)
(* the marker a worker wrote for that very attempt (scheduler.py:184-210,  *)
(* 239-273): no attempt inherits the verdict of another one.  (Only of a   *)
(* directory whose deletion stopped half-way the markers may be gone.)     *)
VerdictsHaveEvidence ==
    \A j \in Jobs : \A r \in Records(j) : \A i \in DOMAIN r.log :
        LET e == r.log[i]  a == <<j, e.attempt>> IN
        /\ e.qr \in Names /\ AttemptOf(e.qr) = a
        /\ e.outcome = "OK"  => a \in succeeded \/ filed[j] \in {"torn", "reaped"}
        /\ e.outcome = "APP" => a \in failed \/ filed[j] \in {"torn", "reaped"}

(* A job that holds capacity in the scheduler's books has its QR in        *)
(* queued_resources, where polling finds it and reconciliation spares it   *)
(* (scheduler.py:118-125, 449, 546).                                       *)
HeldIsTracked ==
    \A j \in Jobs : mem[j].status \in Holding => mem[j].qr \in tracked

(* No two QRs the scheduler looks after run the same attempt of a job,     *)
(* although a crash or a lost write can leave two of them in the cloud     *)
(* (scheduler.py:516-552): one of the two is an orphan.                    *)
OneQrPerAttempt ==
    \A p, q \in tracked : AttemptOf(p) = AttemptOf(q) => p = q

(* Quota groups and per-user chip limits hold for the jobs the scheduler   *)
(* believes to hold capacity, also after a restart (scheduler.py:452-507). *)
LimitsRespected ==
    /\ \A g \in Groups : Usage(InGroup(g)) <= Quota[g]
    /\ \A u \in Capped : Usage(OfUser(u)) <= UserCap[u]

(***************************************************************************)
(* Action properties                                                       *)
(***************************************************************************)

Deletes(q) == q \in Names /\ qrs[q].infra # "DELETING" /\ qrs'[q].infra = "DELETING"

(* Orphan reconciliation never deletes the QR a job names as its own, in   *)
(* memory or in status.json, also when the process has just restarted or a *)
(* scan has failed (scheduler.py:560-574, 640-643).  (What is left of a    *)
(* directory without its spec.json is no job.)                             *)
ReconcileSparesJobs ==
    [][\A q \in Names : phase = "reconcile" /\ Deletes(q) =>
           \A j \in Listed : \A r \in Records(j) : r.qr # q]_vars

(* A QR whose worker has claimed its attempt and keeps the heartbeat going *)
(* is not given up for lost (scheduler.py:376-407).                        *)
Healthy(q) ==
    qrs[q].infra = "ACTIVE" /\ AttemptOf(q) \in claimed /\ qrs[q].worker = "run"

HealthyAttemptKept ==
    [][\A d \in due' \ due : d.do = "preempt" => ~Healthy(d.qr)]_vars

(* No QR is requested while a pending job that comes earlier in (priority, *)
(* submit_time, job_id) could have had one (scheduler.py:468-491).  (A job *)
(* whose backoff ends after it was passed over has to wait for the next    *)
(* iteration; the run has no failing creates.)                             *)
Requests(j) == \E d \in due' \ due : d.do = "adopt" /\ d.job = j

NoPriorityInversion ==
    [][\A j \in Jobs : Requests(j) =>
           \A k \in Loaded : ~ /\ mem[k].status = "PENDING"
                               /\ Rank[k] < Rank[j] /\ Eligible(k)]_vars

(* A worker that reported an error decides its attempt: the attempt is     *)
(* neither charged to the infrastructure, and run again, nor passed for a  *)
(* success (scheduler.py:184-210, 409-437).                                *)
ErrorsAreTerminal ==
    [][/\ \A d \in due' \ due : d.do = "preempt" => AttemptOf(d.qr) \notin failed
       /\ \A j \in Jobs :
             mem[j].status = "RUNNING" /\ mem'[j].status = "SUCCEEDED" =>
                 <<j, NextAttempt(mem[j])>> \notin failed]_vars

(* What a step of a focused process leaves alone: the jobs of other users, *)
(* unless they are being canceled.                                         *)
Stranger(j) == FocusedOn # "all" /\ Owner[j] # FocusedOn

LeftAlone(j) ==
    /\ statusFile'[j] = statusFile[j] /\ retryAsked'[j] = retryAsked[j]
    /\ \A q \in DOMAIN qrs' : qrs'[q].job = j => q \in Names /\ ~Deletes(q)

Canceled(j) == j \in canceled /\ statusFile'[j].status \in {statusFile[j].status, "CANCELED"}

KeepsToItsUser == \A j \in Jobs : Stranger(j) => LeftAlone(j) \/ Canceled(j)

(***************************************************************************)
(* The ledger                                                              *)
(***************************************************************************)
LedgerOf(r) ==
    [status |-> r.status,
     log    |-> [i \in 1..Len(r.log) |->
                    [attempt |-> r.log[i].attempt, outcome |-> r.log[i].outcome]]]

Ledger == INSTANCE JobLedger WITH ledger <- [j \in Jobs |-> LedgerOf(statusFile[j])]

(* status.json keeps the promises of JobLedger through crashes, lost       *)
(* writes and the submitter's late write (scheduler.py:153-158, cli.py:272). *)
StatusFileIsLedger == Ledger!LedgerSpec

(***************************************************************************)
(* Liveness.  systemd restarts the process and the loop never ends, so the *)
(* scheduler always goes on.  What an iteration may leave out because its  *)
(* period has not passed is not left out for ever: reconciliation, the     *)
(* snapshot, a timeout whose clock nothing renews, a backoff.  Google      *)
(* Cloud completes the deletions it has accepted.  Nothing is assumed of   *)
(* users, of workers or of capacity; crashes and faults are finitely many. *)
(***************************************************************************)
Removal == (\E q \in Names : Remove(q)) /\ UNCHANGED <<memVars, loopVars, budgetVars>>

LoopFairness == WF_vars(Scheduler) /\ SF_vars(Advance("publish"))

Fairness ==
    /\ LoopFairness
    /\ SF_vars(Advance("reconcile"))
    /\ SF_vars(\E d \in due : ExamineTimeout(d))
    /\ WF_vars(\E j \in backoff : BackoffOver(j))
    /\ WF_vars(Removal)

FairSpec == Spec /\ Fairness

(* A cancellation, once its sentinel is written, is seen through, and for  *)
(* good: the user is shown a terminal status from then on, or the job is   *)
(* gone (scheduler.py:163-182, cli.py:497-515).                            *)
CancelHonoured ==
    \A j \in Jobs :
        j \in canceled ~> [](snapshot[j].status \in Terminal \/ filed[j] = "reaped")

(* A QR that is deleted behind the scheduler's back, by an admin or by     *)
(* Google Cloud, does not leave its job waiting for ever: whoever attends  *)
(* to the job closes the attempt (scheduler.py:329-334, 409-437).          *)
Robbed(j) ==
    /\ j \in Attended /\ mem[j].qr # 0
    /\ qrs[mem[j].qr].infra \in {"DELETING", "GONE"}

RobbedJobsGoOn == \A j \in Jobs : Robbed(j) ~> ~Robbed(j)

(* A QR no job calls its own any more is eventually gone, however it came  *)
(* to be forsaken: its attempt closed, its deletion refused, its creation  *)
(* never recorded, its job reaped, or the process restarted                *)
(* (scheduler.py:315-330, 447-450, 560-574).                               *)
Owned(q) == (\E j \in Jobs : mem[j].qr = q) \/ (\E d \in due : d.qr = q)

Forsaken(j) == {q \in QrsOf(j) : qrs[q].infra # "GONE" /\ ~Owned(q)}

ForsakenCapacityReturns == \A j \in Jobs : Forsaken(j) # {} ~> Forsaken(j) = {}

(* An attempt whose worker has stopped beating is eventually closed, with  *)
(* or without a marker, also when the scheduler was away as it ended       *)
(* (scheduler.py:184-210, 376-407).                                        *)
Dead(j, a) ==
    mem[j].status = "RUNNING" /\ NextAttempt(mem[j]) = a /\ ~Beating(j, a)

DeadAttemptsEnd ==
    \A j \in Jobs : \A a \in 1..MaxAttempts[j] : Dead(j, a) ~> ~Dead(j, a)
=============================================================================
