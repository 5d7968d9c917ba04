--------------------------- MODULE QueueScheduler ---------------------------
(***************************************************************************)
(* The scheduler process.  run_once is a pipeline of stages; a stage       *)
(* visits jobs or QRs one at a time, and a visit is one or two actions: a  *)
(* read and the decision taken on it, then (due) what the decision writes. *)
(* Everything else in the system may move between any two actions, the     *)
(* process may die there, and a call may fail.                             *)
(***************************************************************************)
EXTENDS QueueEnvironment

(* The record r becomes job j's, in memory and, if the write succeeds, in  *)
(* status.json.                                                            *)
WriteStatus(j, r) ==
    /\ mem' = [mem EXCEPT ![j] = r]
    /\ \/ NoFault /\ statusFile' = [statusFile EXCEPT ![j] = r]
       \/ IsFault("save") /\ UNCHANGED statusFile

Deleted(r) ==
    [r EXCEPT !.infra  = IF @ = "GONE" THEN @ ELSE "DELETING",
              !.worker = IF "linger" \in Happenings THEN @ ELSE "over"]

(* Without its VM, which `describe` then knows no state of.                *)
WithoutVm(r) ==
    [r EXCEPT !.worker = IF @ = "off" \/ "linger" \in Happenings THEN @ ELSE "over"]

(* First the VM is deleted, then the QR, both asynchronously; the QR is    *)
(* forgotten only when Google Cloud accepts its deletion.                  *)
CleanupResources(q) ==
    \/ /\ NoFault
       /\ qrs' = [qrs EXCEPT ![q] = Deleted(@)]
       /\ tracked' = tracked \ {q}
    \/ /\ IsFault("delete")
       /\ qrs' \in {qrs, [qrs EXCEPT ![q] = WithoutVm(@)]}
       /\ UNCHANGED tracked

Do(task, j, q) == due' = {[do |-> task, job |-> j, qr |-> q]}
Done           == due' = {}

Visit(stage, j) ==
    /\ phase = stage /\ due = {} /\ j \in jobsLeft
    /\ jobsLeft' = jobsLeft \ {j}
    /\ UNCHANGED <<phase, qrsLeft, late, crashes>>

VisitQr(stage, q) ==
    /\ phase = stage /\ due = {} /\ q \in qrsLeft
    /\ qrsLeft' = qrsLeft \ {q}
    /\ UNCHANGED <<phase, jobsLeft, late, crashes>>

Resume(d, task) ==
    /\ d.do = task
    /\ UNCHANGED <<phase, jobsLeft, qrsLeft, late, crashes>>

-----------------------------------------------------------------------------
(***************************************************************************)
(* scan_jobs: every listed job not in memory is loaded.  If a call fails,  *)
(* or a record does not parse, whatever did load is kept and the iteration *)
(* ends there.                                                             *)
(***************************************************************************)
Missing  == Listed \ Loaded
Loadable == Missing \ Unreadable

LoadedWithoutAttempt(j) == [StateOnFile(j) EXCEPT !.attempt = 0]
LoadedState(j) == StateOnFile(j)

AdoptedWhileProvisioning(js) ==
    {statusFile[j].qr : j \in {k \in js : statusFile[k].status = "PROVISIONING"
                                          /\ statusFile[k].qr # 0}}

Adopted(js) ==
    {statusFile[j].qr : j \in {k \in js : statusFile[k].status \in Holding
                                          /\ statusFile[k].qr # 0}}

Load(js) ==
    /\ mem' = [j \in Jobs |-> IF j \in js THEN LoadedState(j) ELSE mem[j]]
    /\ tracked' = tracked \cup Adopted(js)

(* The time a submission's second write has is up: two scans are 30 s      *)
(* apart.  A process that dies is back after 10 s, which with the request  *)
(* for a QR or the writing of a snapshot before it is more than 15 s.      *)
TimeUp(js) == filed' = [j \in Jobs |-> IF j \in js /\ filed[j] = "spec"
                                       THEN "full" ELSE filed[j]]

ProceedAnyway(complete) == TRUE
MayProceed(complete) == complete

ScanJobs ==
    /\ phase = "idle"
    /\ \E complete \in BOOLEAN, got \in SUBSET Loadable :
          /\ \/ NoFault /\ got = Loadable /\ complete = (Missing = Loadable)
             \/ IsFault("scan") /\ ~complete
          /\ Load(got)
          /\ phase' = IF MayProceed(complete) THEN "scan" ELSE "idle"
          /\ late' = (late \/ ~complete)
    /\ TimeUp(Loaded)
    /\ UNCHANGED <<statusFile, canceled, retryAsked, claimed, succeeded, failed,
                   snapshot, qrs, backoff, jobsLeft, qrsLeft, due, crashes>>

-----------------------------------------------------------------------------
(***************************************************************************)
(* _refresh_job_states, in a focused process only: the record of another   *)
(* user's job that is not terminal is replaced by the one on file, if that *)
(* can be read, and with it the QR that is tracked for the job.            *)
(***************************************************************************)
Outdated == {j \in Loaded : statusFile[j] # mem[j]
                            \/ tracked \cap QrsOf(j) # Adopted({j})}

RefreshState(j) ==
    /\ Visit("refresh", j)
    /\ \/ /\ NoFault /\ statusFile[j].status # "ABSENT"
          /\ mem' = [mem EXCEPT ![j] = statusFile[j]]
          /\ tracked' = (tracked \ QrsOf(j)) \cup Adopted({j})
       \/ /\ (NoFault /\ statusFile[j].status = "ABSENT") \/ IsFault("refresh")
          /\ UNCHANGED <<mem, tracked>>
    /\ UNCHANGED <<gcsVars, qrs, backoff, due>>

(* check_canceled_jobs and _cancel_job: clean up, then record.             *)
CancelJob(j) ==
    /\ mem' = [mem EXCEPT ![j] = [Released(@) EXCEPT !.status = "CANCELED"]]
    /\ \/ mem[j].qr # 0 /\ CleanupResources(mem[j].qr)
       \/ mem[j].qr = 0 /\ NoFault /\ UNCHANGED <<qrs, tracked>>
    /\ Do("save", j, 0)

CheckCanceled(j) ==
    /\ Visit("cancel", j)
    /\ \/ j \in canceled /\ CancelJob(j)
       \/ j \notin canceled /\ NoFault /\ UNCHANGED <<mem, qrs, tracked, due>>
    /\ UNCHANGED <<gcsVars, backoff>>

(* The write that ends _cancel_job and _handle_preemption.                 *)
SaveStatus(d) ==
    /\ Resume(d, "save") /\ Done
    /\ WriteStatus(d.job, mem[d.job])
    /\ UNCHANGED <<filed, canceled, retryAsked, claimed, succeeded, failed,
                   snapshot, qrs, tracked, backoff>>

-----------------------------------------------------------------------------
(***************************************************************************)
(* poll_queued_resources: a tracked QR whose job is gone is forgotten, one *)
(* that is no longer its job's is deleted, and the others are described.   *)
(* A changed state is recorded; then ACTIVE leads on to the VM, and        *)
(* SUSPENDED or no answer to _handle_preemption.  (The terminal-status     *)
(* branch of _handle_qr_state is not reached: a terminal job has no QR.)   *)
(***************************************************************************)
PollForgotten(q) ==
    /\ VisitQr("poll", q)
    /\ qrs[q].job \notin Loaded
    /\ tracked' = tracked \ {q}
    /\ NoFault /\ UNCHANGED <<gcsVars, qrs, mem, backoff, due>>

PollReplaced(q) ==
    /\ VisitQr("poll", q)
    /\ qrs[q].job \in Loaded /\ mem[qrs[q].job].qr # q
    /\ CleanupResources(q)
    /\ UNCHANGED <<gcsVars, mem, backoff, due>>

PollUnanswered(q) ==
    /\ VisitQr("poll", q)
    /\ mem[qrs[q].job].qr = q /\ Described(q) = "none"
    /\ NoFault /\ UNCHANGED <<gcsVars, qrs, memVars, due>>

PollDisappeared(q) ==
    /\ VisitQr("poll", q)
    /\ qrs[q].job \in Loaded /\ mem[qrs[q].job].qr = q
    /\ \/ Described(q) = "none" /\ NoFault
       \/ Described(q) # "none" /\ IsFault("describe")
    /\ Do("preempt", qrs[q].job, q)
    /\ UNCHANGED <<gcsVars, qrs, mem, tracked, backoff>>

(* What a described state leads to. *)
HandleState(j, q, s) ==
    CASE s = "ACTIVE"    -> Do("examine", j, q)
      [] s = "SUSPENDED" -> Do("preempt", j, q)
      [] OTHER           -> UNCHANGED due

PollDescribed(q) ==
    LET j == qrs[q].job  s == Described(q) IN
    /\ VisitQr("poll", q)
    /\ j \in Loaded /\ mem[j].qr = q /\ s # "none"
    /\ \/ mem[j].qrState # s /\ WriteStatus(j, [mem[j] EXCEPT !.qrState = s])
       \/ mem[j].qrState = s /\ NoFault /\ UNCHANGED <<mem, statusFile>>
    /\ HandleState(j, q, s)
    /\ UNCHANGED <<filed, canceled, retryAsked, claimed, succeeded, failed,
                   snapshot, qrs, tracked, backoff>>

PollQueuedResource(q) ==
    \/ PollForgotten(q) \/ PollReplaced(q)
    \/ PollDisappeared(q) \/ PollDescribed(q)

-----------------------------------------------------------------------------
(* An ACTIVE QR: its VM, then the job's status, then the timeouts.         *)
ExamineSickVm(d) ==
    /\ Resume(d, "examine")
    /\ qrs[d.qr].infra = "SICK"
    /\ Do("preempt", d.job, d.qr)
    /\ NoFault /\ UNCHANGED <<gcsVars, qrs, memVars>>

ExamineStarted(d) ==
    /\ Resume(d, "examine") /\ Done
    /\ qrs[d.qr].infra # "SICK" /\ mem[d.job].status = "PROVISIONING"
    /\ WriteStatus(d.job, [mem[d.job] EXCEPT !.status = "RUNNING"])
    /\ UNCHANGED <<filed, canceled, retryAsked, claimed, succeeded, failed,
                   snapshot, qrs, tracked, backoff>>

(* Time is not modelled: the clock of an unclaimed attempt may run out at  *)
(* any time, that of a heartbeat whenever nothing renews it.  (Only that a *)
(* heartbeat which ended with a success is not 10 min old when the marker  *)
(* is first looked for, unless iterations broke off: late.)                *)
NoClaimTimeout(a) ==
    \/ a \notin claimed /\ NoFault
    \/ a \in claimed /\ IsFault("probe")

HeartbeatOfUnclaimed(a) ==
    /\ a \notin claimed /\ ~Beating(a[1], a[2]) /\ NoFault
    /\ a \in succeeded => late

HeartbeatTimeout(a) ==
    /\ a \in claimed /\ ~Beating(a[1], a[2]) /\ NoFault
    /\ a \in succeeded => late

ExamineTimeout(d) ==
    LET a == <<d.job, ReadAttempt(mem[d.job])>> IN
    /\ Resume(d, "examine")
    /\ qrs[d.qr].infra # "SICK" /\ mem[d.job].status = "RUNNING"
    /\ NoClaimTimeout(a) \/ HeartbeatTimeout(a)
    /\ Do("preempt", d.job, d.qr)
    /\ UNCHANGED <<gcsVars, qrs, memVars>>

ExamineInTime(d) ==
    /\ Resume(d, "examine") /\ Done
    /\ qrs[d.qr].infra # "SICK" /\ mem[d.job].status = "RUNNING"
    /\ NoFault /\ UNCHANGED <<gcsVars, qrs, memVars>>

(* _handle_preemption: charge the attempt, clean up; the write is due.     *)
RequeuedOnceMore(j, r) ==
    [r EXCEPT !.status = IF r.attempt <= MaxAttempts[j] THEN "PENDING" ELSE "FAILED"]

Requeued(j, r) ==
    [r EXCEPT !.status = IF AttemptsLeft(j, r) THEN "PENDING" ELSE "FAILED"]

HandlePreemption(d) ==
    /\ Resume(d, "preempt")
    /\ mem' = [mem EXCEPT ![d.job] =
                   Requeued(d.job, Released(Closed(@, "INFRA")))]
    /\ CleanupResources(d.qr)
    /\ Do("save", d.job, 0)
    /\ UNCHANGED <<gcsVars, backoff>>

-----------------------------------------------------------------------------
(***************************************************************************)
(* check_completed_jobs: `succeeded` is read, then `failed`, both as None  *)
(* when the read fails; a failure report wins.  _finish_job records, then  *)
(* cleans up.  (The root markers of older startup scripts are left out.)   *)
(***************************************************************************)
Finished(r, outcome) ==
    [Released(Closed(r, outcome)) EXCEPT
        !.status = IF outcome = "OK" THEN "SUCCEEDED" ELSE "FAILED"]

FinishJob(j, outcome) ==
    /\ WriteStatus(j, Finished(mem[j], outcome))
    /\ Do("cleanup", j, mem[j].qr)

CheckCompleted(j) ==
    LET a == <<j, ReadAttempt(mem[j])>> IN
    /\ Visit("complete", j)
    /\ \/ a \in failed /\ FinishJob(j, "APP")
       \/ a \notin failed /\ a \in succeeded /\ FinishJob(j, "OK")
       \/ a \notin failed \cup succeeded /\ NoFault
          /\ UNCHANGED <<mem, statusFile, due>>
    /\ UNCHANGED <<filed, canceled, retryAsked, claimed, succeeded, failed,
                   snapshot, qrs, tracked, backoff>>

(* A read fails: what is not read is taken not to be there. *)
CheckCompletedMissingReport(j) ==
    LET a == <<j, ReadAttempt(mem[j])>> IN
    /\ Visit("complete", j)
    /\ a \in failed \cup succeeded /\ IsFault("read")
    /\ \/ /\ a \in failed \cap succeeded
          /\ mem' = [mem EXCEPT ![j] = Finished(@, "OK")]
          /\ statusFile' = [statusFile EXCEPT ![j] = Finished(mem[j], "OK")]
          /\ Do("cleanup", j, mem[j].qr)
       \/ a \notin failed \cap succeeded /\ UNCHANGED <<mem, statusFile, due>>
    /\ UNCHANGED <<filed, canceled, retryAsked, claimed, succeeded, failed,
                   snapshot, qrs, tracked, backoff>>

CleanupFinished(d) ==
    /\ Resume(d, "cleanup") /\ Done
    /\ CleanupResources(d.qr)
    /\ UNCHANGED <<gcsVars, mem, backoff>>

-----------------------------------------------------------------------------
(* check_retry_requests: the marker is deleted before anything is saved.   *)
CheckRetry(j) ==
    /\ Visit("retry", j)
    /\ \/ /\ retryAsked[j] # 0 /\ Do("requeue", j, 0)
          /\ \/ NoFault /\ retryAsked' = [retryAsked EXCEPT ![j] = 0]
             \/ IsFault("unmark") /\ UNCHANGED retryAsked
       \/ retryAsked[j] = 0 /\ NoFault /\ UNCHANGED <<retryAsked, due>>
    /\ UNCHANGED <<filed, statusFile, canceled, claimed, succeeded, failed,
                   snapshot, qrs, memVars>>

RetriedRecord(j) ==
    IF AttemptsLeft(j, mem[j])
    THEN [Released(mem[j]) EXCEPT !.status = "PENDING"]
    ELSE mem[j]

Requeue(d) ==
    /\ Resume(d, "requeue") /\ Done
    /\ WriteStatus(d.job, RetriedRecord(d.job))
    /\ UNCHANGED <<filed, canceled, retryAsked, claimed, succeeded, failed,
                   snapshot, qrs, tracked, backoff>>

-----------------------------------------------------------------------------
(***************************************************************************)
(* schedule_pending_jobs: pending jobs in order of priority, submission    *)
(* time and id; a job that is disabled, backing off or over a limit is     *)
(* passed over.  Chips are counted as the elements of a set.               *)
(***************************************************************************)
Units(js) == UNION {{j} \X (1..Chips[j]) : j \in js}
Usage(js) == Cardinality(Units(js))

HoldingJobs == {j \in Loaded : mem[j].status \in Holding}
InGroup(g)  == {j \in HoldingJobs : Group[j] = g}
OfUser(u)   == {j \in HoldingJobs : Owner[j] = u}

Fits(j) ==
    /\ Usage(InGroup(Group[j])) + Chips[j] <= Quota[Group[j]]
    /\ Owner[j] \in Capped =>
          Usage(OfUser(Owner[j])) + Chips[j] <= UserCap[Owner[j]]

Eligible(j) == j \in Enabled /\ j \notin backoff /\ Fits(j)

IsAny(j)  == TRUE
IsNext(j) == \A k \in jobsLeft : Rank[j] <= Rank[k]

PassOver(j) ==
    /\ Visit("schedule", j) /\ IsNext(j)
    /\ ~Eligible(j)
    /\ NoFault /\ UNCHANGED <<gcsVars, qrs, memVars, due>>

(* Google Cloud accepts the request under a fresh name. *)
CreateQueuedResource(j) ==
    /\ Visit("schedule", j) /\ IsNext(j)
    /\ Eligible(j)
    /\ qrs' = Append(qrs, NewQR(j, NextAttempt(mem[j])))
    /\ Do("adopt", j, Len(qrs) + 1)
    /\ NoFault /\ UNCHANGED <<gcsVars, memVars>>

(* The call fails, before or after the request is accepted. *)
CreateFails(j) ==
    /\ Visit("schedule", j) /\ IsNext(j)
    /\ Eligible(j) /\ IsFault("create")
    /\ \/ qrs' = Append(qrs, NewQR(j, NextAttempt(mem[j])))
       \/ UNCHANGED qrs
    /\ backoff' = backoff \cup {j}
    /\ UNCHANGED <<gcsVars, mem, tracked, due>>

(* The QR enters queued_resources and the job's record. *)
AdoptQr(d) ==
    /\ Resume(d, "adopt") /\ Done
    /\ tracked' = tracked \cup {d.qr}
    /\ WriteStatus(d.job, [mem[d.job] EXCEPT !.status = "PROVISIONING",
                                             !.qr = d.qr, !.qrState = "WAITING"])
    /\ UNCHANGED <<filed, canceled, retryAsked, claimed, succeeded, failed,
                   snapshot, qrs, backoff>>

BackoffOver(j) ==
    /\ j \in backoff
    /\ backoff' = backoff \ {j}
    /\ UNCHANGED <<gcsVars, qrs, mem, tracked, loopVars, budgetVars>>

-----------------------------------------------------------------------------
(* reap_terminal_jobs: past its retention age a directory is deleted.  The *)
(* result is ignored, and a recursive deletion may stop half-way: with     *)
(* spec.json the directory goes out of sight, without it what is left is   *)
(* found by the next scan.                                                 *)
Forget(j) == mem' = [mem EXCEPT ![j] = NoRecord]

NotOf(j, markers) == {a \in markers : a[1] # j}

ReapTerminal(j) ==
    /\ Visit("reap", j)
    /\ Forget(j) /\ NoFault
    /\ filed' = [filed EXCEPT ![j] = "reaped"]
    /\ statusFile' = [statusFile EXCEPT ![j] = NoRecord]
    /\ canceled' = canceled \ {j}
    /\ retryAsked' = [retryAsked EXCEPT ![j] = 0]
    /\ claimed' = NotOf(j, claimed)
    /\ succeeded' = NotOf(j, succeeded) /\ failed' = NotOf(j, failed)
    /\ UNCHANGED <<snapshot, qrs, tracked, backoff, due>>

SomeOf(j, markers) == {left \in SUBSET markers : NotOf(j, markers) \subseteq left}

ReapFails(j) ==
    /\ Visit("reap", j)
    /\ Forget(j) /\ IsFault("reap")
    /\ \E s \in {"torn", "reaped"} : filed' = [filed EXCEPT ![j] = s]
    /\ statusFile' \in {statusFile, [statusFile EXCEPT ![j] = NoRecord]}
    /\ canceled' \in {canceled, canceled \ {j}}
    /\ retryAsked' \in {retryAsked, [retryAsked EXCEPT ![j] = 0]}
    /\ claimed' \in SomeOf(j, claimed)
    /\ succeeded' \in SomeOf(j, succeeded) /\ failed' \in SomeOf(j, failed)
    /\ UNCHANGED <<snapshot, qrs, tracked, backoff, due>>

NotYetExpired(j) ==
    /\ Visit("reap", j)
    /\ NoFault /\ UNCHANGED <<gcsVars, qrs, memVars, due>>

(* reconcile_orphaned_qrs: QRs with the queue's prefix nobody tracks.      *)
ActiveOrphans == {q \in Names : qrs[q].infra = "ACTIVE"} \ tracked
Orphans == {q \in Names : qrs[q].infra # "GONE"} \ tracked

ReconcileOrphan(q) ==
    /\ VisitQr("reconcile", q)
    /\ CleanupResources(q)
    /\ UNCHANGED <<gcsVars, mem, backoff, due>>

-----------------------------------------------------------------------------
(* _maybe_write_scheduler_state; a failed write is like none.              *)
Published == [j \in Jobs |-> View(mem[j])]

WriteSchedulerState ==
    /\ phase = "publish" /\ due = {}
    /\ snapshot' = Published
    /\ phase' = "idle"
    /\ UNCHANGED <<filed, statusFile, canceled, retryAsked, claimed, succeeded,
                   failed, qrs, memVars, jobsLeft, qrsLeft, due, late, budgetVars>>

(***************************************************************************)
(* run_once moves on when a stage has made all its visits, here at once to *)
(* the next stage with anything to visit: the others change nothing.       *)
(* Orphans are looked for every 5 min and the snapshot written every 60 s, *)
(* so an iteration may do neither.  (The scan guard of                     *)
(* _maybe_reconcile_orphans repeats that of run_once, which has already    *)
(* ended the iteration.)                                                   *)
(***************************************************************************)
Place == [scan |-> 0, refresh |-> 1, cancel |-> 2, poll |-> 3, complete |-> 4,
          retry |-> 5, schedule |-> 6, reap |-> 7, reconcile |-> 8, publish |-> 9]
Periodic == {"reconcile", "publish"}

(* Bound: no snapshot is written in behaviours in which nobody reads it. *)
Readers == Happenings \cap {"cancel", "retry", "cleanup"}

(* The statuses a cancellation is looked for in. *)
NotYetPlaced == {"PENDING"}
Cancelable   == {"PENDING"} \cup Holding

(* The jobs and the QRs a stage has business with: those the process       *)
(* attends to, except that a cancellation is anybody's.  What a focused    *)
(* process does not do at all is left to one that is not.                  *)
Everything == FocusedOn = "all"

JobsFor(p) ==
    LET having(js, sts) == {j \in js : mem[j].status \in sts} IN
    CASE p = "refresh"  -> having(Loaded \ Attended, Cancelable) \cap Outdated
      [] p = "cancel"   -> having(Loaded, Cancelable)
      [] p = "complete" -> having(Attended, {"RUNNING"})
      [] p = "retry"    -> having(Attended, {"FAILED"})
      [] p = "schedule" -> having(Attended, {"PENDING"})
      [] p = "reap" /\ Everything -> having(Loaded, Terminal) \cap Expirable
      [] OTHER          -> {}

QrsFor(p) ==
    CASE p = "poll"      -> {q \in tracked : Attends(qrs[q].job)}
      [] p = "reconcile" /\ Everything -> Orphans
      [] OTHER           -> {}

Busy(p) ==
    \/ JobsFor(p) # {} \/ QrsFor(p) # {}
    \/ p = "publish" /\ snapshot # Published /\ Readers # {}

Ahead(p)  == Place[phase] < Place[p] /\ Busy(p)
Drained   == phase # "idle" /\ due = {} /\ jobsLeft = {} /\ qrsLeft = {}
LateFor(p) == late /\ (Place[phase] > Place["complete"]
                       \/ Place[p] <= Place["complete"])

Advance(p) ==
    /\ Drained /\ phase' = p /\ Ahead(p)
    /\ \A o \in DOMAIN Place \ Periodic : Ahead(o) => Place[p] <= Place[o]
    /\ jobsLeft' = JobsFor(p) /\ qrsLeft' = QrsFor(p)
    /\ late' = LateFor(p)
    /\ UNCHANGED <<gcsVars, qrs, memVars, due, budgetVars>>

EndIteration ==
    /\ Drained /\ phase # "publish" /\ phase' = "idle"
    /\ \A p \in DOMAIN Place \ Periodic : ~Ahead(p)
    /\ late' = LateFor("publish")
    /\ UNCHANGED <<gcsVars, qrs, memVars, jobsLeft, qrsLeft, due, budgetVars>>

-----------------------------------------------------------------------------
Unwind ==
    /\ phase' = "idle" /\ jobsLeft' = {} /\ qrsLeft' = {} /\ due' = {}
    /\ late' = TRUE

(* An exception ends the iteration; the loop logs it and goes on. *)
Abort ==
    /\ phase # "idle" /\ Unwind
    /\ IsFault("abort")
    /\ UNCHANGED <<gcsVars, qrs, memVars, crashes>>

(* The process dies and is started again: memory is lost. *)
Crash ==
    /\ crashes < MaxCrashes /\ crashes' = crashes + 1
    /\ Unwind
    /\ mem' = [j \in Jobs |-> NoRecord] /\ tracked' = {} /\ backoff' = {}
    /\ TimeUp({j \in Jobs : QrsOf(j) # {} \/ snapshot[j].status # "ABSENT"})
    /\ UNCHANGED <<statusFile, canceled, retryAsked, claimed, succeeded, failed,
                   snapshot, qrs, faults>>

-----------------------------------------------------------------------------
Init ==
    /\ filed = [j \in Jobs |-> "new"]
    /\ statusFile = [j \in Jobs |-> NoRecord]
    /\ canceled = {} /\ retryAsked = [j \in Jobs |-> 0]
    /\ claimed = {} /\ succeeded = {} /\ failed = {}
    /\ snapshot = [j \in Jobs |-> View(NoRecord)]
    /\ qrs = <<>>
    /\ mem = [j \in Jobs |-> NoRecord] /\ tracked = {} /\ backoff = {}
    /\ phase = "idle" /\ jobsLeft = {} /\ qrsLeft = {} /\ due = {}
    /\ late = FALSE /\ crashes = 0 /\ faults = 0

VisitJob(j) ==
    \/ RefreshState(j) \/ CheckCanceled(j)
    \/ CheckCompleted(j) \/ CheckCompletedMissingReport(j)
    \/ CheckRetry(j)
    \/ PassOver(j) \/ CreateQueuedResource(j) \/ CreateFails(j)
    \/ ReapTerminal(j) \/ ReapFails(j) \/ NotYetExpired(j)

VisitName(q) == PollQueuedResource(q) \/ ReconcileOrphan(q)

Carry(d) ==
    \/ SaveStatus(d) \/ CleanupFinished(d) \/ Requeue(d) \/ AdoptQr(d)
    \/ HandlePreemption(d)
    \/ ExamineSickVm(d) \/ ExamineStarted(d)
    \/ ExamineTimeout(d) \/ ExamineInTime(d)

Scheduler ==
    \/ ScanJobs \/ WriteSchedulerState \/ EndIteration
    \/ \E p \in DOMAIN Place : Advance(p)
    \/ \E j \in jobsLeft : VisitJob(j)
    \/ \E q \in qrsLeft : VisitName(q)
    \/ \E d \in due : Carry(d)

Next ==
    \/ Environment \/ Scheduler \/ Abort \/ Crash
    \/ \E j \in backoff : BackoffOver(j)

Spec == Init /\ [][Next]_vars
=============================================================================
