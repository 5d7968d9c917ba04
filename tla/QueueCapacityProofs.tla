------------------------- MODULE QueueCapacityProofs -------------------------
(***************************************************************************)
(* What the scheduler does not take from a job: a healthy attempt is given *)
(* up only on the word of a describe or a probe that failed, and orphan    *)
(* reconciliation deletes no QR that a job names in memory or in           *)
(* status.json; and what it never has twice, a QR for one attempt.  And what *)
(* a focused process leaves alone.  For any number of jobs, attempts,      *)
(* crashes and failing calls.                                              *)
(***************************************************************************)
EXTENDS QueueLedgerProofs

(* The step decides to give up no healthy attempt. *)
SparesHealth ==
    \A d \in due' \ due : d.do = "preempt" => ~Healthy(d.qr)

LEMMA OtherTask ==
    ASSUME \/ due' \subseteq due
           \/ \E t, j, q : Do(t, j, q) /\ t # "preempt"
    PROVE  SparesHealth
  BY DEF SparesHealth, Do

LEMMA OneTask ==
    ASSUME NEW j, NEW q, Do("preempt", j, q), ~Healthy(q)
    PROVE  SparesHealth
  BY DEF SparesHealth, Do

(* Described says that the capacity is not ACTIVE, unless the call failed. *)
LEMMA PollSpares ==
    ASSUME Consistent, "describe" \notin FaultKinds, NEW q \in Names, VisitName(q)
    PROVE  SparesHealth
<1>1. CASE PollForgotten(q) \/ PollReplaced(q) \/ ReconcileOrphan(q)
  BY <1>1, OtherTask DEF PollForgotten, PollReplaced, ReconcileOrphan
<1>2. CASE PollDisappeared(q)
  <2>1. Described(q) = "none"
    BY <1>2 DEF PollDisappeared, IsFault
  <2>2. ~Healthy(q)
    BY <2>1 DEF Described, Healthy
  <2> QED
    BY <1>2, <2>2, OneTask DEF PollDisappeared
<1>3. CASE PollDescribed(q)
  <2> DEFINE j == qrs[q].job  s == Described(q)
  <2>1. HandleState(j, q, s)
    BY <1>3 DEF PollDescribed
  <2>2. CASE s = "ACTIVE"
    BY <2>1, <2>2, OtherTask DEF HandleState
  <2>3. CASE s = "SUSPENDED"
    <3>1. ~Healthy(q)
      BY <2>3 DEF Described, Healthy
    <3> QED
      BY <2>1, <2>3, <3>1, OneTask DEF HandleState
  <2>4. CASE s \notin {"ACTIVE", "SUSPENDED"}
    BY <2>1, <2>4, OtherTask DEF HandleState
  <2> QED
    BY <2>2, <2>3, <2>4
<1> QED
  BY <1>1, <1>2, <1>3 DEF VisitName, PollQueuedResource

(* The markers and the heartbeat that a timeout looks for are those of the *)
(* attempt its QR was requested for.                                       *)
LEMMA ExamineSpares ==
    ASSUME Consistent, Orderly, "probe" \notin FaultKinds, NEW d \in due, Carry(d)
    PROVE  SparesHealth
<1>1. CASE ExamineSickVm(d)
  <2>1. ~Healthy(d.qr)
    BY <1>1 DEF ExamineSickVm, Healthy
  <2> QED
    BY <1>1, <2>1, OneTask DEF ExamineSickVm
<1>2. CASE ExamineTimeout(d)
  <2> DEFINE j == d.job  a == <<j, ReadAttempt(mem[j])>>
  <2>1. /\ d.do = "examine" /\ mem[j].status = "RUNNING"
        /\ NoClaimTimeout(a) \/ HeartbeatTimeout(a)
        /\ Do("preempt", j, d.qr)
    BY <1>2 DEF ExamineTimeout, Resume
  <2>2. j \in Jobs /\ mem[j].qr = d.qr
    BY <2>1 DEF Consistent, TypeOK, LoopOK, DueOK, Orderly, TasksFit, Decided
  <2>3. /\ d.qr \in Names /\ AttemptOf(d.qr) = a
    BY <2>1, <2>2 DEF Consistent, CurrentQrFitsAttempt, Records, QrFits, Holding,
       AttemptOf, ReadAttempt
  <2>4. a \notin claimed \/ ~Beating(a[1], a[2])
    BY <2>1 DEF NoClaimTimeout, HeartbeatTimeout, IsFault
  <2>5. ~Healthy(d.qr)
    BY <2>3, <2>4 DEF Healthy, Beating, QrsOf, AttemptOf
  <2> QED
    BY <2>1, <2>5, OneTask
<1>3. CASE \/ SaveStatus(d) \/ CleanupFinished(d) \/ Requeue(d) \/ AdoptQr(d)
           \/ ExamineStarted(d) \/ ExamineInTime(d)
  BY <1>3, OtherTask DEF SaveStatus, CleanupFinished, Requeue, AdoptQr, ExamineStarted,
     ExamineInTime, Done
<1>4. CASE HandlePreemption(d)
  BY <1>4, OtherTask DEF HandlePreemption
<1> QED
  BY <1>1, <1>2, <1>3, <1>4 DEF Carry

(* No other stage gives an attempt up. *)
LEMMA VisitSpares ==
    ASSUME NEW j, VisitJob(j)
    PROVE  SparesHealth
<1>1. CASE RefreshState(j)
  BY <1>1, OtherTask DEF RefreshState
<1>2. CASE CheckCanceled(j)
  BY <1>2, OtherTask DEF CheckCanceled, CancelJob
<1>3. CASE CheckCompleted(j) \/ CheckCompletedMissingReport(j)
  BY <1>3, OtherTask DEF CheckCompleted, CheckCompletedMissingReport, FinishJob
<1>4. CASE CheckRetry(j)
  BY <1>4, OtherTask DEF CheckRetry
<1>5. CASE PassOver(j) \/ CreateQueuedResource(j) \/ CreateFails(j)
  BY <1>5, OtherTask DEF PassOver, CreateQueuedResource, CreateFails
<1>6. CASE ReapTerminal(j) \/ ReapFails(j) \/ NotYetExpired(j)
  BY <1>6, OtherTask DEF ReapTerminal, ReapFails, NotYetExpired
<1> QED
  BY <1>1, <1>2, <1>3, <1>4, <1>5, <1>6 DEF VisitJob

LEMMA RestSpares ==
    ASSUME \/ Environment \/ ScanJobs \/ WriteSchedulerState \/ EndIteration
           \/ (\E p \in DOMAIN Place : Advance(p)) \/ Abort \/ Crash
           \/ \E j \in backoff : BackoffOver(j)
    PROVE  SparesHealth
<1>1. due' = due \/ due' = {}
  BY DEF Environment, loopVars, ScanJobs, WriteSchedulerState, EndIteration, Advance,
     Abort, Crash, Unwind, BackoffOver
<1> QED
  BY <1>1, OtherTask

LEMMA NextSpares ==
    ASSUME Consistent, Orderly, "describe" \notin FaultKinds, "probe" \notin FaultKinds, Next
    PROVE  SparesHealth
<1>1. qrsLeft \subseteq Names
  BY DEF Consistent, TypeOK, LoopOK
<1> QED
  BY <1>1, PollSpares, ExamineSpares, VisitSpares, RestSpares DEF Next, Scheduler

(* An attempt whose worker 0 has claimed it and keeps beating, on capacity *)
(* that Google Cloud reports ACTIVE and well, is never given up, whatever  *)
(* crashes and whatever other call fails (scheduler.py:330-405): only a    *)
(* describe or a probe that fails and passes for an answer can do it.      *)
THEOREM HealthyNeverGivenUp ==
    ASSUME "describe" \notin FaultKinds, "probe" \notin FaultKinds
    PROVE  Spec => HealthyAttemptKept
<1> DEFINE I == Consistent /\ Orderly
<1>1. Spec => [](I /\ VerdictsHaveEvidence)
  BY OrderAlways
<1>2. I /\ [Next]_vars =>
         [\A d \in due' \ due : d.do = "preempt" => ~Healthy(d.qr)]_vars
  BY NextSpares DEF SparesHealth
<1> QED
  BY <1>1, <1>2, PTL DEF Spec, HealthyAttemptKept

-----------------------------------------------------------------------------
(* A QR that reconciliation has no reason to delete. *)
Doomed(q) == qrs[q].infra \in {"DELETING", "GONE"}
Safe(q)   == q \in tracked \/ Doomed(q)

(* The stages before a QR of a job that is not loaded may be forgotten. *)
Early == {"scan", "refresh", "cancel", "poll"}

(* A QR that status.json names, whatever memory says, is safe, except that *)
(* a process which has not yet loaded the job does not know it.            *)
NamesQr(j) == filed[j] # "reaped" /\ statusFile[j].qr # 0

Covered ==
    \A j \in Jobs :
        /\ mem[j].status # "ABSENT" \/ NamesQr(j) => j \in Listed
        /\ NamesQr(j) => \/ Safe(statusFile[j].qr)
                         \/ phase = "idle" /\ mem[j].status = "ABSENT"
        /\ NamesQr(j) /\ phase \in Early => mem[j].status # "ABSENT"

(* What most steps leave alone. *)
StaysReaped == \A j \in Jobs : filed[j] = "reaped" => filed'[j] = "reaped"

StaysListed ==
    /\ StaysReaped
    /\ \A j \in Listed : \/ j \in Listed'
                         \/ filed'[j] = "reaped" /\ mem'[j] = NoRecord

StaysSafe ==
    \A j \in Jobs : LET q == statusFile[j].qr IN
        NamesQr(j) /\ Safe(q) => q \in tracked' \/ qrs'[q].infra \in {"DELETING", "GONE"}

NobodyLoaded ==
    /\ \A j \in Jobs : mem[j].status = "ABSENT" => mem'[j].status = "ABSENT"
    /\ phase' \in Early =>
          phase \in Early /\ \A j \in Jobs : mem'[j].status = "ABSENT" => mem[j].status = "ABSENT"
    /\ phase = "idle" => phase' = "idle"

LEMMA FileOf ==
    ASSUME Consistent, NEW j \in Jobs, statusFile[j].qr # 0
    PROVE  /\ statusFile[j].qr \in Names /\ qrs[statusFile[j].qr].job = j
           /\ statusFile[j].status \in Holding
  BY DEF Consistent, CurrentQrFitsAttempt, Records, QrFits, AttemptOf

LEMMA FileAfter ==
    ASSUME Consistent, Lawful, Consistent', NEW j \in Jobs, statusFile'[j].qr # 0
    PROVE  \/ statusFile'[j] = statusFile[j]
           \/ /\ statusFile'[j].qr \in tracked' /\ mem[j].status # "ABSENT"
              /\ mem'[j].status # "ABSENT"
<1>1. NoRecord.qr = 0 /\ NewRecord.qr = 0
  BY DEF NoRecord, NewRecord
<1>2. CASE statusFile'[j] = mem'[j]
  <2>1. mem'[j].status \in Holding /\ mem'[j].qr \in tracked'
    BY <1>2 DEF Consistent, CurrentQrFitsAttempt, Records, QrFits, HeldIsTracked
  <2>2. JobStep(j)
    BY DEF Lawful
  <2>3. statusFile'[j] = statusFile[j] \/ mem[j].status # "ABSENT"
    BY <1>1, <2>2 DEF JobStep, Stays, Submits, Loads, Forgets, Writes
  <2> QED
    BY <1>2, <2>1, <2>3 DEF Holding
<1>3. CASE statusFile'[j] # mem'[j]
  BY <1>1, <1>3 DEF Lawful, JobStep, Stays, Submits, Loads, Forgets, Writes
<1> QED
  BY <1>2, <1>3

LEMMA StillCovered ==
    ASSUME Consistent, Lawful, Consistent', Covered, StaysListed, StaysSafe,
           NobodyLoaded
    PROVE  Covered'
<1> SUFFICES ASSUME NEW j \in Jobs
             PROVE  /\ mem'[j].status # "ABSENT" \/ NamesQr(j)' => j \in Listed'
                    /\ NamesQr(j)' =>
                          \/ statusFile'[j].qr \in tracked'
                          \/ qrs'[statusFile'[j].qr].infra \in {"DELETING", "GONE"}
                          \/ phase' = "idle" /\ mem'[j].status = "ABSENT"
                    /\ NamesQr(j)' /\ phase' \in Early => mem'[j].status # "ABSENT"
  BY DEF Covered, Safe, Doomed
<1>1. NoRecord.status = "ABSENT" /\ NoRecord.qr = 0
  BY DEF NoRecord
<1>2. NamesQr(j)' => \/ NamesQr(j) /\ statusFile'[j] = statusFile[j]
                    \/ mem[j].status # "ABSENT"
  BY FileAfter DEF NamesQr, StaysListed, StaysReaped
<1>3. mem'[j].status # "ABSENT" \/ NamesQr(j)' => j \in Listed'
  BY <1>1, <1>2 DEF Covered, StaysListed, NobodyLoaded, NamesQr
<1>4. CASE statusFile'[j] = statusFile[j]
  <2>1. NamesQr(j)' => NamesQr(j)
    BY <1>4 DEF NamesQr, StaysListed, StaysReaped
  <2> QED
    BY <1>3, <1>4, <2>1 DEF Covered, StaysSafe, NobodyLoaded, NamesQr
<1>5. CASE statusFile'[j] # statusFile[j]
  BY <1>3, <1>5, FileAfter DEF NamesQr
<1> QED
  BY <1>4, <1>5

-----------------------------------------------------------------------------
LEMMA SameListed == ASSUME UNCHANGED filed PROVE StaysListed
  BY DEF StaysListed, StaysReaped, Listed

LEMMA TimeUpListed ==
    ASSUME NEW js, TimeUp(js)
    PROVE  /\ Listed' = Listed
           /\ \A j \in Jobs : filed'[j] = "reaped" <=> filed[j] = "reaped"
  BY DEF TimeUp, Listed

LEMMA SameSafe == ASSUME UNCHANGED qrs, tracked \subseteq tracked' PROVE StaysSafe
  BY DEF StaysSafe, NamesQr, Safe, Doomed

(* A QR that is cleaned up loses its VM, and is forgotten once it is being *)
(* deleted.                                                                *)
LEMMA CleanupEffect ==
    ASSUME Consistent, NEW q, CleanupResources(q)
    PROVE  /\ Names' = Names
           /\ \A p \in Names :
                 /\ p # q => qrs'[p] = qrs[p]
                 /\ qrs'[p].job = qrs[p].job /\ qrs'[p].attempt = qrs[p].attempt
                 /\ \/ qrs'[p].infra = qrs[p].infra
                    \/ qrs'[p].infra = "DELETING" /\ qrs[p].infra # "GONE"
                 /\ p \in tracked => p \in tracked' \/ Doomed(p)'
           /\ tracked' \subseteq tracked
<1>1. qrs \in Seq(QR) /\ \A p \in Names : qrs[p] \in QR
  BY DEF Consistent, TypeOK, CloudOK, Names
<1>2. \A r \in QR :
        /\ Deleted(r).infra = IF r.infra = "GONE" THEN "GONE" ELSE "DELETING"
        /\ WithoutVm(r).infra = r.infra
        /\ Deleted(r).job = r.job /\ Deleted(r).attempt = r.attempt
        /\ WithoutVm(r).job = r.job /\ WithoutVm(r).attempt = r.attempt
  BY DEF Deleted, WithoutVm, QR
<1>3. PICK r : /\ qrs' = [qrs EXCEPT ![q] = r] \/ qrs' = qrs
               /\ q \in Names => r \in {Deleted(qrs[q]), WithoutVm(qrs[q])}
               /\ tracked' = tracked \/ (tracked' = tracked \ {q} /\ r = Deleted(qrs[q])
                                         /\ qrs' = [qrs EXCEPT ![q] = r])
  BY DEF CleanupResources
<1>4. Names' = Names /\ \A p \in Names : qrs'[p] = qrs[p] \/ (p = q /\ qrs'[p] = r)
  BY <1>1, <1>3 DEF Names
<1>5. \A p \in Names : p \in tracked => p \in tracked' \/ Doomed(p)'
  BY <1>1, <1>2, <1>3 DEF Doomed, Names
<1> QED
  BY <1>1, <1>2, <1>3, <1>4, <1>5

LEMMA CleanedSafe ==
    ASSUME Consistent, NEW q, CleanupResources(q)
    PROVE  StaysSafe
<1>3. \A p \in Names : /\ Doomed(p) => Doomed(p)'
                       /\ p \in tracked => p \in tracked' \/ Doomed(p)'
  BY CleanupEffect DEF Doomed
<1> QED
  BY <1>3, FileOf DEF StaysSafe, NamesQr, Safe, Doomed

LEMMA AppendedSafe ==
    ASSUME Consistent, NEW r, qrs' = Append(qrs, r), UNCHANGED tracked
    PROVE  StaysSafe
<1>1. qrs \in Seq(QR)
  BY DEF Consistent, TypeOK, CloudOK
<1>2. \A q \in Names : qrs'[q] = qrs[q]
  BY <1>1 DEF Names
<1> QED
  BY <1>2, FileOf DEF StaysSafe, NamesQr, Safe, Doomed

LEMMA SamePhase ==
    ASSUME phase' = phase, \A j \in Jobs : mem[j].status = "ABSENT" <=> mem'[j].status = "ABSENT"
    PROVE  NobodyLoaded
  BY DEF NobodyLoaded

LEMMA OneLoaded ==
    ASSUME phase' = phase, NEW k, mem[k].status # "ABSENT", NEW r, r.status # "ABSENT",
           mem' = [mem EXCEPT ![k] = r], Consistent
    PROVE  NobodyLoaded
<1>1. \A j \in Jobs : mem'[j] = IF j = k THEN r ELSE mem[j]
  BY DEF Consistent, TypeOK, MemoryOK
<1> QED
  BY <1>1, SamePhase

LEMMA EnvironmentCovers ==
    ASSUME Consistent, Environment
    PROVE  StaysListed /\ StaysSafe /\ NobodyLoaded
<1>1. UNCHANGED <<mem, tracked, phase>>
  BY DEF Environment, memVars, loopVars
<1>2. StaysListed
  <2>1. filed \in [Jobs -> {"new", "spec", "full", "torn", "reaped"}]
    BY DEF Consistent, TypeOK, GcsOK
  <2> QED
    BY <2>1 DEF Environment, Cli, Submit, SubmitSpec, SubmitStatus, RequestCancel, RequestRetry,
       CloudOf, WorkerOf, Grant, Sicken, Suspend, Remove, Claim, ReportSuccess, ReportFailure,
       Vanish, StaysListed, StaysReaped, Listed, gcsVars
<1>3. StaysSafe
  <2>1. \A q \in Names : qrs[q] \in QR
    BY DEF Consistent, TypeOK, CloudOK, Names
  <2>2. CASE UNCHANGED qrs
    BY <1>1, <2>2, SameSafe
  <2>3. CASE \E q \in Names : CloudOf(q) \/ WorkerOf(q)
    <3>1. PICK q \in Names : CloudOf(q) \/ WorkerOf(q)
      BY <2>3
    <3>2. \A p \in Names : Doomed(p) => Doomed(p)'
      BY <2>1, <3>1 DEF Doomed, CloudOf, WorkerOf, Grant, Sicken, Suspend, Remove, Claim,
         ReportSuccess, ReportFailure, Vanish, QR, Names
    <3> QED
      BY <1>1, <3>2, FileOf DEF StaysSafe, NamesQr, Safe, Doomed
  <2> QED
    BY <2>2, <2>3 DEF Environment, Cli, Submit, SubmitSpec, SubmitStatus, RequestCancel,
       RequestRetry
<1> QED
  BY <1>1, <1>2, <1>3, SamePhase

LEMMA MoveOnCovers ==
    ASSUME Consistent,
           \/ WriteSchedulerState \/ EndIteration \/ Abort
           \/ (\E p \in DOMAIN Place : Advance(p)) \/ (\E j \in backoff : BackoffOver(j))
    PROVE  StaysListed /\ StaysSafe /\ NobodyLoaded
<1>1. UNCHANGED <<filed, qrs, mem, tracked>>
  BY DEF WriteSchedulerState, EndIteration, Abort, Advance, BackoffOver, gcsVars, memVars
<1>2. phase = "idle" => phase' = "idle"
  BY DEF WriteSchedulerState, EndIteration, Abort, Unwind, Advance, Drained, BackoffOver,
     loopVars
<1>3. phase' \in Early => phase \in Early
  <2>1. CASE \E p \in DOMAIN Place : Advance(p)
    <3>1. PICK p \in DOMAIN Place : Advance(p)
      BY <2>1
    <3>2. phase' = p /\ Place[phase] < Place[p] /\ phase # "idle" /\ phase \in Phases
      BY <3>1 DEF Advance, Ahead, Drained, Consistent, TypeOK, LoopOK
    <3> QED
      BY <3>2 DEF Place, Early, Phases
  <2>2. CASE WriteSchedulerState \/ EndIteration \/ Abort \/ \E j \in backoff : BackoffOver(j)
    BY <2>2 DEF WriteSchedulerState, EndIteration, Abort, Unwind, BackoffOver, loopVars, Early
  <2> QED
    BY <2>1, <2>2
<1> QED
  BY <1>1, <1>2, <1>3, SameListed, SameSafe DEF NobodyLoaded

LEMMA VisitCovers ==
    ASSUME Consistent, Orderly, Lawful, Covered, NEW j \in jobsLeft, VisitJob(j)
    PROVE  StaysListed /\ (RefreshState(j) \/ StaysSafe) /\ NobodyLoaded
<1>1. /\ j \in Jobs /\ phase' = phase
      /\ phase \in {"refresh", "cancel", "complete", "retry", "schedule", "reap"}
      /\ mem[j].status # "ABSENT"
  BY DEF VisitJob, RefreshState, CheckCanceled, CheckCompleted, CheckCompletedMissingReport,
     CheckRetry, PassOver, CreateQueuedResource, CreateFails, ReapTerminal, ReapFails,
     NotYetExpired, Visit, Orderly, VisitsFit, Cancelable, Holding, Terminal, Consistent,
     TypeOK, LoopOK
<1>2. CASE RefreshState(j)
  <2>1. UNCHANGED filed /\ phase = "refresh"
    BY <1>2 DEF RefreshState, Visit, gcsVars
  <2>2. \/ UNCHANGED mem
        \/ statusFile[j].status # "ABSENT" /\ mem' = [mem EXCEPT ![j] = statusFile[j]]
    BY <1>2 DEF RefreshState
  <2>3. NobodyLoaded
    BY <1>1, <2>1, <2>2, OneLoaded, SamePhase
  <2> QED
    BY <1>2, <2>1, <2>3, SameListed
<1>3. CASE CheckCanceled(j)
  <2>1. UNCHANGED filed /\ phase = "cancel"
    BY <1>3 DEF CheckCanceled, Visit, gcsVars
  <2>2. StaysSafe
    BY <1>3, CleanedSafe, SameSafe DEF CheckCanceled, CancelJob
  <2>3. \/ UNCHANGED mem
        \/ mem' = [mem EXCEPT ![j] = [Released(mem[j]) EXCEPT !.status = "CANCELED"]]
    BY <1>3 DEF CheckCanceled, CancelJob
  <2>4. [Released(mem[j]) EXCEPT !.status = "CANCELED"].status # "ABSENT"
    BY <1>1 DEF Released, Consistent, TypeOK, MemoryOK, Record
  <2>5. NobodyLoaded
    BY <1>1, <2>1, <2>3, <2>4, OneLoaded, SamePhase
  <2> QED
    BY <2>1, <2>2, <2>5, SameListed
<1>4. CASE CheckCompleted(j) \/ CheckCompletedMissingReport(j)
  <2>1. UNCHANGED <<filed, qrs, tracked>> /\ phase = "complete"
    BY <1>4 DEF CheckCompleted, CheckCompletedMissingReport, Visit
  <2>2. UNCHANGED mem \/ \E outcome : mem' = [mem EXCEPT ![j] = Finished(mem[j], outcome)]
    BY <1>4 DEF CheckCompleted, CheckCompletedMissingReport, FinishJob, WriteStatus
  <2>3. \A outcome : Finished(mem[j], outcome).status # "ABSENT"
    BY <1>1 DEF Finished, Released, Closed, Consistent, TypeOK, MemoryOK, Record
  <2>4. NobodyLoaded
    BY <1>1, <2>1, <2>2, <2>3, OneLoaded, SamePhase
  <2> QED
    BY <2>1, <2>4, SameListed, SameSafe
<1>5. CASE CheckRetry(j) \/ PassOver(j)
  <2>1. UNCHANGED <<filed, qrs, tracked, mem>>
    BY <1>5 DEF CheckRetry, PassOver, gcsVars, memVars
  <2> QED
    BY <1>1, <2>1, SameListed, SameSafe, SamePhase
<1>6. CASE CreateQueuedResource(j) \/ CreateFails(j)
  <2>1. UNCHANGED <<filed, tracked, mem>>
    BY <1>6 DEF CreateQueuedResource, CreateFails, gcsVars, memVars
  <2>2. StaysSafe
    BY <1>6, <2>1, AppendedSafe, SameSafe DEF CreateQueuedResource, CreateFails
  <2> QED
    BY <1>1, <2>1, <2>2, SameListed, SamePhase
<1>7. CASE ReapTerminal(j) \/ ReapFails(j)
  <2>1. phase = "reap" /\ UNCHANGED <<qrs, tracked>>
        /\ \A k \in Jobs : mem'[k] = IF k = j THEN NoRecord ELSE mem[k]
    BY <1>7 DEF ReapTerminal, ReapFails, Visit, Forget, Consistent, TypeOK, MemoryOK
  <2>2. StaysListed
    <3>1. \A k \in Jobs \ {j} : filed'[k] = filed[k]
      BY <1>7 DEF ReapTerminal, ReapFails, Consistent, TypeOK, GcsOK
    <3>2. filed'[j] \in {"torn", "reaped"} /\ filed[j] # "reaped"
      BY <1>1, <1>7 DEF ReapTerminal, ReapFails, Covered, Listed, Consistent, TypeOK, GcsOK
    <3> QED
      BY <1>1, <2>1, <3>1, <3>2 DEF StaysListed, StaysReaped, Listed
  <2>3. NobodyLoaded
    BY <1>1, <2>1 DEF NobodyLoaded, Early, NoRecord
  <2> QED
    BY <2>1, <2>2, <2>3, SameSafe
<1>8. CASE NotYetExpired(j)
  <2>1. UNCHANGED <<filed, qrs, tracked, mem>>
    BY <1>8 DEF NotYetExpired, gcsVars, memVars
  <2> QED
    BY <1>1, <2>1, SameListed, SameSafe, SamePhase
<1> QED
  BY <1>2, <1>3, <1>4, <1>5, <1>6, <1>7, <1>8 DEF VisitJob

(* A focused process forgets the QRs of another user's job, but not the    *)
(* one on file.                                                            *)
LEMMA RefreshCovers ==
    ASSUME Consistent, NEW k \in Jobs, RefreshState(k)
    PROVE  StaysSafe
<1>1. UNCHANGED qrs
  BY DEF RefreshState
<1>2. CASE tracked' = tracked
  BY <1>1, <1>2, SameSafe
<1>3. CASE tracked' = (tracked \ QrsOf(k)) \cup Adopted({k})
  <2> SUFFICES ASSUME NEW j \in Jobs, statusFile[j].qr # 0, statusFile[j].qr \in tracked
               PROVE  statusFile[j].qr \in tracked'
    BY <1>1 DEF StaysSafe, NamesQr, Safe, Doomed
  <2>1. qrs[statusFile[j].qr].job = j /\ statusFile[j].status \in Holding
    BY FileOf
  <2>2. CASE j = k
    BY <1>3, <2>1, <2>2 DEF Adopted
  <2>3. CASE j # k
    BY <1>3, <2>1, <2>3 DEF QrsOf
  <2> QED
    BY <2>2, <2>3
<1> QED
  BY <1>2, <1>3 DEF RefreshState

(* A QR is forgotten with its job, when status.json does not name it.      *)
LEMMA PollCovers ==
    ASSUME Consistent, Covered, NEW q \in qrsLeft, VisitName(q)
    PROVE  StaysListed /\ StaysSafe /\ NobodyLoaded
<1>1. UNCHANGED filed /\ phase' = phase /\ q \in Names
  BY DEF VisitName, PollQueuedResource, PollForgotten, PollReplaced, PollDisappeared,
     PollDescribed, ReconcileOrphan, VisitQr, gcsVars, Consistent, TypeOK, LoopOK
<1>2. CASE PollForgotten(q)
  <2>1. /\ phase = "poll" /\ UNCHANGED <<qrs, mem>> /\ tracked' = tracked \ {q}
        /\ qrs[q].job \notin Loaded
    BY <1>2 DEF PollForgotten, VisitQr
  <2>2. \A j \in Jobs : NamesQr(j) => statusFile[j].qr # q
    BY <2>1, FileOf DEF Covered, Early, Loaded, NamesQr
  <2>3. StaysSafe
    BY <2>1, <2>2 DEF StaysSafe, NamesQr, Safe, Doomed
  <2> QED
    BY <1>1, <2>1, <2>3, SameListed, SamePhase
<1>3. CASE PollReplaced(q) \/ ReconcileOrphan(q)
  <2>1. UNCHANGED mem /\ CleanupResources(q)
    BY <1>3 DEF PollReplaced, ReconcileOrphan
  <2> QED
    BY <1>1, <2>1, CleanedSafe, SameListed, SamePhase
<1>4. CASE PollDisappeared(q)
  <2>1. UNCHANGED <<qrs, mem, tracked>>
    BY <1>4 DEF PollDisappeared
  <2> QED
    BY <1>1, <2>1, SameSafe, SameListed, SamePhase
<1>5. CASE PollDescribed(q)
  <2> DEFINE j == qrs[q].job  s == Described(q)
  <2>1. /\ UNCHANGED <<qrs, tracked>> /\ mem[j].status # "ABSENT" /\ mem[j] \in Record
        /\ mem' = mem \/ mem' = [mem EXCEPT ![j] = [mem[j] EXCEPT !.qrState = s]]
    BY <1>5 DEF PollDescribed, WriteStatus, Loaded, Consistent, TypeOK, MemoryOK
  <2>2. [mem[j] EXCEPT !.qrState = s].status # "ABSENT"
    BY <2>1 DEF Record
  <2>3. NobodyLoaded
    BY <1>1, <2>1, <2>2, OneLoaded, SamePhase
  <2> QED
    BY <1>1, <2>1, <2>3, SameSafe, SameListed
<1> QED
  BY <1>2, <1>3, <1>4, <1>5 DEF VisitName, PollQueuedResource

LEMMA CarryCovers ==
    ASSUME Consistent, Orderly, NEW d \in due, Carry(d)
    PROVE  StaysListed /\ StaysSafe /\ NobodyLoaded
<1>1. UNCHANGED filed /\ phase' = phase
  BY DEF Carry, SaveStatus, CleanupFinished, Requeue, AdoptQr, HandlePreemption, ExamineSickVm,
     ExamineStarted, ExamineTimeout, ExamineInTime, Resume, gcsVars
<1>2. d.job \in Jobs /\ mem[d.job] \in Record /\ Decided(d) /\ TaskFits(d)
  BY DEF Consistent, TypeOK, LoopOK, DueOK, MemoryOK, Orderly, TasksFit, PipelineFits, DueFits
<1> DEFINE m == mem[d.job]
<1>3. CASE SaveStatus(d)
  <2>1. m.status # "ABSENT" /\ mem' = [mem EXCEPT ![d.job] = m] /\ UNCHANGED <<qrs, tracked>>
    BY <1>2, <1>3 DEF SaveStatus, Resume, WriteStatus, Decided
  <2> QED
    BY <1>1, <2>1, OneLoaded, SameListed, SameSafe
<1>4. CASE CleanupFinished(d)
  <2>1. UNCHANGED mem /\ CleanupResources(d.qr)
    BY <1>4 DEF CleanupFinished
  <2> QED
    BY <1>1, <2>1, CleanedSafe, SameListed, SamePhase
<1>5. CASE Requeue(d)
  <2>1. m.status = "FAILED" /\ mem' = [mem EXCEPT ![d.job] = RetriedRecord(d.job)]
        /\ UNCHANGED <<qrs, tracked>>
    BY <1>2, <1>5 DEF Requeue, Resume, WriteStatus, Decided
  <2>2. RetriedRecord(d.job).status # "ABSENT"
    BY <1>2, <2>1 DEF RetriedRecord, Released, Record
  <2> QED
    BY <1>1, <2>1, <2>2, OneLoaded, SameListed, SameSafe
<1>6. CASE AdoptQr(d)
  <2> DEFINE r == [m EXCEPT !.status = "PROVISIONING", !.qr = d.qr, !.qrState = "WAITING"]
  <2>1. m.status = "PENDING" /\ mem' = [mem EXCEPT ![d.job] = r] /\ UNCHANGED qrs
        /\ tracked \subseteq tracked'
    BY <1>2, <1>6 DEF AdoptQr, Resume, WriteStatus, Decided
  <2>2. r.status # "ABSENT"
    BY <1>2 DEF Record
  <2> QED
    BY <1>1, <2>1, <2>2, OneLoaded, SameListed, SameSafe
<1>7. CASE HandlePreemption(d)
  <2> DEFINE r == Requeued(d.job, Released(Closed(m, "INFRA")))
  <2>1. m.qr = d.qr /\ d.qr # 0 /\ mem' = [mem EXCEPT ![d.job] = r] /\ CleanupResources(d.qr)
    BY <1>2, <1>7 DEF HandlePreemption, Resume, Decided, TaskFits
  <2>2. m.status # "ABSENT"
    BY <1>2, <2>1, OwnQr DEF Holding
  <2>3. r.status # "ABSENT"
    BY <1>2 DEF Requeued, Released, Closed, Record
  <2> QED
    BY <1>1, <2>1, <2>2, <2>3, OneLoaded, SameListed, CleanedSafe
<1>8. CASE ExamineStarted(d)
  <2>1. m.status = "PROVISIONING" /\ UNCHANGED <<qrs, tracked>>
        /\ mem' = [mem EXCEPT ![d.job] = [m EXCEPT !.status = "RUNNING"]]
    BY <1>8 DEF ExamineStarted, WriteStatus
  <2>2. [m EXCEPT !.status = "RUNNING"].status # "ABSENT"
    BY <1>2 DEF Record
  <2> QED
    BY <1>1, <2>1, <2>2, OneLoaded, SameListed, SameSafe
<1>9. CASE ExamineSickVm(d) \/ ExamineTimeout(d) \/ ExamineInTime(d)
  <2>1. UNCHANGED <<mem, qrs, tracked>>
    BY <1>9 DEF ExamineSickVm, ExamineTimeout, ExamineInTime, memVars
  <2> QED
    BY <1>1, <2>1, SameListed, SameSafe, SamePhase
<1> QED
  BY <1>3, <1>4, <1>5, <1>6, <1>7, <1>8, <1>9 DEF Carry

(* A scan that goes on to the stages has loaded every job, and adopted the *)
(* QR of each.                                                             *)
LEMMA ScanCovers ==
    ASSUME Consistent, Consistent', Covered, ScanJobs
    PROVE  Covered'
<1>1. PICK got \in SUBSET Loadable :
        /\ Load(got)
        /\ phase' = "idle" \/ got = Missing
        /\ phase = "idle" /\ phase' \in {"idle", "scan"}
        /\ UNCHANGED <<statusFile, qrs>>
        /\ Listed' = Listed /\ \A j \in Jobs : filed'[j] = "reaped" <=> filed[j] = "reaped"
  BY TimeUpListed DEF ScanJobs, MayProceed
<1>2. \A j \in Jobs : mem'[j] = IF j \in got THEN StateOnFile(j) ELSE mem[j]
  BY <1>1 DEF Load, LoadedState
<1>3. \A j \in got : j \in Listed /\ mem[j].status = "ABSENT"
  BY <1>1 DEF Loadable, Missing, Loaded, Listed
<1> SUFFICES ASSUME NEW j \in Jobs
             PROVE  /\ mem'[j].status # "ABSENT" \/ NamesQr(j) => j \in Listed
                    /\ NamesQr(j) =>
                          \/ statusFile[j].qr \in tracked' \/ Doomed(statusFile[j].qr)
                          \/ phase' = "idle" /\ mem'[j].status = "ABSENT"
                    /\ NamesQr(j) /\ phase' \in Early => mem'[j].status # "ABSENT"
  BY <1>1 DEF Covered, Safe, Doomed, NamesQr
<1>4. mem'[j].status # "ABSENT" \/ NamesQr(j) => j \in Listed
  BY <1>2, <1>3 DEF Covered
<1>5. CASE NamesQr(j) /\ j \in got
  <2>1. statusFile[j].status \in Holding /\ statusFile[j].qr # 0
    BY <1>5, FileOf DEF NamesQr
  <2>2. statusFile[j].qr \in tracked' /\ mem'[j].status # "ABSENT"
    BY <1>1, <1>2, <1>5, <2>1 DEF Load, Adopted, StateOnFile, Holding
  <2> QED
    BY <1>4, <2>2
<1>6. CASE NamesQr(j) /\ j \notin got
  <2>1. mem'[j] = mem[j] /\ tracked \subseteq tracked'
    BY <1>1, <1>2, <1>6 DEF Load
  <2>2. mem[j].status # "ABSENT" \/ phase' = "idle"
    BY <1>1, <1>4, <1>6 DEF Missing, Loaded
  <2> QED
    BY <1>1, <1>4, <1>6, <2>1, <2>2 DEF Covered, Safe, Early
<1> QED
  BY <1>4, <1>5, <1>6

LEMMA CrashCovers == ASSUME Covered, Crash PROVE Covered'
<1>1. UNCHANGED <<statusFile, qrs>> /\ phase' = "idle"
      /\ \A j \in Jobs : mem'[j].status = "ABSENT"
  BY DEF Crash, Unwind, NoRecord
<1>2. Listed' = Listed /\ \A j \in Jobs : filed'[j] = "reaped" <=> filed[j] = "reaped"
  BY TimeUpListed DEF Crash
<1> QED
  BY <1>1, <1>2 DEF Covered, Early, NamesQr

LEMMA SameCovered ==
    ASSUME Covered, UNCHANGED <<filed, statusFile, qrs, mem, tracked, phase>>
    PROVE  Covered'
  BY DEF Covered, Safe, Doomed, Listed, NamesQr

LEMMA NextCovered ==
    ASSUME Consistent, Orderly, Consistent', Covered, Next
    PROVE  Covered'
<1>1. Lawful /\ jobsLeft \subseteq Jobs
  BY NextLawful DEF Consistent, TypeOK, LoopOK
<1>2. ASSUME NEW j \in jobsLeft, VisitJob(j) PROVE Covered'
  BY <1>1, <1>2, VisitCovers, RefreshCovers, StillCovered
<1>3. ASSUME NEW q \in qrsLeft, VisitName(q) PROVE Covered'
  BY <1>1, <1>3, PollCovers, StillCovered
<1>4. ASSUME NEW d \in due, Carry(d) PROVE Covered'
  BY <1>1, <1>4, CarryCovers, StillCovered
<1>5. CASE Environment
  BY <1>1, <1>5, EnvironmentCovers, StillCovered
<1>6. CASE \/ WriteSchedulerState \/ EndIteration \/ Abort
           \/ (\E p \in DOMAIN Place : Advance(p)) \/ (\E j \in backoff : BackoffOver(j))
  BY <1>1, <1>6, MoveOnCovers, StillCovered
<1> QED
  BY <1>2, <1>3, <1>4, <1>5, <1>6, ScanCovers, CrashCovers DEF Next, Scheduler

(* What reconciliation deletes, no record names. *)
LEMMA ReconcileTakesOrphans ==
    ASSUME Consistent, Covered, Next, NEW p \in Names, phase = "reconcile", Deletes(p)
    PROVE  \A j \in Listed : \A r \in Records(j) : r.qr # p
<1>1. due = {} /\ qrsLeft \cap tracked = {} /\ qrsLeft \subseteq Names
  BY DEF Consistent, PipelineFits, OrphansFit, TypeOK, LoopOK
<1>2. \A q \in Names : qrs[q] \in QR
  BY DEF Consistent, TypeOK, CloudOK, Names
<1>3. ~UNCHANGED qrs
  BY DEF Deletes
<1>4. ~Environment
  <2> SUFFICES ASSUME Environment PROVE FALSE
    OBVIOUS
  <2>1. PICK q \in Names : CloudOf(q) \/ WorkerOf(q)
    BY <1>3 DEF Environment, Cli, Submit, SubmitSpec, SubmitStatus, RequestCancel, RequestRetry
  <2>2. qrs'[p].infra = "DELETING" => qrs[p].infra = "DELETING"
    BY <1>2, <2>1 DEF CloudOf, WorkerOf, Grant, Sicken, Suspend, Remove, Claim,
       ReportSuccess, ReportFailure, Vanish, QR, Names
  <2> QED
    BY <2>2 DEF Deletes
<1>5. PICK q \in qrsLeft : ReconcileOrphan(q)
  <2>1. \A j : ~VisitJob(j) \/ phase # "reconcile" \/ UNCHANGED qrs
    BY DEF VisitJob, RefreshState, CheckCanceled, CheckCompleted, CheckCompletedMissingReport,
       CheckRetry, PassOver, CreateQueuedResource, CreateFails, ReapTerminal, ReapFails,
       NotYetExpired, Visit
  <2>2. \A q : ~PollQueuedResource(q)
    BY DEF PollQueuedResource, PollForgotten, PollReplaced, PollDisappeared, PollDescribed,
       VisitQr
  <2>3. ScanJobs \/ WriteSchedulerState \/ EndIteration \/ (\E s \in DOMAIN Place : Advance(s))
        \/ Abort \/ Crash \/ (\E j \in backoff : BackoffOver(j)) => UNCHANGED qrs
    BY DEF ScanJobs, WriteSchedulerState, EndIteration, Advance, Abort, Crash, BackoffOver
  <2> QED
    BY <1>1, <1>3, <1>4, <2>1, <2>2, <2>3 DEF Next, Scheduler, VisitName
<1>6. p = q /\ qrs[q].infra # "GONE"
  BY <1>1, <1>5, CleanupEffect DEF ReconcileOrphan, Deletes
<1>7. ~Safe(q)
  BY <1>1, <1>5, <1>6 DEF Safe, Doomed, Deletes
<1>8. ASSUME NEW j \in Listed PROVE mem[j].qr # q /\ statusFile[j].qr # q
  <2>1. mem[j].qr # 0 => mem[j].qr \in tracked
    BY OwnQr DEF Consistent, HeldIsTracked, Listed
  <2>2. q # 0
    BY <1>1, <1>5 DEF Names, Consistent, TypeOK, CloudOK
  <2>3. statusFile[j].qr # 0 => Safe(statusFile[j].qr)
    BY DEF Covered, NamesQr, Listed
  <2> QED
    BY <1>7, <2>1, <2>2, <2>3 DEF Safe
<1> QED
  BY <1>6, <1>8 DEF Records

(* Orphan reconciliation never deletes a QR that a job names, in memory or *)
(* in status.json (scheduler.py:560-574, 640-643), through lost writes,    *)
(* iterations that end half-way, restarts and scans that fail.             *)
THEOREM ReconcileAlwaysSpares == Spec => ReconcileSparesJobs
<1> DEFINE I == Consistent /\ Orderly
<1>1. Spec => [](I /\ VerdictsHaveEvidence)
  BY OrderAlways
<1>2. Init => Covered
  BY DEF Init, Covered, NamesQr, NoRecord
<1>3. I /\ I' /\ Covered /\ [Next]_vars => Covered'
  <2>1. UNCHANGED vars /\ Covered => Covered'
    BY SameCovered DEF vars, gcsVars, memVars, loopVars
  <2> QED
    BY <2>1, NextCovered
<1>4. I /\ Covered /\ [Next]_vars =>
         [\A q \in Names : phase = "reconcile" /\ Deletes(q) =>
             \A j \in Listed : \A r \in Records(j) : r.qr # q]_vars
  BY ReconcileTakesOrphans
<1> QED
  BY <1>1, <1>2, <1>3, <1>4, PTL DEF Spec, ReconcileSparesJobs
-----------------------------------------------------------------------------
(***************************************************************************)
(* The scheduler never tracks two QRs for one attempt, for any number of   *)
(* jobs, attempts, crashes and failing calls, as long as the directory of  *)
(* a job that is past its retention is deleted whole or not at all.        *)
(***************************************************************************)
(* A tracked QR is its job's own, or of an attempt that has been counted,  *)
(* or its job never asks for capacity again.                               *)
Spent(q) ==
    LET j == qrs[q].job IN
    /\ mem[j].status = "ABSENT" => filed[j] = "reaped"
    /\ mem[j].status # "ABSENT" =>
          \/ mem[j].qr = q \/ mem[j].status = "CANCELED"
          \/ qrs[q].attempt <= mem[j].attempt

Newest == OneQrPerAttempt /\ \A q \in tracked : Spent(q)

(* How a record may change under the QRs that are tracked for its job: the *)
(* QR stays, the attempt is counted, the job is canceled or had no QR.     *)
Supersedes(s, r) ==
    /\ s.status # "ABSENT" /\ r.status # "ABSENT"
    /\ s.status = "CANCELED" => r.status = "CANCELED"
    /\ \/ r.status = "CANCELED"
       \/ r.attempt = NextAttempt(s)
       \/ r.attempt = s.attempt /\ (r.qr = s.qr \/ s.qr = 0)

LEMMA TrackedFacts ==
    ASSUME Consistent, NEW q \in tracked
    PROVE  /\ q \in Names /\ q # 0 /\ qrs[q].job \in Jobs /\ qrs[q].attempt \in Nat
           /\ mem[qrs[q].job] \in Record
           /\ mem[qrs[q].job].qr = q => qrs[q].attempt = NextAttempt(mem[qrs[q].job])
<1>1. q \in Names /\ q # 0 /\ qrs[q] \in QR
  BY DEF Consistent, TypeOK, MemoryOK, CloudOK, Names
<1>2. qrs[q].job \in Jobs /\ qrs[q].attempt \in Nat
  BY <1>1 DEF QR
<1> QED
  BY <1>1, <1>2, OwnQr DEF Consistent, TypeOK, MemoryOK

LEMMA StillOne ==
    ASSUME Consistent, Newest, SameAttempts, tracked' \subseteq tracked
    PROVE  OneQrPerAttempt'
<1>1. tracked \subseteq Names
  BY TrackedFacts
<1> QED
  BY <1>1 DEF Newest, OneQrPerAttempt, AttemptOf, SameAttempts

LEMMA QuietStaysNewest ==
    ASSUME Consistent, Newest, SameAttempts, tracked' \subseteq tracked, UNCHANGED mem,
           StaysReaped
    PROVE  Newest'
<1>1. \A q \in tracked : q \in Names /\ qrs[q].job \in Jobs
  BY TrackedFacts
<1>2. \A q \in tracked' : Spent(q)'
  BY <1>1 DEF Newest, Spent, SameAttempts, StaysReaped
<1> QED
  BY <1>2, StillOne DEF Newest

LEMMA ChangeStaysNewest ==
    ASSUME Consistent, Newest, SameAttempts, tracked' \subseteq tracked, UNCHANGED filed,
           NEW j \in Jobs, NEW r, mem' = [mem EXCEPT ![j] = r], Supersedes(mem[j], r)
    PROVE  Newest'
<1>1. \A k \in Jobs : mem'[k] = IF k = j THEN r ELSE mem[k]
  BY DEF Consistent, TypeOK, MemoryOK
<1> SUFFICES ASSUME NEW q \in tracked' PROVE Spent(q)'
  BY StillOne DEF Newest
<1>2. /\ q \in Names /\ q # 0 /\ qrs[q].job \in Jobs /\ qrs[q].attempt \in Nat
      /\ mem[qrs[q].job] \in Record /\ Spent(q)
      /\ qrs'[q].job = qrs[q].job /\ qrs'[q].attempt = qrs[q].attempt
      /\ mem[qrs[q].job].qr = q => qrs[q].attempt = NextAttempt(mem[qrs[q].job])
  BY TrackedFacts DEF Newest, SameAttempts
<1>3. CASE qrs[q].job = j
  <2>1. mem[j].attempt \in Nat
    BY <1>2, <1>3 DEF Record
  <2> QED
    BY <1>1, <1>2, <1>3, <2>1 DEF Spent, Supersedes, NextAttempt
<1>4. CASE qrs[q].job # j
  BY <1>1, <1>2, <1>4 DEF Spent
<1> QED
  BY <1>3, <1>4

LEMMA CleanedTracked == ASSUME NEW q, CleanupResources(q) PROVE tracked' \subseteq tracked
  BY DEF CleanupResources

-----------------------------------------------------------------------------
LEMMA EnvironmentNewest ==
    ASSUME Consistent, Newest, SameAttempts, Environment
    PROVE  Newest'
<1>1. UNCHANGED <<mem, tracked>>
  BY DEF Environment, memVars
<1>2. StaysReaped
  BY DEF Environment, Cli, Submit, SubmitSpec, SubmitStatus, RequestCancel, RequestRetry,
     CloudOf, WorkerOf, Grant, Sicken, Suspend, Remove, Claim, ReportSuccess, ReportFailure,
     Vanish, StaysReaped, gcsVars, Consistent, TypeOK, GcsOK
<1> QED
  BY <1>1, <1>2, QuietStaysNewest

LEMMA MoveOnNewest ==
    ASSUME Consistent, Newest, SameAttempts,
           \/ WriteSchedulerState \/ EndIteration \/ Abort
           \/ (\E p \in DOMAIN Place : Advance(p)) \/ (\E j \in backoff : BackoffOver(j))
    PROVE  Newest'
<1>1. UNCHANGED <<filed, mem, tracked>>
  BY DEF WriteSchedulerState, EndIteration, Abort, Advance, BackoffOver, gcsVars, memVars
<1> QED
  BY <1>1, QuietStaysNewest DEF StaysReaped

LEMMA CrashNewest == ASSUME Crash PROVE Newest'
<1>1. tracked' = {}
  BY DEF Crash
<1> QED
  BY <1>1 DEF Newest, OneQrPerAttempt

(* What is adopted from status.json, when nothing else is tracked for it.  *)
LEMMA AdoptedNewest ==
    ASSUME Consistent, Newest, SameAttempts, StaysReaped, UNCHANGED statusFile,
           NEW js \in SUBSET Jobs,
           tracked' \subseteq tracked \cup Adopted(js),
           \A q \in tracked' : qrs[q].job \in js => q \in Adopted(js),
           \A j \in Jobs : mem'[j] = IF j \in js THEN StateOnFile(j) ELSE mem[j]
    PROVE  Newest'
<1>1. \A q \in tracked : q \in Names /\ qrs[q].job \in Jobs
  BY TrackedFacts
<1>2. \A q \in Adopted(js) :
        /\ q \in Names /\ qrs[q].job \in js /\ q = statusFile[qrs[q].job].qr
        /\ statusFile[qrs[q].job].status \in Holding
  BY DEF Consistent, CurrentQrFitsAttempt, Records, QrFits, AttemptOf, Adopted
<1>3. OneQrPerAttempt'
  BY <1>1, <1>2 DEF Newest, OneQrPerAttempt, AttemptOf, SameAttempts
<1>4. \A q \in tracked' \ Adopted(js) : Spent(q)'
  BY <1>1 DEF Newest, Spent, SameAttempts, StaysReaped
<1>5. \A q \in tracked' \cap Adopted(js) : Spent(q)'
  BY <1>2 DEF Spent, SameAttempts, StateOnFile, Holding
<1> QED
  BY <1>3, <1>4, <1>5 DEF Newest

LEMMA ScanNewest ==
    ASSUME Consistent, Newest, SameAttempts, ScanJobs
    PROVE  Newest'
<1>1. PICK got \in SUBSET Loadable :
        Load(got) /\ StaysReaped /\ UNCHANGED <<statusFile, qrs>>
  BY TimeUpListed DEF ScanJobs, StaysReaped
<1>2. \A j \in got : j \in Jobs /\ filed[j] # "reaped" /\ mem[j].status = "ABSENT"
  BY <1>1 DEF Loadable, Missing, Listed, Loaded
<1>3. \A q \in tracked : qrs[q].job \notin got
  BY <1>2 DEF Newest, Spent
<1>4. \A j \in Jobs : mem'[j] = IF j \in got THEN StateOnFile(j) ELSE mem[j]
  BY <1>1 DEF Load, LoadedState
<1>5. tracked' = tracked \cup Adopted(got) /\ got \in SUBSET Jobs
  BY <1>1, <1>2 DEF Load
<1>6. \A q \in tracked' : qrs[q].job \in got => q \in Adopted(got)
  BY <1>3, <1>5
<1> QED
  BY <1>1, <1>4, <1>5, <1>6, AdoptedNewest

LEMMA RefreshNewest ==
    ASSUME Consistent, Newest, SameAttempts, NEW j \in Jobs, RefreshState(j)
    PROVE  Newest'
<1>1. StaysReaped /\ UNCHANGED statusFile
  BY DEF RefreshState, StaysReaped, gcsVars
<1>2. CASE UNCHANGED <<mem, tracked>>
  BY <1>1, <1>2, QuietStaysNewest DEF StaysReaped
<1>3. CASE /\ statusFile[j].status # "ABSENT" /\ mem' = [mem EXCEPT ![j] = statusFile[j]]
           /\ tracked' = (tracked \ QrsOf(j)) \cup Adopted({j})
  <2>1. \A k \in Jobs : mem'[k] = IF k \in {j} THEN StateOnFile(k) ELSE mem[k]
    BY <1>3 DEF Consistent, TypeOK, MemoryOK, StateOnFile
  <2>2. \A q \in tracked' : qrs[q].job \in {j} => q \in Adopted({j})
    BY <1>3, TrackedFacts DEF QrsOf
  <2> QED
    BY <1>1, <1>3, <2>1, <2>2, AdoptedNewest
<1> QED
  BY <1>2, <1>3 DEF RefreshState

LEMMA VisitNewest ==
    ASSUME Consistent, Orderly, Newest, SameAttempts, NEW j \in jobsLeft, VisitJob(j),
           "reap" \notin FaultKinds
    PROVE  Newest'
<1>1. /\ j \in Jobs /\ mem[j] \in Record
      /\ phase = "cancel" => mem[j].status \in Cancelable
      /\ phase = "complete" => mem[j].status = "RUNNING"
  BY DEF Orderly, VisitsFit, Consistent, TypeOK, LoopOK, MemoryOK
<1>2. CASE RefreshState(j)
  BY <1>1, <1>2, RefreshNewest
<1>3. CASE CheckCanceled(j)
  <2> DEFINE r == [Released(mem[j]) EXCEPT !.status = "CANCELED"]
  <2>1. UNCHANGED filed /\ phase = "cancel" /\ (UNCHANGED mem \/ mem' = [mem EXCEPT ![j] = r])
    BY <1>3 DEF CheckCanceled, CancelJob, Visit, gcsVars
  <2>2. tracked' \subseteq tracked
    BY <1>3, CleanedTracked DEF CheckCanceled, CancelJob
  <2>3. Supersedes(mem[j], r)
    BY <1>1, <2>1 DEF Supersedes, Released, Record, Cancelable, Holding
  <2> QED
    BY <1>1, <2>1, <2>2, <2>3, QuietStaysNewest, ChangeStaysNewest DEF StaysReaped
<1>4. CASE CheckCompleted(j) \/ CheckCompletedMissingReport(j)
  <2>1. UNCHANGED <<filed, tracked>> /\ phase = "complete"
    BY <1>4 DEF CheckCompleted, CheckCompletedMissingReport, Visit
  <2>2. UNCHANGED mem \/ \E outcome : mem' = [mem EXCEPT ![j] = Finished(mem[j], outcome)]
    BY <1>4 DEF CheckCompleted, CheckCompletedMissingReport, FinishJob, WriteStatus
  <2>3. \A outcome : Supersedes(mem[j], Finished(mem[j], outcome))
    BY <1>1, <2>1 DEF Supersedes, Finished, Released, Closed, Record, NextAttempt
  <2> QED
    BY <1>1, <2>1, <2>2, <2>3, QuietStaysNewest, ChangeStaysNewest DEF StaysReaped
<1>5. CASE CheckRetry(j) \/ PassOver(j) \/ CreateQueuedResource(j) \/ CreateFails(j)
           \/ NotYetExpired(j)
  <2>1. UNCHANGED <<filed, tracked, mem>>
    BY <1>5 DEF CheckRetry, PassOver, CreateQueuedResource, CreateFails, NotYetExpired,
       gcsVars, memVars
  <2> QED
    BY <2>1, QuietStaysNewest DEF StaysReaped
<1>6. CASE ReapTerminal(j)
  <2>1. /\ UNCHANGED tracked
        /\ \A k \in Jobs : mem'[k] = IF k = j THEN NoRecord ELSE mem[k]
        /\ \A k \in Jobs : filed'[k] = IF k = j THEN "reaped" ELSE filed[k]
    BY <1>6 DEF ReapTerminal, Forget, Consistent, TypeOK, MemoryOK, GcsOK
  <2>2. \A q \in tracked : q \in Names /\ qrs[q].job \in Jobs /\ Spent(q)
    BY TrackedFacts DEF Newest
  <2>3. \A q \in tracked' : Spent(q)'
    BY <2>1, <2>2 DEF Spent, SameAttempts, NoRecord
  <2> QED
    BY <2>1, <2>3, StillOne DEF Newest
<1>7. ~ReapFails(j)
  BY DEF ReapFails, IsFault
<1> QED
  BY <1>2, <1>3, <1>4, <1>5, <1>6, <1>7 DEF VisitJob

LEMMA PollNewest ==
    ASSUME Consistent, Newest, SameAttempts, NEW q \in qrsLeft, VisitName(q)
    PROVE  Newest'
<1>1. UNCHANGED filed /\ q \in Names
  BY DEF VisitName, PollQueuedResource, PollForgotten, PollReplaced, PollDisappeared,
     PollDescribed, ReconcileOrphan, VisitQr, gcsVars, Consistent, TypeOK, LoopOK
<1>2. CASE PollForgotten(q) \/ PollReplaced(q) \/ PollDisappeared(q) \/ ReconcileOrphan(q)
  <2>1. UNCHANGED mem /\ tracked' \subseteq tracked
    BY <1>2, CleanedTracked DEF PollForgotten, PollReplaced, PollDisappeared, ReconcileOrphan
  <2> QED
    BY <1>1, <2>1, QuietStaysNewest DEF StaysReaped
<1>3. CASE PollDescribed(q)
  <2> DEFINE j == qrs[q].job  r == [mem[j] EXCEPT !.qrState = Described(q)]
  <2>1. /\ UNCHANGED tracked /\ mem[j].status # "ABSENT" /\ mem[j] \in Record /\ j \in Jobs
        /\ mem' = mem \/ mem' = [mem EXCEPT ![j] = r]
    BY <1>3 DEF PollDescribed, WriteStatus, Loaded, Consistent, TypeOK, MemoryOK
  <2>2. Supersedes(mem[j], r)
    BY <2>1 DEF Supersedes, Record
  <2> QED
    BY <1>1, <2>1, <2>2, QuietStaysNewest, ChangeStaysNewest DEF StaysReaped
<1> QED
  BY <1>2, <1>3 DEF VisitName, PollQueuedResource

(* A request is adopted for an attempt of which nothing is tracked.        *)
LEMMA AdoptNewest ==
    ASSUME Consistent, Orderly, Newest, SameAttempts, NEW d \in due, AdoptQr(d)
    PROVE  Newest'
<1> DEFINE j == d.job
           r == [mem[j] EXCEPT !.status = "PROVISIONING", !.qr = d.qr, !.qrState = "WAITING"]
<1>1. /\ mem[j].status = "PENDING" /\ j \in Jobs /\ mem[j] \in Record
      /\ d.qr \in Names /\ qrs[d.qr].job = j /\ qrs[d.qr].attempt = NextAttempt(mem[j])
  BY DEF AdoptQr, Resume, Consistent, TypeOK, LoopOK, DueOK, MemoryOK, PipelineFits, DueFits,
     TaskFits, Orderly, TasksFit, Decided
<1>2. UNCHANGED filed /\ tracked' = tracked \cup {d.qr}
      /\ \A k \in Jobs : mem'[k] = IF k = j THEN r ELSE mem[k]
  BY DEF AdoptQr, WriteStatus, Consistent, TypeOK, MemoryOK
<1>3. r.status = "PROVISIONING" /\ r.qr = d.qr /\ r.attempt = mem[j].attempt
      /\ mem[j].attempt \in Nat
  BY <1>1 DEF Record
<1>4. mem[j].qr = 0
  BY <1>1, OwnQr DEF Holding
<1> HIDE DEF r
<1>5. ASSUME NEW q \in tracked
      PROVE  /\ Spent(q)' /\ q \in Names
             /\ qrs[q].job = j => qrs[q].attempt <= mem[j].attempt
  <2>1. q \in Names /\ q # 0 /\ qrs[q].job \in Jobs /\ Spent(q)
        /\ qrs'[q].job = qrs[q].job /\ qrs'[q].attempt = qrs[q].attempt
    BY TrackedFacts DEF Newest, SameAttempts
  <2>2. qrs[q].job = j => qrs[q].attempt <= mem[j].attempt
    BY <1>1, <1>4, <2>1 DEF Spent
  <2> QED
    BY <1>1, <1>2, <1>3, <2>1, <2>2 DEF Spent
<1>6. Spent(d.qr)'
  BY <1>1, <1>2, <1>3 DEF Spent, SameAttempts
<1>7. \A q \in tracked : AttemptOf(q) # AttemptOf(d.qr)
  BY <1>1, <1>3, <1>5 DEF AttemptOf, NextAttempt
<1>8. OneQrPerAttempt'
  BY <1>1, <1>2, <1>5, <1>7 DEF Newest, OneQrPerAttempt, AttemptOf, SameAttempts
<1> QED
  BY <1>2, <1>5, <1>6, <1>8 DEF Newest

LEMMA CarryNewest ==
    ASSUME Consistent, Orderly, Newest, SameAttempts, NEW d \in due, Carry(d)
    PROVE  Newest'
<1> DEFINE m == mem[d.job]
<1>1. UNCHANGED filed
  BY DEF Carry, SaveStatus, CleanupFinished, Requeue, AdoptQr, HandlePreemption, ExamineSickVm,
     ExamineStarted, ExamineTimeout, ExamineInTime, gcsVars
<1>2. d.job \in Jobs /\ m \in Record /\ Decided(d) /\ TaskFits(d)
  BY DEF Consistent, TypeOK, LoopOK, DueOK, MemoryOK, Orderly, TasksFit, PipelineFits, DueFits
<1>3. CASE SaveStatus(d)
  <2>1. m.status # "ABSENT" /\ mem' = [mem EXCEPT ![d.job] = m] /\ UNCHANGED tracked
    BY <1>2, <1>3 DEF SaveStatus, Resume, WriteStatus, Decided
  <2> QED
    BY <1>1, <1>2, <2>1, ChangeStaysNewest DEF Supersedes
<1>4. CASE CleanupFinished(d)
  BY <1>1, <1>4, CleanedTracked, QuietStaysNewest DEF CleanupFinished, StaysReaped
<1>5. CASE Requeue(d)
  <2>1. m.status = "FAILED" /\ mem' = [mem EXCEPT ![d.job] = RetriedRecord(d.job)]
        /\ UNCHANGED tracked
    BY <1>2, <1>5 DEF Requeue, Resume, WriteStatus, Decided
  <2>2. m.qr = 0
    BY <1>2, <2>1, OwnQr DEF Holding
  <2>3. Supersedes(m, RetriedRecord(d.job))
    BY <1>2, <2>1, <2>2 DEF Supersedes, RetriedRecord, Released, Record
  <2> QED
    BY <1>1, <1>2, <2>1, <2>3, ChangeStaysNewest
<1>6. CASE HandlePreemption(d)
  <2> DEFINE r == Requeued(d.job, Released(Closed(m, "INFRA")))
  <2>1. m.qr = d.qr /\ d.qr # 0 /\ mem' = [mem EXCEPT ![d.job] = r] /\ CleanupResources(d.qr)
    BY <1>2, <1>6 DEF HandlePreemption, Resume, Decided, TaskFits
  <2>2. m.status \in Holding
    BY <1>2, <2>1, OwnQr
  <2>3. Supersedes(m, r)
    BY <1>2, <2>2 DEF Supersedes, Requeued, Released, Closed, Record, NextAttempt, Holding
  <2> QED
    BY <1>1, <1>2, <2>1, <2>3, CleanedTracked, ChangeStaysNewest
<1>7. CASE ExamineStarted(d)
  <2> DEFINE r == [m EXCEPT !.status = "RUNNING"]
  <2>1. m.status = "PROVISIONING" /\ UNCHANGED tracked /\ mem' = [mem EXCEPT ![d.job] = r]
    BY <1>7 DEF ExamineStarted, WriteStatus
  <2>2. Supersedes(m, r)
    BY <1>2, <2>1 DEF Supersedes, Record
  <2> QED
    BY <1>1, <1>2, <2>1, <2>2, ChangeStaysNewest
<1>8. CASE ExamineSickVm(d) \/ ExamineTimeout(d) \/ ExamineInTime(d)
  <2>1. UNCHANGED <<mem, tracked>>
    BY <1>8 DEF ExamineSickVm, ExamineTimeout, ExamineInTime, memVars
  <2> QED
    BY <1>1, <2>1, QuietStaysNewest DEF StaysReaped
<1> QED
  BY <1>3, <1>4, <1>5, <1>6, <1>7, <1>8, AdoptNewest DEF Carry

LEMMA NextNewest ==
    ASSUME Consistent, Orderly, Newest, Next, "reap" \notin FaultKinds
    PROVE  Newest'
<1>1. SameAttempts
  BY NextAttempts
<1> QED
  BY <1>1, EnvironmentNewest, MoveOnNewest, CrashNewest, ScanNewest, VisitNewest, PollNewest,
     CarryNewest DEF Next, Scheduler

(* Two QRs of one attempt are never tracked at once, through lost writes,  *)
(* refused deletions, requests that time out, retries and restarts         *)
(* (scheduler.py:485-525, 640-643), unless a job comes back from a         *)
(* directory that was deleted by half.                                     *)
THEOREM OneQrAlways ==
    ASSUME "reap" \notin FaultKinds
    PROVE  Spec => []OneQrPerAttempt
<1> DEFINE I == Consistent /\ Orderly
<1>1. Spec => [](I /\ VerdictsHaveEvidence)
  BY OrderAlways
<1>2. Init => Newest
  BY DEF Init, Newest, OneQrPerAttempt
<1>3. I /\ Newest /\ [Next]_vars => Newest'
  <2>1. UNCHANGED vars /\ Newest => Newest'
    BY DEF vars, gcsVars, memVars, Newest, OneQrPerAttempt, Spent, AttemptOf
  <2> QED
    BY <2>1, NextNewest
<1>4. Newest => OneQrPerAttempt
  BY DEF Newest
<1> QED
  BY <1>1, <1>2, <1>3, <1>4, PTL DEF Spec
-----------------------------------------------------------------------------
(***************************************************************************)
(* A focused process.  What it has still to visit is its own user's, and   *)
(* so is what it has still to do, unless it is to save a cancellation.     *)
(***************************************************************************)
SavesCancellation(d) ==
    d.do = "save" /\ mem[d.job].status = "CANCELED" /\ d.job \in canceled

KeepsFocus ==
    FocusedOn # "all" =>
        /\ phase \notin {"reap", "reconcile"}
        /\ phase \notin {"refresh", "cancel"} => \A j \in jobsLeft : Attends(j)
        /\ \A q \in qrsLeft : Attends(qrs[q].job)
        /\ \A d \in due : Attends(d.job) \/ SavesCancellation(d)

LEMMA NothingDone ==
    ASSUME UNCHANGED <<statusFile, retryAsked, qrs>>
    PROVE  KeepsToItsUser
  BY DEF KeepsToItsUser, LeftAlone, Deletes, Names

(* What is done for one job, and to QRs of this job, is left undone for    *)
(* all others.                                                             *)
LEMMA DoneForOne ==
    ASSUME Consistent, NEW j \in Jobs,
           \A k \in Jobs \ {j} : statusFile'[k] = statusFile[k] /\ retryAsked'[k] = retryAsked[k],
           \/ UNCHANGED qrs
           \/ \E q \in Names : qrs[q].job = j /\ CleanupResources(q)
           \/ \E a \in Nat : qrs' = Append(qrs, NewQR(j, a))
    PROVE  \A k \in Jobs \ {j} : LeftAlone(k)
<1>1. qrs \in Seq(QR)
  BY DEF Consistent, TypeOK, CloudOK
<1> SUFFICES ASSUME NEW k \in Jobs \ {j}, NEW q \in DOMAIN qrs', qrs'[q].job = k
             PROVE  q \in Names /\ qrs'[q].infra = qrs[q].infra
  BY DEF LeftAlone, Deletes
<1>2. CASE UNCHANGED qrs
  BY <1>2 DEF Names
<1>3. ASSUME NEW p \in Names, qrs[p].job = j, CleanupResources(p)
      PROVE  q \in Names /\ qrs'[q].infra = qrs[q].infra
  BY <1>3, CleanupEffect DEF Names
<1>4. ASSUME NEW a \in Nat, qrs' = Append(qrs, NewQR(j, a))
      PROVE  q \in Names /\ qrs'[q].infra = qrs[q].infra
  BY <1>1, <1>4 DEF NewQR, Names
<1> QED
  BY <1>2, <1>3, <1>4

(* ... which is in order when it is its own user's, or being canceled.     *)
LEMMA ForItsUser ==
    ASSUME NEW j \in Jobs, Attends(j) \/ Canceled(j), \A k \in Jobs \ {j} : LeftAlone(k)
    PROVE  KeepsToItsUser
  BY DEF KeepsToItsUser, Stranger, Attends

-----------------------------------------------------------------------------
(* A visit or the rest of one stays within its stage, ...                  *)
LEMMA StillFocused ==
    ASSUME Consistent, KeepsFocus, SameAttempts, FocusedOn # "all",
           UNCHANGED <<phase, crashes>>, jobsLeft' \subseteq jobsLeft, qrsLeft' \subseteq qrsLeft,
           \A d \in due' : Attends(d.job) \/ SavesCancellation(d)'
    PROVE  KeepsFocus'
<1>1. \A q \in qrsLeft' : qrs'[q].job = qrs[q].job
  BY DEF SameAttempts, Consistent, TypeOK, LoopOK
<1>2. \A k : Attends(k)' = Attends(k)
  BY DEF Attends, FocusedOn
<1> QED
  BY <1>1, <1>2 DEF KeepsFocus

LEMMA VisitKeepsFocus ==
    ASSUME Consistent, KeepsFocus, SameAttempts, FocusedOn # "all",
           NEW j \in jobsLeft, VisitJob(j)
    PROVE  KeepsFocus' /\ KeepsToItsUser /\ canceled \subseteq canceled'
<1>1. j \in Jobs /\ mem[j] \in Record
  BY RecordsFit DEF Consistent, TypeOK, LoopOK
<1>2. ASSUME NEW stage, Visit(stage, j)
      PROVE  /\ phase = stage /\ due = {} /\ UNCHANGED <<phase, crashes>>
             /\ jobsLeft' \subseteq jobsLeft /\ qrsLeft' \subseteq qrsLeft
  BY <1>2 DEF Visit
<1>3. CASE RefreshState(j)
  <2>1. Visit("refresh", j) /\ UNCHANGED <<gcsVars, qrs, due>>
    BY <1>3 DEF RefreshState
  <2>2. UNCHANGED <<statusFile, retryAsked, canceled>> /\ due' = {}
    BY <1>2, <2>1 DEF gcsVars
  <2> QED
    BY <1>2, <2>1, <2>2, NothingDone, StillFocused
<1>4. CASE CheckCanceled(j)
  <2>1. Visit("cancel", j) /\ UNCHANGED <<statusFile, retryAsked, canceled>>
    BY <1>4 DEF CheckCanceled, gcsVars
  <2>2. CASE j \notin canceled
    <3>1. UNCHANGED <<qrs, due>>
      BY <1>4, <2>2 DEF CheckCanceled
    <3> QED
      BY <1>2, <2>1, <3>1, NothingDone, StillFocused
  <2>3. CASE j \in canceled
    <3>1. CancelJob(j)
      BY <1>4, <2>3 DEF CheckCanceled
    <3>2. \A d \in due' : SavesCancellation(d)'
      <4>1. mem'[j].status = "CANCELED"
        BY <1>1, <3>1 DEF CancelJob, Released, Record, Consistent, TypeOK, MemoryOK
      <4> QED
        BY <2>1, <2>3, <3>1, <4>1 DEF CancelJob, Do, SavesCancellation
    <3>3. UNCHANGED qrs \/ \E q \in Names : qrs[q].job = j /\ CleanupResources(q)
      BY <1>1, <3>1, OwnQr DEF CancelJob
    <3>4. Canceled(j)
      BY <2>1, <2>3 DEF Canceled
    <3> QED
      BY <1>1, <1>2, <2>1, <3>2, <3>3, <3>4, DoneForOne, ForItsUser, StillFocused
  <2> QED
    BY <2>2, <2>3
<1>5. CASE ReapTerminal(j) \/ ReapFails(j) \/ NotYetExpired(j)
  BY <1>2, <1>5 DEF ReapTerminal, ReapFails, NotYetExpired, KeepsFocus
<1>6. CASE \/ CheckCompleted(j) \/ CheckCompletedMissingReport(j) \/ CheckRetry(j)
           \/ PassOver(j) \/ CreateQueuedResource(j) \/ CreateFails(j)
  <2>1. PICK stage \in {"complete", "retry", "schedule"} : Visit(stage, j)
    BY <1>6 DEF CheckCompleted, CheckCompletedMissingReport, CheckRetry, PassOver,
       CreateQueuedResource, CreateFails
  <2>2. Attends(j)
    BY <1>2, <2>1 DEF KeepsFocus
  <2>3. /\ UNCHANGED canceled
        /\ \A k \in Jobs \ {j} : statusFile'[k] = statusFile[k] /\ retryAsked'[k] = retryAsked[k]
    BY <1>6 DEF CheckCompleted, CheckCompletedMissingReport, FinishJob, WriteStatus, CheckRetry,
       PassOver, CreateQueuedResource, CreateFails, gcsVars, Consistent, TypeOK, GcsOK
  <2>4. \/ UNCHANGED qrs
        \/ qrs' = Append(qrs, NewQR(j, NextAttempt(mem[j])))
    BY <1>6 DEF CheckCompleted, CheckCompletedMissingReport, CheckRetry, PassOver,
       CreateQueuedResource, CreateFails
  <2>5. NextAttempt(mem[j]) \in Nat
    BY <1>1 DEF NextAttempt, Record
  <2>6. due' = due \/ \E t, q : Do(t, j, q)
    BY <1>6 DEF CheckCompleted, CheckCompletedMissingReport, FinishJob, CheckRetry, PassOver,
       CreateQueuedResource, CreateFails
  <2>7. \A d \in due' : Attends(d.job)
    BY <1>2, <2>1, <2>2, <2>6 DEF Do
  <2> QED
    BY <1>1, <1>2, <2>1, <2>2, <2>3, <2>4, <2>5, <2>7, DoneForOne, ForItsUser, StillFocused
<1> QED
  BY <1>3, <1>4, <1>5, <1>6 DEF VisitJob

LEMMA PollKeepsFocus ==
    ASSUME Consistent, KeepsFocus, SameAttempts, FocusedOn # "all",
           NEW q \in qrsLeft, VisitName(q)
    PROVE  KeepsFocus' /\ KeepsToItsUser /\ canceled \subseteq canceled'
<1> DEFINE j == qrs[q].job
<1>1. q \in Names /\ j \in Jobs /\ Attends(j)
  BY QrType DEF Consistent, TypeOK, LoopOK, KeepsFocus
<1>2. PollQueuedResource(q)
  BY DEF VisitName, ReconcileOrphan, VisitQr, KeepsFocus
<1>3. /\ due = {} /\ UNCHANGED <<phase, crashes, canceled>>
      /\ jobsLeft' \subseteq jobsLeft /\ qrsLeft' \subseteq qrsLeft
  BY <1>2 DEF PollQueuedResource, PollForgotten, PollReplaced, PollDisappeared,
     PollDescribed, VisitQr, gcsVars
<1>4. \A k \in Jobs \ {j} : statusFile'[k] = statusFile[k] /\ retryAsked'[k] = retryAsked[k]
  BY <1>2 DEF PollQueuedResource, PollForgotten, PollReplaced, PollDisappeared,
     PollDescribed, WriteStatus, gcsVars, Consistent, TypeOK, GcsOK
<1>5. UNCHANGED qrs \/ \E p \in Names : qrs[p].job = j /\ CleanupResources(p)
  BY <1>1, <1>2 DEF PollQueuedResource, PollForgotten, PollReplaced, PollDisappeared,
     PollDescribed
<1>6. due' = due \/ \E t, p : Do(t, j, p)
  BY <1>2 DEF PollQueuedResource, PollForgotten, PollReplaced, PollDisappeared,
     PollDescribed, HandleState
<1>7. \A d \in due' : Attends(d.job)
  BY <1>1, <1>3, <1>6 DEF Do
<1> QED
  BY <1>1, <1>3, <1>4, <1>5, <1>7, DoneForOne, ForItsUser, StillFocused

LEMMA CarryKeepsFocus ==
    ASSUME Consistent, KeepsFocus, SameAttempts, FocusedOn # "all",
           NEW d \in due, Carry(d)
    PROVE  KeepsFocus' /\ KeepsToItsUser /\ canceled \subseteq canceled'
<1> DEFINE j == d.job
<1>1. PICK task : Resume(d, task)
  BY DEF Carry, SaveStatus, CleanupFinished, Requeue, AdoptQr, HandlePreemption,
     ExamineSickVm, ExamineStarted, ExamineTimeout, ExamineInTime
<1>2. /\ d.do = task /\ UNCHANGED <<phase, jobsLeft, qrsLeft, crashes>>
      /\ j \in Jobs /\ TaskFits(d) /\ mem[j] \in Record
      /\ Attends(j) \/ SavesCancellation(d)
  BY <1>1, Resuming DEF Resume, KeepsFocus
<1>3. UNCHANGED <<canceled, retryAsked>>
  BY DEF Carry, SaveStatus, CleanupFinished, Requeue, AdoptQr, HandlePreemption,
     ExamineSickVm, ExamineStarted, ExamineTimeout, ExamineInTime, gcsVars
<1>4. \A k \in Jobs \ {j} : statusFile'[k] = statusFile[k] /\ retryAsked'[k] = retryAsked[k]
  BY <1>3 DEF Carry, SaveStatus, CleanupFinished, Requeue, AdoptQr, HandlePreemption,
     ExamineSickVm, ExamineStarted, ExamineTimeout, ExamineInTime, WriteStatus, gcsVars,
     Consistent, TypeOK, GcsOK
<1>5. CASE SavesCancellation(d)
  <2>1. SaveStatus(d)
    BY <1>5 DEF Carry, SavesCancellation, Resume, CleanupFinished, Requeue, AdoptQr,
       HandlePreemption, ExamineSickVm, ExamineStarted, ExamineTimeout, ExamineInTime
  <2>2. UNCHANGED qrs /\ due' = {}
    BY <2>1 DEF SaveStatus, Done
  <2>3. Canceled(j)
    BY <1>2, <1>5, <2>1 DEF SaveStatus, SavesCancellation, WriteStatus, Canceled, Consistent,
       TypeOK, GcsOK
  <2> QED
    BY <1>2, <1>3, <1>4, <2>2, <2>3, DoneForOne, ForItsUser, StillFocused
<1>6. CASE Attends(j)
  <2>1. UNCHANGED qrs \/ \E q \in Names : qrs[q].job = j /\ CleanupResources(q)
    <3>1. CASE CleanupFinished(d) \/ HandlePreemption(d)
      <4>1. CleanupResources(d.qr) /\ d.do \in {"cleanup", "preempt"}
        BY <3>1 DEF CleanupFinished, HandlePreemption, Resume
      <4>2. CASE d.qr = 0
        <5>1. qrs \in Seq(QR)
          BY DEF Consistent, TypeOK, CloudOK
        <5> QED
          BY <4>1, <4>2, <5>1 DEF CleanupResources
      <4>3. CASE d.qr # 0
        BY <1>2, <4>1, <4>3 DEF TaskFits
      <4> QED
        BY <4>2, <4>3
    <3>2. CASE ~CleanupFinished(d) /\ ~HandlePreemption(d)
      BY <3>2 DEF Carry, SaveStatus, Requeue, AdoptQr, ExamineSickVm, ExamineStarted,
         ExamineTimeout, ExamineInTime
    <3> QED
      BY <3>1, <3>2
  <2>2. due' = {} \/ \E t, q : Do(t, j, q)
    BY DEF Carry, SaveStatus, CleanupFinished, Requeue, AdoptQr, HandlePreemption,
       ExamineSickVm, ExamineStarted, ExamineTimeout, ExamineInTime, Done
  <2>3. \A e \in due' : Attends(e.job)
    BY <1>6, <2>2 DEF Do
  <2> QED
    BY <1>2, <1>3, <1>4, <1>6, <2>1, <2>3, DoneForOne, ForItsUser, StillFocused
<1> QED
  BY <1>2, <1>5, <1>6

(* ... and a stage takes up no more than it has business with.             *)
LEMMA MoveOnKeepsFocus ==
    ASSUME Consistent, KeepsFocus, FocusedOn # "all",
           \/ ScanJobs \/ WriteSchedulerState \/ EndIteration
           \/ \E p \in DOMAIN Place : Advance(p)
    PROVE  KeepsFocus' /\ KeepsToItsUser /\ canceled \subseteq canceled'
<1>1. /\ UNCHANGED <<statusFile, retryAsked, qrs, canceled, crashes, due>>
      /\ due = {}
  BY DEF ScanJobs, WriteSchedulerState, EndIteration, Advance, Drained, gcsVars, budgetVars,
     Consistent, PipelineFits, OneHandler
<1>2. /\ FocusedOn' # "all"
      /\ \A k : Attends(k)' = Attends(k)
  BY <1>1 DEF Attends, FocusedOn
<1>3. CASE ScanJobs \/ WriteSchedulerState \/ EndIteration
  <2>1. /\ UNCHANGED <<jobsLeft, qrsLeft>>
        /\ phase \notin {"refresh", "cancel"} \/ jobsLeft = {}
        /\ phase' \in {"scan", "idle"}
    BY <1>3 DEF ScanJobs, WriteSchedulerState, EndIteration, Drained
  <2> QED
    BY <1>1, <1>2, <2>1, NothingDone DEF KeepsFocus
<1>4. ASSUME NEW p \in DOMAIN Place, Advance(p)
      PROVE  KeepsFocus'
  <2>1. /\ phase' = p /\ jobsLeft' = JobsFor(p) /\ qrsLeft' = QrsFor(p)
        /\ Busy(p)
    BY <1>4 DEF Advance, Ahead
  <2>2. p \notin {"reap", "reconcile"}
    BY <2>1 DEF Busy, JobsFor, QrsFor, Everything
  <2>3. p \notin {"refresh", "cancel"} => \A j \in JobsFor(p) : Attends(j)
    BY <2>2 DEF JobsFor, Attended, Place
  <2>4. \A q \in QrsFor(p) : Attends(qrs[q].job)
    BY <2>2 DEF QrsFor
  <2> QED
    BY <1>1, <1>2, <2>1, <2>2, <2>3, <2>4 DEF KeepsFocus
<1> QED
  BY <1>1, <1>3, <1>4, NothingDone

(* What others do takes nobody's cancellation back.                        *)
LEMMA OthersKeepFocus ==
    ASSUME Consistent, KeepsFocus, SameAttempts, UNCHANGED <<mem, loopVars, crashes>>,
           FocusedOn # "all" => canceled \subseteq canceled'
    PROVE  KeepsFocus'
<1>1. UNCHANGED <<phase, jobsLeft, qrsLeft, due, FocusedOn>>
  BY DEF loopVars, FocusedOn
<1>2. FocusedOn # "all" =>
        \A d \in due' : Attends(d.job) \/ SavesCancellation(d)'
  BY <1>1 DEF KeepsFocus, SavesCancellation
<1> QED
  BY <1>1, <1>2, StillFocused DEF KeepsFocus

LEMMA NextKeepsFocus ==
    ASSUME Consistent, KeepsFocus, Next
    PROVE  /\ KeepsFocus'
           /\ UNCHANGED loopVars \/ KeepsToItsUser
           /\ FocusedOn # "all" => canceled \subseteq canceled'
<1>1. SameAttempts
  BY NextAttempts
<1>2. CASE Environment \/ \E j \in backoff : BackoffOver(j)
  <2>1. UNCHANGED <<mem, loopVars, crashes>> /\ canceled \subseteq canceled'
    BY <1>2 DEF Environment, Cli, Submit, SubmitSpec, SubmitStatus, RequestCancel, RequestRetry,
       CloudOf, WorkerOf, Grant, Sicken, Suspend, Remove, Claim, ReportSuccess,
       ReportFailure, Vanish, BackoffOver, gcsVars, memVars, budgetVars
  <2> QED
    BY <1>1, <2>1, OthersKeepFocus
<1>3. CASE Abort \/ Crash
  <2>1. /\ phase' = "idle" /\ jobsLeft' = {} /\ qrsLeft' = {} /\ due' = {}
        /\ UNCHANGED <<statusFile, retryAsked, qrs, canceled>>
    BY <1>3 DEF Abort, Crash, Unwind, gcsVars
  <2> QED
    BY <2>1, NothingDone DEF KeepsFocus
<1>4. CASE Scheduler
  <2>1. CASE FocusedOn = "all"
    <3>1. UNCHANGED crashes
      BY <1>4 DEF Scheduler, ScanJobs, WriteSchedulerState, EndIteration, Advance, VisitJob,
         RefreshState, CheckCanceled, CheckCompleted, CheckCompletedMissingReport, CheckRetry,
         PassOver, CreateQueuedResource, CreateFails, ReapTerminal, ReapFails, NotYetExpired,
         VisitName, PollQueuedResource, PollForgotten, PollReplaced, PollDisappeared,
         PollDescribed, ReconcileOrphan, Visit, VisitQr, Carry, SaveStatus, CleanupFinished,
         Requeue, AdoptQr, HandlePreemption, ExamineSickVm, ExamineStarted, ExamineTimeout,
         ExamineInTime, Resume, budgetVars
    <3> QED
      BY <2>1, <3>1 DEF KeepsFocus, FocusedOn, KeepsToItsUser, Stranger
  <2>2. CASE FocusedOn # "all"
    BY <1>1, <1>4, <2>2, VisitKeepsFocus, PollKeepsFocus, CarryKeepsFocus, MoveOnKeepsFocus
       DEF Scheduler
  <2> QED
    BY <2>1, <2>2
<1> QED
  BY <1>2, <1>3, <1>4 DEF Next

(* A focused process takes nobody's markers away.                          *)
LEMMA NeverReaps ==
    ASSUME FocusedOn # "all", phase # "reap",
           Scheduler \/ \E j \in backoff : BackoffOver(j)
    PROVE  phase' # "reap" /\ UNCHANGED canceled
<1>1. CASE \/ \E j \in jobsLeft : VisitJob(j)
           \/ \E q \in qrsLeft : VisitName(q)
           \/ \E d \in due : Carry(d)
           \/ \E j \in backoff : BackoffOver(j)
  BY <1>1 DEF VisitJob, RefreshState, CheckCanceled, CheckCompleted,
     CheckCompletedMissingReport, CheckRetry, PassOver, CreateQueuedResource, CreateFails,
     ReapTerminal, ReapFails, NotYetExpired, VisitName, PollQueuedResource, PollForgotten,
     PollReplaced, PollDisappeared, PollDescribed, ReconcileOrphan, Visit, VisitQr, Carry,
     SaveStatus, CleanupFinished, Requeue, AdoptQr, HandlePreemption, ExamineSickVm,
     ExamineStarted, ExamineTimeout, ExamineInTime, Resume, BackoffOver, gcsVars, loopVars
<1>2. CASE ScanJobs \/ WriteSchedulerState \/ EndIteration
  BY <1>2 DEF ScanJobs, WriteSchedulerState, EndIteration, gcsVars
<1>3. ASSUME NEW p \in DOMAIN Place, Advance(p)
      PROVE  phase' # "reap" /\ UNCHANGED canceled
  <2>1. Busy("reap") => "reap" \in {"publish"}
    BY DEF Busy, JobsFor, QrsFor, Everything
  <2> QED
    BY <1>3, <2>1 DEF Advance, Ahead, gcsVars
<1> QED
  BY <1>1, <1>2, <1>3 DEF Scheduler

-----------------------------------------------------------------------------
(* QRs only go from bad to worse: a worker never goes back, and whoever    *)
(* writes `claimed` has got past its boot.                                 *)
Ended == {"tail", "over"}

Onward ==
    /\ SameAttempts
    /\ \A q \in Names : /\ qrs[q].worker = "run" => qrs'[q].worker \in {"run"} \cup Ended
                        /\ qrs[q].worker \in Ended => qrs'[q].worker \in Ended
    /\ \A q \in Names' : qrs'[q].infra = "WAITING" => qrs'[q].worker = "off"
    /\ \A a \in claimed' \ claimed : \E q \in Names : AttemptOf(q) = a /\ qrs'[q].worker = "run"
    /\ faults <= faults'

NobodyWaits == \A q \in Names : qrs[q].infra = "WAITING" => qrs[q].worker = "off"

LEMMA EnvironmentOnward ==
    ASSUME Consistent, NobodyWaits, Environment
    PROVE  Onward
<1>1. SameAttempts /\ faults <= faults'
  BY EnvironmentAttempts, FaultAssumption
     DEF Consistent, TypeOK, BudgetOK, Environment, budgetVars
<1>2. \A p \in Names : qrs[p] \in QR
  BY DEF Consistent, TypeOK, CloudOK, Names
<1>3. CASE \E j \in Jobs : Cli(j)
  <2>1. UNCHANGED <<qrs, claimed>>
    BY <1>3 DEF Cli, Submit, SubmitSpec, SubmitStatus, RequestCancel, RequestRetry
  <2> QED
    BY <1>1, <2>1 DEF Onward, NobodyWaits, Names, Ended
<1>4. ASSUME NEW q \in Names, CloudOf(q)
      PROVE  Onward
  <2>1. UNCHANGED claimed
    BY <1>4 DEF CloudOf, Grant, Sicken, Suspend, Remove, gcsVars
  <2>2. /\ Names' = Names
        /\ \A p \in Names : \/ qrs'[p] = qrs[p]
                            \/ /\ qrs'[p].infra # "WAITING"
                               /\ \/ qrs'[p].worker \in {qrs[p].worker, "over"}
                                  \/ qrs[p].infra = "WAITING"
    BY <1>2, <1>4 DEF CloudOf, Grant, Sicken, Suspend, Remove, QR, Names
  <2> QED
    BY <1>1, <2>1, <2>2 DEF Onward, NobodyWaits, Ended
<1>5. ASSUME NEW q \in Names, WorkerOf(q)
      PROVE  Onward
  <2>1. /\ Names' = Names
        /\ \A p \in Names : \/ qrs'[p] = qrs[p]
                            \/ /\ qrs'[p].infra # "WAITING"
                               /\ qrs'[p].worker \in {qrs[p].worker, "run", "tail"}
                               /\ qrs'[p].worker = "run" => qrs[p].worker \in {"run", "boot"}
    BY <1>2, <1>5 DEF WorkerOf, Claim, ReportSuccess, ReportFailure, Vanish, Up, QR, Names
  <2>2. \/ UNCHANGED claimed
        \/ claimed' = claimed \cup {AttemptOf(q)} /\ qrs'[q].worker = "run"
    BY <1>2, <1>5 DEF WorkerOf, Claim, ReportSuccess, ReportFailure, Vanish, gcsVars, QR, Names
  <2> QED
    BY <1>1, <2>1, <2>2 DEF Onward, NobodyWaits, Ended
<1> QED
  BY <1>3, <1>4, <1>5 DEF Environment

(* A deletion ends a worker, or leaves it as it is.                        *)
LEMMA DeletedOnward ==
    ASSUME NEW r \in QR
    PROVE  /\ Deleted(r).infra # "WAITING"
           /\ Deleted(r).worker \in {r.worker, "over"}
           /\ WithoutVm(r).infra = r.infra
           /\ WithoutVm(r).worker \in {r.worker, "over"}
           /\ r.worker = "off" => WithoutVm(r).worker = "off"
  BY DEF Deleted, WithoutVm, QR

Shrinks(q) == \/ qrs' = [qrs EXCEPT ![q] = Deleted(@)]
              \/ qrs' = [qrs EXCEPT ![q] = WithoutVm(@)]

LEMMA QrsOnward ==
    ASSUME Consistent, NobodyWaits, SameAttempts, claimed' \subseteq claimed, faults <= faults',
           \/ UNCHANGED qrs
           \/ \E q \in Names : Shrinks(q)
           \/ \E j, a : qrs' = Append(qrs, NewQR(j, a))
    PROVE  Onward
<1>1. qrs \in Seq(QR) /\ \A p \in Names : qrs[p] \in QR
  BY DEF Consistent, TypeOK, CloudOK, Names
<1>2. CASE UNCHANGED qrs
  BY <1>2 DEF Onward, NobodyWaits, Names, Ended
<1>3. ASSUME NEW q \in Names, Shrinks(q)
      PROVE  Onward
  <2>1. /\ Names' = Names
        /\ \A p \in Names : \/ qrs'[p] = qrs[p]
                            \/ p = q /\ qrs'[p] \in {Deleted(qrs[q]), WithoutVm(qrs[q])}
    BY <1>1, <1>3 DEF Names, Shrinks
  <2> QED
    BY <1>1, <2>1, DeletedOnward DEF Onward, NobodyWaits, Ended
<1>4. ASSUME NEW j, NEW a, qrs' = Append(qrs, NewQR(j, a))
      PROVE  Onward
  <2>1. /\ Names' = Names \cup {Len(qrs) + 1}
        /\ \A p \in Names : qrs'[p] = qrs[p]
        /\ qrs'[Len(qrs) + 1] = NewQR(j, a)
    BY <1>1, <1>4 DEF Names
  <2> QED
    BY <2>1 DEF Onward, NobodyWaits, Ended, NewQR
<1> QED
  BY <1>2, <1>3, <1>4

LEMMA ProcessOnward ==
    ASSUME Consistent, NobodyWaits, Next, ~Environment
    PROVE  Onward
<1>1. SameAttempts
  BY NextAttempts
<1>2. faults \in Nat /\ (NoFault \/ (\E kind : IsFault(kind)) => faults <= faults')
  BY FaultAssumption DEF Consistent, TypeOK, BudgetOK, NoFault, IsFault
<1>3. /\ claimed' \subseteq claimed
      /\ NoFault \/ \E kind : IsFault(kind)
  <2>1. ASSUME NEW j, VisitJob(j)
        PROVE  claimed' \subseteq claimed /\ (NoFault \/ \E kind : IsFault(kind))
    BY <2>1 DEF VisitJob, RefreshState, CheckCanceled, CancelJob, CleanupResources,
       CheckCompleted, FinishJob, WriteStatus, CheckCompletedMissingReport, CheckRetry, PassOver,
       CreateQueuedResource, CreateFails, ReapTerminal, ReapFails, NotYetExpired, NotOf, SomeOf, gcsVars
  <2>2. ASSUME NEW q, VisitName(q)
        PROVE  claimed' \subseteq claimed /\ (NoFault \/ \E kind : IsFault(kind))
    BY <2>2 DEF VisitName, PollQueuedResource, PollForgotten, PollReplaced, PollDisappeared,
       PollDescribed, WriteStatus, ReconcileOrphan, CleanupResources, gcsVars
  <2>3. ASSUME NEW d, Carry(d)
        PROVE  claimed' \subseteq claimed /\ (NoFault \/ \E kind : IsFault(kind))
    BY <2>3 DEF Carry, SaveStatus, CleanupFinished, Requeue, AdoptQr, HandlePreemption,
       CleanupResources, WriteStatus, ExamineSickVm, ExamineStarted, ExamineTimeout,
       NoClaimTimeout, HeartbeatTimeout, ExamineInTime, gcsVars
  <2>4. \/ ScanJobs \/ WriteSchedulerState \/ EndIteration
        \/ \E p \in DOMAIN Place : Advance(p)
        \/ Abort \/ Crash \/ \E j \in backoff : BackoffOver(j)
        => claimed' \subseteq claimed /\ (NoFault \/ \E kind : IsFault(kind))
    BY DEF ScanJobs, WriteSchedulerState, EndIteration, Advance, Abort, Crash, BackoffOver,
       NoFault, gcsVars, budgetVars
  <2> QED
    BY <2>1, <2>2, <2>3, <2>4 DEF Next, Scheduler
<1>4. \/ UNCHANGED qrs
      \/ \E q \in Names : Shrinks(q)
      \/ \E j, a : qrs' = Append(qrs, NewQR(j, a))
  BY ProcessTouchesQrs DEF TouchesQrs, CleanupResources, Shrinks
<1> QED
  BY <1>1, <1>2, <1>3, <1>4, QrsOnward
=============================================================================
