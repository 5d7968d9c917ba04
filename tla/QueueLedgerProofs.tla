-------------------------- MODULE QueueLedgerProofs --------------------------
(***************************************************************************)
(* What a step may do to the records of a job, and what follows from it:   *)
(* verdicts rest on evidence, and status.json implements the ledger.       *)
(***************************************************************************)
EXTENDS QueueRecordProofs

(* What a stage has still to visit is in a state the stage looks for.      *)
VisitsFit ==
    \A j \in jobsLeft :
        /\ phase \in {"refresh", "cancel", "complete", "retry", "schedule", "reap"}
        /\ phase = "refresh"  => mem[j].status # "ABSENT"
        /\ phase = "cancel"   => mem[j].status \in Cancelable
        /\ phase = "complete" => mem[j].status = "RUNNING"
        /\ phase = "retry"    => mem[j].status = "FAILED"
        /\ phase = "schedule" => mem[j].status = "PENDING"
        /\ phase = "reap"     => mem[j].status \in Terminal

(* What is still to be done was decided on the record the job still has.   *)
Decided(d) ==
    /\ d.do \in {"examine", "preempt"} => mem[d.job].qr = d.qr /\ phase = "poll"
    /\ d.do = "adopt"   => mem[d.job].status = "PENDING"
    /\ d.do = "requeue" => mem[d.job].status = "FAILED"
    /\ d.do = "save"    => mem[d.job].status # "ABSENT"

TasksFit == \A d \in due : d.job \notin jobsLeft /\ Decided(d)

Orderly == VisitsFit /\ TasksFit

-----------------------------------------------------------------------------
(* A visit or the rest of one changes at most the record of its job, which *)
(* the stage does not visit again.                                         *)
LEMMA NewTaskOrderly ==
    ASSUME Consistent, Orderly, NEW j \in Jobs, NEW t, NEW q, Do(t, j, q),
           jobsLeft' = jobsLeft \ {j}, phase' = phase,
           \A k \in Jobs \ {j} : mem'[k] = mem[k],
           Decided([do |-> t, job |-> j, qr |-> q])'
    PROVE  Orderly'
  BY DEF Orderly, VisitsFit, TasksFit, Do, Consistent, TypeOK, LoopOK

LEMMA NoTaskOrderly ==
    ASSUME Consistent, Orderly, NEW j, due' = {},
           jobsLeft' \subseteq jobsLeft \ {j}, phase' = phase,
           \A k \in Jobs \ {j} : mem'[k] = mem[k]
    PROVE  Orderly'
  BY DEF Orderly, VisitsFit, TasksFit, Consistent, TypeOK, LoopOK

LEMMA IdleOrderly ==
    ASSUME jobsLeft' = {}, due' = {}
    PROVE  Orderly'
  BY DEF Orderly, VisitsFit, TasksFit

LEMMA SameOrderly ==
    ASSUME Orderly, UNCHANGED <<mem, phase, jobsLeft, due>>
    PROVE  Orderly'
  BY DEF Orderly, VisitsFit, TasksFit, Decided

-----------------------------------------------------------------------------
(* How a record may become another one: by progress within an attempt, ... *)
Open == {"PENDING"} \cup Holding

Goes(j, s, r) ==
    /\ r.log = s.log /\ r.attempt = s.attempt
    /\ \/ r.status = s.status
       \/ /\ s.status \in Open /\ r.status \in Open \cup {"CANCELED"}
          /\ r.status = "CANCELED" => j \in canceled /\ phase = "cancel"
       \/ s.status = "FAILED" /\ r.status = "PENDING" /\ AttemptsLeft(j, s)

(* ... or by the end of one. *)
Ends(j, s, r) ==
    \E outcome \in Outcomes :
        /\ s.status \in Holding /\ phase \in {"poll", "complete"}
        /\ r.log = Append(s.log, [attempt |-> NextAttempt(s), qr |-> s.qr,
                                  outcome |-> outcome])
        /\ r.attempt = NextAttempt(s)
        /\ outcome = "OK" => <<j, NextAttempt(s)>> \in succeeded
                             /\ r.status = "SUCCEEDED"
        /\ outcome = "APP" => <<j, NextAttempt(s)>> \in failed
                              /\ r.status = "FAILED"
        /\ outcome = "INFRA" =>
              r.status = IF AttemptsLeft(j, r) THEN "PENDING" ELSE "FAILED"

MarkersKept(j) ==
    \A n \in Nat :
           /\ <<j, n>> \in succeeded => <<j, n>> \in succeeded'
           /\ <<j, n>> \in failed => <<j, n>> \in failed'

(* What a step may do to the records of job j. *)
Stays(j) == mem'[j] = mem[j] /\ statusFile'[j] = statusFile[j] /\ MarkersKept(j)

(* The submitter's second write may still come. *)
Fresh(j) == filed[j] \in {"new", "spec"}

Submits(j) ==
    /\ mem'[j] = mem[j] /\ statusFile'[j] = NewRecord /\ MarkersKept(j)
    /\ Fresh(j) /\ filed'[j] = "full"

Loads(j) ==
    /\ filed[j] # "new" \/ mem[j].status # "ABSENT"
    /\ mem'[j] = StateOnFile(j) /\ statusFile'[j] = statusFile[j] /\ MarkersKept(j)

(* A directory of which nothing, or only a part, is left. *)
Deserted(j) == filed[j] \in {"torn", "reaped"}

Forgets(j) ==
    /\ mem'[j] = NoRecord
    /\ \/ Deserted(j)' /\ statusFile'[j] \in {statusFile[j], NoRecord}
       \/ phase' = "idle" /\ statusFile'[j] = statusFile[j] /\ MarkersKept(j)

Writes(j) ==
    /\ mem[j].status # "ABSENT"
    /\ Goes(j, mem[j], mem'[j]) \/ Ends(j, mem[j], mem'[j])
    /\ statusFile'[j] \in {statusFile[j], mem'[j]} /\ MarkersKept(j)

JobStep(j) == Stays(j) \/ Submits(j) \/ Loads(j) \/ Forgets(j) \/ Writes(j)

(* At most one job's status.json is written. *)
OneWrite ==
    \A j, k \in Jobs : statusFile'[j] # statusFile[j] /\ statusFile'[k] # statusFile[k]
                           => j = k

Files ==
    \A j \in Jobs : /\ filed'[j] = "new" => filed[j] = "new"
                    /\ filed'[j] = "spec" => \/ filed[j] = "spec"
                                             \/ filed[j] = "new" /\ "slow" \in Happenings
                    /\ Deserted(j) => Deserted(j)'

Lawful == (\A j \in Jobs : JobStep(j)) /\ OneWrite /\ Files
-----------------------------------------------------------------------------
LEMMA NothingChanges ==
    ASSUME UNCHANGED <<filed, statusFile, mem, succeeded, failed>>
    PROVE  Lawful
  BY DEF Lawful, JobStep, Stays, MarkersKept, OneWrite, Files, Deserted

LEMMA TimeUpFiles == ASSUME NEW js, TimeUp(js) PROVE Files
  BY DEF TimeUp, Files, Deserted

LEMMA OneJobChanges ==
    ASSUME NEW j \in Jobs, JobStep(j), UNCHANGED filed,
           \A k \in Jobs \ {j} : Stays(k)
    PROVE  Lawful
  BY DEF Lawful, JobStep, Stays, OneWrite, Files, Deserted

LEMMA WriteIsLawful ==
    ASSUME Consistent, NEW j \in Jobs, NEW r,
           mem' = [mem EXCEPT ![j] = r],
           statusFile' \in {statusFile, [statusFile EXCEPT ![j] = r]},
           mem[j].status # "ABSENT", Goes(j, mem[j], r) \/ Ends(j, mem[j], r),
           UNCHANGED <<filed, succeeded, failed>>
    PROVE  /\ Lawful
           /\ mem'[j] = r /\ \A k \in Jobs \ {j} : mem'[k] = mem[k]
<1>1. mem'[j] = r /\ \A k \in Jobs \ {j} : mem'[k] = mem[k]
  BY DEF Consistent, TypeOK, MemoryOK
<1>2. /\ statusFile'[j] \in {statusFile[j], r}
      /\ \A k \in Jobs \ {j} : statusFile'[k] = statusFile[k]
  BY DEF Consistent, TypeOK, GcsOK
<1>3. \A k \in Jobs : MarkersKept(k)
  BY DEF MarkersKept
<1>4. JobStep(j)
  BY <1>1, <1>2, <1>3 DEF JobStep, Writes
<1>5. \A k \in Jobs \ {j} : Stays(k)
  BY <1>1, <1>2, <1>3 DEF Stays
<1> QED
  BY <1>1, <1>4, <1>5, OneJobChanges

LEMMA SavingIsLawful ==
    ASSUME Consistent, NEW j \in Jobs, NEW r, WriteStatus(j, r),
           mem[j].status # "ABSENT", Goes(j, mem[j], r) \/ Ends(j, mem[j], r),
           UNCHANGED <<filed, succeeded, failed>>
    PROVE  /\ Lawful
           /\ mem'[j] = r /\ \A k \in Jobs \ {j} : mem'[k] = mem[k]
<1>1. /\ mem' = [mem EXCEPT ![j] = r]
      /\ statusFile' \in {statusFile, [statusFile EXCEPT ![j] = r]}
  BY DEF WriteStatus
<1> QED
  BY <1>1, WriteIsLawful

-----------------------------------------------------------------------------
LEMMA EnvironmentLawful ==
    ASSUME Consistent, Orderly, Environment
    PROVE  Lawful /\ Orderly'
<1>1. UNCHANGED <<mem, phase, jobsLeft, due>>
  BY DEF Environment, memVars, loopVars
<1>2. \A j \in Jobs : MarkersKept(j)
  BY DEF MarkersKept, Environment, Cli, Submit, SubmitSpec, SubmitStatus, RequestCancel,
     RequestRetry, CloudOf, WorkerOf, Grant, Sicken, Suspend, Remove, Claim,
     ReportSuccess, ReportFailure, Vanish, gcsVars
<1>3. CASE \E j \in Jobs : Submit(j) \/ SubmitSpec(j) \/ SubmitStatus(j)
  <2>1. PICK j \in Jobs : Submit(j) \/ SubmitSpec(j) \/ SubmitStatus(j)
    BY <1>3
  <2>2. \A k \in Jobs \ {j} : filed'[k] = filed[k] /\ statusFile'[k] = statusFile[k]
    BY <2>1 DEF Submit, SubmitSpec, SubmitStatus, Consistent, TypeOK, GcsOK
  <2>3. \/ /\ filed[j] \in {"new", "spec"}
           /\ filed'[j] = "full" /\ statusFile'[j] = NewRecord
        \/ filed[j] = "new" /\ filed'[j] = "spec" /\ "slow" \in Happenings
           /\ statusFile'[j] = statusFile[j]
        \/ filed[j] = "spec" /\ filed'[j] = "full" /\ statusFile'[j] = statusFile[j]
    BY <2>1 DEF Submit, SubmitSpec, SubmitStatus, Consistent, TypeOK, GcsOK
  <2>4. \A k \in Jobs : JobStep(k)
    BY <1>1, <1>2, <2>2, <2>3 DEF JobStep, Stays, Submits, Fresh
  <2> QED
    BY <1>1, <2>2, <2>3, <2>4, SameOrderly DEF Lawful, OneWrite, Files, Deserted
<1>4. CASE UNCHANGED <<filed, statusFile>>
  BY <1>1, <1>2, <1>4, SameOrderly DEF Lawful, OneWrite, Files, Deserted, JobStep, Stays
<1>5. \/ \E j \in Jobs : Submit(j) \/ SubmitSpec(j) \/ SubmitStatus(j)
      \/ UNCHANGED <<filed, statusFile>>
  BY DEF Environment, Cli, RequestCancel, RequestRetry, CloudOf, WorkerOf, Grant, Sicken,
     Suspend, Remove, Claim, ReportSuccess, ReportFailure, Vanish, gcsVars
<1> QED
  BY <1>3, <1>4, <1>5

LEMMA LoadLawful ==
    ASSUME NEW js \in SUBSET Jobs,
           \A j \in js : filed[j] # "new" \/ mem[j].status # "ABSENT",
           \A j \in Jobs : mem'[j] = IF j \in js THEN StateOnFile(j) ELSE mem[j],
           Files, UNCHANGED <<statusFile, succeeded, failed>>
    PROVE  Lawful
<1>1. \A j \in Jobs : MarkersKept(j)
  BY DEF MarkersKept
<1> QED
  BY <1>1 DEF Lawful, JobStep, Stays, Loads, OneWrite

LEMMA ScanLawful ==
    ASSUME Consistent, Orderly, ScanJobs
    PROVE  Lawful /\ Orderly'
<1>1. PICK got \in SUBSET Loadable : Load(got)
  BY DEF ScanJobs
<1>2. /\ UNCHANGED <<statusFile, succeeded, failed, due, jobsLeft>>
      /\ phase = "idle" /\ Files
  BY TimeUpFiles DEF ScanJobs
<1>3. got \in SUBSET Jobs /\ \A j \in got : filed[j] # "new"
  BY DEF Loadable, Missing, Listed
<1>4. \A j \in Jobs : mem'[j] = IF j \in got THEN StateOnFile(j) ELSE mem[j]
  BY <1>1 DEF Load, LoadedState
<1>5. jobsLeft' = {} /\ due' = {}
  BY <1>2 DEF Orderly, VisitsFit, Consistent, PipelineFits, OneHandler
<1> QED
  BY <1>2, <1>3, <1>4, <1>5, LoadLawful, IdleOrderly

LEMMA VisitingJob ==
    ASSUME NEW stage, NEW j, Visit(stage, j)
    PROVE  /\ phase = stage /\ phase' = phase /\ due = {}
           /\ j \in jobsLeft /\ jobsLeft' = jobsLeft \ {j}
  BY DEF Visit

LEMMA RefreshLawful ==
    ASSUME Consistent, Orderly, NEW j \in Jobs, RefreshState(j)
    PROVE  Lawful /\ Orderly'
<1>1. /\ Visit("refresh", j) /\ due' = {}
      /\ UNCHANGED <<filed, statusFile, succeeded, failed>>
  BY VisitingJob DEF RefreshState, gcsVars
<1>0. Files
  BY <1>1 DEF Files, Deserted
<1>2. mem[j].status # "ABSENT" /\ phase' = phase /\ jobsLeft' = jobsLeft \ {j}
  BY <1>1, VisitingJob DEF Orderly, VisitsFit
<1>3. CASE UNCHANGED mem
  BY <1>1, <1>2, <1>3, NothingChanges, NoTaskOrderly
<1>4. CASE mem' = [mem EXCEPT ![j] = statusFile[j]] /\ statusFile[j].status # "ABSENT"
  <2>1. \A k \in Jobs : mem'[k] = IF k \in {j} THEN StateOnFile(k) ELSE mem[k]
    BY <1>4 DEF StateOnFile, Consistent, TypeOK, MemoryOK
  <2> QED
    BY <1>0, <1>1, <1>2, <2>1, LoadLawful, NoTaskOrderly
<1> QED
  BY <1>3, <1>4 DEF RefreshState

LEMMA CancelLawful ==
    ASSUME Consistent, Orderly, NEW j \in Jobs, CheckCanceled(j)
    PROVE  Lawful /\ Orderly'
<1>1. Visit("cancel", j) /\ UNCHANGED <<filed, statusFile, succeeded, failed>>
  BY DEF CheckCanceled, gcsVars
<1>2. /\ mem[j].status \in Open /\ mem[j] \in Record /\ phase = "cancel"
      /\ due = {} /\ phase' = phase /\ jobsLeft' = jobsLeft \ {j}
  BY <1>1, VisitingJob, RecordsFit DEF Orderly, VisitsFit, Cancelable, Open
<1>3. CASE j \in canceled /\ CancelJob(j)
  <2> DEFINE r == [Released(mem[j]) EXCEPT !.status = "CANCELED"]
  <2>1. mem' = [mem EXCEPT ![j] = r] /\ Do("save", j, 0)
    BY <1>3 DEF CancelJob
  <2>2. Goes(j, mem[j], r) /\ mem[j].status # "ABSENT" /\ r.status # "ABSENT"
    BY <1>2, <1>3 DEF Goes, Released, Record, Open, Holding
  <2> HIDE DEF r
  <2>3. Lawful /\ mem'[j] = r /\ \A k \in Jobs \ {j} : mem'[k] = mem[k]
    BY <1>1, <2>1, <2>2, WriteIsLawful
  <2> QED
    BY <1>2, <2>1, <2>2, <2>3, NewTaskOrderly DEF Decided
<1>4. CASE UNCHANGED <<mem, due>>
  BY <1>1, <1>2, <1>4, NothingChanges, NoTaskOrderly
<1> QED
  BY <1>3, <1>4 DEF CheckCanceled

LEMMA CompletedLawful ==
    ASSUME Consistent, Orderly, NEW j \in Jobs,
           CheckCompleted(j) \/ CheckCompletedMissingReport(j)
    PROVE  Lawful /\ Orderly'
<1> DEFINE a == <<j, NextAttempt(mem[j])>>
<1>1. Visit("complete", j) /\ UNCHANGED <<filed, succeeded, failed>>
  BY DEF CheckCompleted, CheckCompletedMissingReport
<1>2. /\ mem[j].status = "RUNNING" /\ mem[j] \in Record /\ phase = "complete"
      /\ due = {} /\ phase' = phase /\ jobsLeft' = jobsLeft \ {j}
  BY <1>1, VisitingJob, RecordsFit DEF Orderly, VisitsFit
<1>3. CASE UNCHANGED <<mem, statusFile, due>>
  BY <1>1, <1>2, <1>3, NothingChanges, NoTaskOrderly
<1>4. ASSUME NEW outcome \in {"APP", "OK"},
             outcome = "APP" => a \in failed, outcome = "OK" => a \in succeeded,
             mem' = [mem EXCEPT ![j] = Finished(mem[j], outcome)],
             statusFile' \in {statusFile,
                              [statusFile EXCEPT ![j] = Finished(mem[j], outcome)]},
             Do("cleanup", j, mem[j].qr)
      PROVE  Lawful /\ Orderly'
  <2> DEFINE r == Finished(mem[j], outcome)
  <2>1. /\ Closed(mem[j], outcome) \in Record
        /\ Closed(mem[j], outcome).attempt = NextAttempt(mem[j])
        /\ Closed(mem[j], outcome).log =
              Append(mem[j].log, [attempt |-> NextAttempt(mem[j]), qr |-> mem[j].qr,
                                  outcome |-> outcome])
    BY <1>2, ClosedType DEF Closed, Outcomes, Record
  <2>2. /\ r.attempt = Closed(mem[j], outcome).attempt
        /\ r.log = Closed(mem[j], outcome).log
        /\ r.status = IF outcome = "OK" THEN "SUCCEEDED" ELSE "FAILED"
    BY <2>1 DEF Finished, Released, Record
  <2>3. Ends(j, mem[j], r)
    BY <1>2, <1>4, <2>1, <2>2 DEF Ends, Outcomes, Holding
  <2> HIDE DEF r
  <2>4. Lawful /\ mem'[j] = r /\ \A k \in Jobs \ {j} : mem'[k] = mem[k]
    BY <1>1, <1>2, <1>4, <2>3, WriteIsLawful DEF r
  <2> QED
    BY <1>2, <1>4, <2>4, NewTaskOrderly DEF Decided
<1>5. CASE CheckCompleted(j) /\ ~UNCHANGED <<mem, statusFile, due>>
  <2>1. \/ a \in failed /\ FinishJob(j, "APP")
        \/ a \in succeeded /\ FinishJob(j, "OK")
    BY <1>5 DEF CheckCompleted, ReadAttempt
  <2> QED
    BY <2>1, <1>4 DEF FinishJob, WriteStatus
<1>6. CASE CheckCompletedMissingReport(j) /\ ~UNCHANGED <<mem, statusFile, due>>
  BY <1>4, <1>6 DEF CheckCompletedMissingReport, ReadAttempt
<1> QED
  BY <1>3, <1>5, <1>6

LEMMA RetryLawful ==
    ASSUME Consistent, Orderly, NEW j \in Jobs, CheckRetry(j)
    PROVE  Lawful /\ Orderly'
<1>1. /\ Visit("retry", j) /\ UNCHANGED <<filed, statusFile, mem, succeeded, failed>>
      /\ Do("requeue", j, 0) \/ UNCHANGED due
  BY DEF CheckRetry, memVars
<1>2. /\ mem[j].status = "FAILED"
      /\ due = {} /\ phase' = phase /\ jobsLeft' = jobsLeft \ {j}
  BY <1>1, VisitingJob DEF Orderly, VisitsFit
<1>3. Orderly'
  BY <1>1, <1>2, NewTaskOrderly, NoTaskOrderly DEF Decided
<1> QED
  BY <1>1, <1>3, NothingChanges

LEMMA ScheduleLawful ==
    ASSUME Consistent, Orderly, NEW j \in Jobs,
           PassOver(j) \/ CreateQueuedResource(j) \/ CreateFails(j)
    PROVE  Lawful /\ Orderly'
<1>1. /\ Visit("schedule", j) /\ UNCHANGED <<filed, statusFile, mem, succeeded, failed>>
      /\ Do("adopt", j, Len(qrs) + 1) \/ UNCHANGED due
  BY DEF PassOver, CreateQueuedResource, CreateFails, gcsVars, memVars
<1>2. /\ mem[j].status = "PENDING"
      /\ due = {} /\ phase' = phase /\ jobsLeft' = jobsLeft \ {j}
  BY <1>1, VisitingJob DEF Orderly, VisitsFit
<1>3. Orderly'
  BY <1>1, <1>2, NewTaskOrderly, NoTaskOrderly DEF Decided
<1> QED
  BY <1>1, <1>3, NothingChanges

LEMMA ReapLawful ==
    ASSUME Consistent, Orderly, NEW j \in Jobs,
           ReapTerminal(j) \/ ReapFails(j) \/ NotYetExpired(j)
    PROVE  Lawful /\ Orderly'
<1>1. Visit("reap", j) /\ UNCHANGED due
  BY DEF ReapTerminal, ReapFails, NotYetExpired
<1>2. due' = {} /\ phase' = phase /\ jobsLeft' = jobsLeft \ {j}
  BY <1>1, VisitingJob
<1>3. CASE NotYetExpired(j)
  BY <1>2, <1>3, NothingChanges, NoTaskOrderly DEF NotYetExpired, gcsVars, memVars
<1>4. CASE ReapTerminal(j) \/ ReapFails(j)
  <2>1. /\ mem'[j] = NoRecord /\ \A k \in Jobs \ {j} : mem'[k] = mem[k]
        /\ \A k \in Jobs \ {j} : statusFile'[k] = statusFile[k] /\ MarkersKept(k)
    <3>1. mem' = [mem EXCEPT ![j] = NoRecord]
      BY <1>4 DEF ReapTerminal, ReapFails, Forget
    <3>2. \A k \in Jobs \ {j} : statusFile'[k] = statusFile[k]
      BY <1>4 DEF ReapTerminal, ReapFails, Consistent, TypeOK, GcsOK
    <3>3. NotOf(j, succeeded) \subseteq succeeded' /\ NotOf(j, failed) \subseteq failed'
      BY <1>4 DEF ReapTerminal, ReapFails, SomeOf
    <3>4. \A k \in Jobs \ {j} : MarkersKept(k)
      BY <3>3 DEF NotOf, MarkersKept
    <3> QED
      BY <3>1, <3>2, <3>4 DEF Consistent, TypeOK, MemoryOK
  <2>2. statusFile'[j] \in {statusFile[j], NoRecord}
    BY <1>4 DEF ReapTerminal, ReapFails, Consistent, TypeOK, GcsOK
  <2>3. Deserted(j)' /\ \A k \in Jobs \ {j} : filed'[k] = filed[k]
    BY <1>4 DEF ReapTerminal, ReapFails, Deserted, Consistent, TypeOK, GcsOK
  <2> QED
    BY <1>2, <2>1, <2>2, <2>3, NoTaskOrderly
       DEF Lawful, JobStep, Stays, Forgets, OneWrite, Files, Deserted
<1> QED
  BY <1>3, <1>4

(* The stages that visit QRs have no jobs to visit. *)
LEMMA VisitingQr ==
    ASSUME Consistent, Orderly, NEW stage \in {"poll", "reconcile"}, NEW q, VisitQr(stage, q)
    PROVE  jobsLeft = {} /\ jobsLeft' = {} /\ due = {} /\ phase = stage /\ phase' = phase
  BY DEF VisitQr, Orderly, VisitsFit

LEMMA PollLawful ==
    ASSUME Consistent, Orderly, NEW q \in Names, PollQueuedResource(q)
    PROVE  Lawful /\ Orderly'
<1> DEFINE j == qrs[q].job
<1>1. /\ VisitQr("poll", q) /\ j \in Jobs /\ UNCHANGED <<filed, succeeded, failed>>
  BY QrType DEF PollQueuedResource, PollForgotten, PollReplaced, PollDisappeared,
     PollDescribed, Consistent, gcsVars
<1>2. jobsLeft = {} /\ jobsLeft' = {} /\ due = {} /\ phase = "poll" /\ phase' = phase
  BY <1>1, VisitingQr
<1>3. CASE PollForgotten(q) \/ PollReplaced(q)
  <2>1. UNCHANGED <<mem, statusFile, due>>
    BY <1>3 DEF PollForgotten, PollReplaced, gcsVars
  <2> QED
    BY <1>1, <1>2, <2>1, NothingChanges, IdleOrderly
<1>4. CASE PollDisappeared(q)
  <2>1. UNCHANGED <<mem, statusFile>> /\ Do("preempt", j, q) /\ mem[j].qr = q
    BY <1>4 DEF PollDisappeared, gcsVars
  <2> QED
    BY <1>1, <1>2, <2>1, NothingChanges, NewTaskOrderly DEF Decided
<1>5. CASE PollDescribed(q)
  <2> DEFINE r == [mem[j] EXCEPT !.qrState = Described(q)]
  <2>1. /\ WriteStatus(j, r) \/ UNCHANGED <<mem, statusFile>>
        /\ UNCHANGED due \/ Do("examine", j, q) \/ Do("preempt", j, q)
        /\ mem[j].qr = q /\ mem[j].status # "ABSENT"
    BY <1>5 DEF PollDescribed, HandleState, Loaded
  <2>2. r.attempt = mem[j].attempt /\ r.qr = mem[j].qr /\ r.status = mem[j].status
        /\ r.log = mem[j].log
    BY <1>1, RecordsFit DEF Record
  <2> HIDE DEF r
  <2>3. Goes(j, mem[j], r)
    BY <2>2 DEF Goes
  <2>4. Lawful /\ mem'[j] \in {mem[j], r} /\ \A k \in Jobs \ {j} : mem'[k] = mem[k]
    BY <1>1, <2>1, <2>3, SavingIsLawful, NothingChanges
  <2>5. mem'[j].qr = q
    BY <2>1, <2>2, <2>4
  <2>6. Orderly'
    BY <1>1, <1>2, <2>1, <2>4, <2>5, NewTaskOrderly, IdleOrderly DEF Decided
  <2> QED
    BY <2>4, <2>6
<1> QED
  BY <1>3, <1>4, <1>5 DEF PollQueuedResource

LEMMA ReconcileLawful ==
    ASSUME Consistent, Orderly, NEW q, ReconcileOrphan(q)
    PROVE  Lawful /\ Orderly'
<1>1. VisitQr("reconcile", q) /\ UNCHANGED <<filed, statusFile, mem, succeeded, failed, due>>
  BY DEF ReconcileOrphan, gcsVars
<1> QED
  BY <1>1, VisitingQr, NothingChanges, IdleOrderly

(* The rest of a handler. *)
LEMMA ResumingTask ==
    ASSUME Consistent, Orderly, NEW d \in due, NEW task, Resume(d, task)
    PROVE  /\ d.do = task /\ d.job \in Jobs /\ mem[d.job] \in Record
           /\ TaskFits(d) /\ Decided(d) /\ phase' = phase /\ d.job \notin jobsLeft
           /\ jobsLeft' = jobsLeft /\ jobsLeft' = jobsLeft \ {d.job}
           /\ d.do \in {"examine", "preempt"} => mem[d.job].status \in Holding
<1>1. d.do = task /\ d.job \in Jobs /\ mem[d.job] \in Record /\ TaskFits(d) /\ phase' = phase
  BY Resuming
<1>2. Decided(d) /\ d.job \notin jobsLeft /\ jobsLeft' = jobsLeft
  BY DEF Resume, Orderly, TasksFit
<1>3. d.do \in {"examine", "preempt"} => mem[d.job].status \in Holding
  BY <1>1, <1>2, OwnQr DEF Decided, TaskFits
<1> QED
  BY <1>1, <1>2, <1>3

LEMMA ReleasedKeeps ==
    ASSUME NEW r \in Record
    PROVE  /\ Released(r) \in Record /\ Released(r).log = r.log
           /\ Released(r).attempt = r.attempt /\ Released(r).status = r.status
  BY DEF Released, Record

LEMMA SaveLawful ==
    ASSUME Consistent, Orderly, NEW d \in due,
           SaveStatus(d) \/ Requeue(d) \/ ExamineStarted(d) \/ AdoptQr(d)
    PROVE  Lawful /\ Orderly'
<1> DEFINE j == d.job
<1>1. PICK task : Resume(d, task) /\ Done /\ UNCHANGED <<filed, succeeded, failed>>
  BY DEF SaveStatus, Requeue, ExamineStarted, AdoptQr, Done
<1>2. /\ j \in Jobs /\ mem[j] \in Record /\ Decided(d) /\ phase' = phase
      /\ due' = {} /\ jobsLeft' = jobsLeft \ {j}
      /\ d.do \in {"examine", "preempt"} => mem[j].status \in Holding
  BY <1>1, ResumingTask DEF Done
<1>3. PICK r : WriteStatus(j, r) /\ Goes(j, mem[j], r) /\ mem[j].status # "ABSENT"
  <2>1. CASE SaveStatus(d)
    BY <1>2, <2>1 DEF SaveStatus, Resume, Goes, Decided
  <2>2. CASE Requeue(d)
    <3>1. mem[j].status = "FAILED"
      BY <1>2, <2>2 DEF Requeue, Resume, Decided
    <3>2. WriteStatus(j, RetriedRecord(j))
      BY <2>2 DEF Requeue
    <3> DEFINE r == [Released(mem[j]) EXCEPT !.status = "PENDING"]
    <3>3. r.log = mem[j].log /\ r.attempt = mem[j].attempt /\ r.status = "PENDING"
      BY <1>2, ReleasedKeeps DEF Record
    <3>4. Goes(j, mem[j], RetriedRecord(j))
      BY <3>1, <3>3 DEF RetriedRecord, Goes
    <3> QED
      BY <3>1, <3>2, <3>4
  <2>3. CASE ExamineStarted(d)
    <3> DEFINE r == [mem[j] EXCEPT !.status = "RUNNING"]
    <3>1. WriteStatus(j, r) /\ mem[j].status = "PROVISIONING"
      BY <2>3 DEF ExamineStarted
    <3>2. Goes(j, mem[j], r)
      BY <1>2, <3>1 DEF Goes, Record, Open, Holding
    <3> QED
      BY <3>1, <3>2
  <2>4. CASE AdoptQr(d)
    <3> DEFINE r == [mem[j] EXCEPT !.status = "PROVISIONING", !.qr = d.qr,
                                   !.qrState = "WAITING"]
    <3>1. WriteStatus(j, r) /\ mem[j].status = "PENDING"
      BY <1>2, <2>4 DEF AdoptQr, Resume, Decided
    <3>2. Goes(j, mem[j], r)
      BY <1>2, <3>1 DEF Goes, Record, Open, Holding
    <3> QED
      BY <3>1, <3>2
  <2> QED
    BY <2>1, <2>2, <2>3, <2>4
<1>4. Lawful /\ \A k \in Jobs \ {j} : mem'[k] = mem[k]
  BY <1>1, <1>2, <1>3, SavingIsLawful
<1> QED
  BY <1>2, <1>4, NoTaskOrderly

LEMMA PreemptLawful ==
    ASSUME Consistent, Orderly, NEW d \in due, HandlePreemption(d)
    PROVE  Lawful /\ Orderly'
<1> DEFINE j == d.job
           c == Released(Closed(mem[j], "INFRA"))
           r == Requeued(j, c)
<1>1. /\ j \in Jobs /\ mem[j] \in Record /\ phase' = phase
      /\ jobsLeft' = jobsLeft \ {j} /\ mem[j].status \in Holding
      /\ phase = "poll"
  BY ResumingTask DEF HandlePreemption, Decided
<1>2. /\ mem' = [mem EXCEPT ![j] = r] /\ Do("save", j, 0)
      /\ UNCHANGED <<filed, statusFile, succeeded, failed>>
  BY DEF HandlePreemption, gcsVars
<1>3. /\ c \in Record /\ c.attempt = NextAttempt(mem[j])
      /\ c.log = Append(mem[j].log, [attempt |-> NextAttempt(mem[j]), qr |-> mem[j].qr,
                                     outcome |-> "INFRA"])
  <2>1. Closed(mem[j], "INFRA") \in Record
    BY <1>1, ClosedType DEF Outcomes
  <2> QED
    BY <1>1, <2>1, ReleasedKeeps DEF Closed, Record
<1> HIDE DEF c
<1>4. /\ r.attempt = c.attempt /\ r.log = c.log
      /\ r.status = IF AttemptsLeft(j, c) THEN "PENDING" ELSE "FAILED"
  BY <1>3 DEF Requeued, Record
<1> HIDE DEF r
<1>5. Ends(j, mem[j], r) /\ mem[j].status # "ABSENT" /\ r.status # "ABSENT"
  BY <1>1, <1>3, <1>4 DEF Ends, Outcomes, AttemptsLeft, Holding
<1>6. Lawful /\ mem'[j] = r /\ \A k \in Jobs \ {j} : mem'[k] = mem[k]
  BY <1>1, <1>2, <1>5, WriteIsLawful
<1> QED
  BY <1>1, <1>2, <1>5, <1>6, NewTaskOrderly DEF Decided

LEMMA CarryLawful ==
    ASSUME Consistent, Orderly, NEW d \in due, Carry(d)
    PROVE  Lawful /\ Orderly'
<1>1. CASE CleanupFinished(d) \/ ExamineSickVm(d) \/ ExamineTimeout(d) \/ ExamineInTime(d)
  <2>1. PICK task : Resume(d, task)
    BY <1>1 DEF CleanupFinished, ExamineSickVm, ExamineTimeout, ExamineInTime
  <2>2. /\ UNCHANGED <<filed, statusFile, mem, succeeded, failed>>
        /\ due' = {} \/ (d.do = "examine" /\ Do("preempt", d.job, d.qr))
    <3>1. CASE CleanupFinished(d)
      BY <3>1 DEF CleanupFinished, Done, gcsVars
    <3>2. CASE ExamineSickVm(d) \/ ExamineTimeout(d)
      <4>1. /\ Resume(d, "examine") /\ Do("preempt", d.job, d.qr)
            /\ UNCHANGED <<gcsVars, memVars>>
        BY <3>2 DEF ExamineSickVm, ExamineTimeout
      <4> QED
        BY <4>1 DEF Resume, gcsVars, memVars
    <3>3. CASE ExamineInTime(d)
      BY <3>3 DEF ExamineInTime, Done, gcsVars, memVars
    <3> QED
      BY <1>1, <3>1, <3>2, <3>3
  <2>3. Orderly'
    BY <2>1, <2>2, ResumingTask, NewTaskOrderly, NoTaskOrderly DEF Decided
  <2> QED
    BY <2>2, <2>3, NothingChanges
<1> QED
  BY <1>1, SaveLawful, PreemptLawful DEF Carry

-----------------------------------------------------------------------------
(* The loop, and the process. *)

LEMMA MoveOnLawful ==
    ASSUME Consistent, Orderly,
           EndIteration \/ WriteSchedulerState \/ \E p \in DOMAIN Place : Advance(p)
    PROVE  Lawful /\ Orderly'
<1>1. UNCHANGED <<filed, statusFile, mem, succeeded, failed, due>> /\ due = {}
  BY DEF EndIteration, WriteSchedulerState, Advance, Drained, gcsVars, memVars
<1>2. CASE EndIteration \/ WriteSchedulerState
  <2>1. jobsLeft' = {}
    BY <1>2 DEF EndIteration, WriteSchedulerState, Drained, Orderly, VisitsFit
  <2> QED
    BY <1>1, <2>1, NothingChanges, IdleOrderly
<1>3. CASE \E p \in DOMAIN Place : Advance(p)
  <2>1. PICK p \in DOMAIN Place : Advance(p)
    BY <1>3
  <2>2. phase' = p /\ jobsLeft' = JobsFor(p)
    BY <2>1 DEF Advance
  <2>3. VisitsFit'
    BY <1>1, <2>2 DEF VisitsFit, JobsFor, Cancelable, Holding
  <2> QED
    BY <1>1, <2>3, NothingChanges DEF Orderly, TasksFit
<1> QED
  BY <1>2, <1>3

LEMMA ProcessLawful ==
    ASSUME Consistent, Orderly, Abort \/ Crash
    PROVE  Lawful /\ Orderly'
<1>1. jobsLeft' = {} /\ due' = {} /\ UNCHANGED <<statusFile, succeeded, failed>>
  BY DEF Abort, Crash, Unwind, gcsVars
<1>2. CASE Abort
  BY <1>1, <1>2, NothingChanges, IdleOrderly DEF Abort, memVars, gcsVars
<1>3. CASE Crash
  <2>1. phase' = "idle" /\ Files /\ \A j \in Jobs : mem'[j] = NoRecord
    BY <1>3, TimeUpFiles DEF Crash, Unwind
  <2> QED
    BY <1>1, <2>1, IdleOrderly DEF Lawful, JobStep, Forgets, MarkersKept, OneWrite
<1> QED
  BY <1>2, <1>3

LEMMA NextLawful == ASSUME Consistent, Orderly, Next PROVE Lawful /\ Orderly'
<1>1. jobsLeft \subseteq Jobs /\ qrsLeft \subseteq Names
  BY DEF Consistent, TypeOK, LoopOK
<1>2. ASSUME NEW j \in jobsLeft, VisitJob(j) PROVE Lawful /\ Orderly'
  BY <1>1, <1>2, RefreshLawful, CancelLawful, CompletedLawful, RetryLawful,
     ScheduleLawful, ReapLawful DEF VisitJob
<1>3. ASSUME NEW q \in qrsLeft, VisitName(q) PROVE Lawful /\ Orderly'
  BY <1>1, <1>3, PollLawful, ReconcileLawful DEF VisitName
<1>4. ASSUME NEW j \in backoff, BackoffOver(j) PROVE Lawful /\ Orderly'
  <2>1. UNCHANGED <<filed, statusFile, mem, succeeded, failed, phase, jobsLeft, due>>
    BY <1>4 DEF BackoffOver, gcsVars, loopVars
  <2> QED
    BY <2>1, NothingChanges, SameOrderly
<1> QED
  BY <1>2, <1>3, <1>4, EnvironmentLawful, ScanLawful, MoveOnLawful, CarryLawful,
     ProcessLawful DEF Next, Scheduler

-----------------------------------------------------------------------------
(* The process changes the QRs in no other way than these.                 *)
TouchesQrs ==
    \/ UNCHANGED qrs
    \/ \E q \in Names : CleanupResources(q)
    \/ \E j \in jobsLeft :
          /\ phase = "schedule" /\ UNCHANGED <<phase, mem>>
          /\ qrs' = Append(qrs, NewQR(j, NextAttempt(mem[j])))

LEMMA ProcessTouchesQrs == ASSUME Consistent, Next, ~Environment PROVE TouchesQrs
<1>1. jobsLeft \subseteq Jobs /\ qrsLeft \subseteq Names
  BY DEF Consistent, TypeOK, LoopOK
<1>2. ASSUME NEW j \in jobsLeft, VisitJob(j) PROVE TouchesQrs
  <2>1. CASE CheckCanceled(j)
    <3>1. mem[j].qr # 0 => mem[j].qr \in Names
      BY <1>1, OwnQr
    <3> QED
      BY <2>1, <3>1 DEF CheckCanceled, CancelJob, TouchesQrs
  <2>2. CASE CreateQueuedResource(j) \/ CreateFails(j)
    BY <1>1, <2>2, VisitingJob
       DEF CreateQueuedResource, CreateFails, TouchesQrs, memVars
  <2>3. CASE RefreshState(j) \/ CheckCompleted(j) \/ CheckCompletedMissingReport(j)
             \/ CheckRetry(j) \/ PassOver(j)
    BY <2>3 DEF RefreshState, CheckCompleted, CheckCompletedMissingReport, CheckRetry,
       PassOver, TouchesQrs
  <2>4. CASE ReapTerminal(j) \/ ReapFails(j) \/ NotYetExpired(j)
    BY <2>4 DEF ReapTerminal, ReapFails, NotYetExpired, TouchesQrs
  <2> QED
    BY <1>2, <2>1, <2>2, <2>3, <2>4 DEF VisitJob
<1>3. ASSUME NEW q \in qrsLeft, VisitName(q) PROVE TouchesQrs
  BY <1>1, <1>3 DEF VisitName, PollQueuedResource, PollForgotten, PollReplaced,
     PollDisappeared, PollDescribed, ReconcileOrphan, TouchesQrs
<1>4. ASSUME NEW d \in due, Carry(d) PROVE TouchesQrs
  <2>1. CASE CleanupFinished(d) \/ HandlePreemption(d)
    <3>1. CleanupResources(d.qr) /\ (d.do = "cleanup" \/ d.do = "preempt")
      BY <2>1 DEF CleanupFinished, HandlePreemption, Resume
    <3>2. d.qr = 0 => qrs' = qrs
      <4>1. qrs \in Seq(QR)
        BY DEF Consistent, TypeOK, CloudOK
      <4> QED
        BY <3>1, <4>1 DEF CleanupResources
    <3>3. d.qr # 0 => d.qr \in Names
      BY <3>1 DEF Consistent, PipelineFits, DueFits, TaskFits
    <3> QED
      BY <3>1, <3>2, <3>3 DEF TouchesQrs
  <2>2. CASE ~CleanupFinished(d) /\ ~HandlePreemption(d)
    BY <1>4, <2>2 DEF Carry, SaveStatus, Requeue, AdoptQr, ExamineSickVm, ExamineStarted,
       ExamineTimeout, ExamineInTime, TouchesQrs
  <2> QED
    BY <2>1, <2>2
<1>5. ScanJobs \/ WriteSchedulerState \/ EndIteration \/ (\E p \in DOMAIN Place : Advance(p))
      \/ Abort \/ Crash \/ (\E j \in backoff : BackoffOver(j)) => TouchesQrs
  BY DEF ScanJobs, WriteSchedulerState, EndIteration, Advance, Abort, Crash, BackoffOver,
     TouchesQrs
<1> QED
  BY <1>2, <1>3, <1>4, <1>5 DEF Next, Scheduler

LEMMA NextAttempts == ASSUME Consistent, Next PROVE SameAttempts
<1>1. CASE Environment
  BY <1>1, EnvironmentAttempts DEF Consistent
<1>2. CASE ~Environment
  BY <1>2, ProcessTouchesQrs, CleanupAttempts, AppendAttempts, UnchangedAttempts
     DEF Consistent, TouchesQrs, TypeOK, LoopOK
<1> QED
  BY <1>1, <1>2

-----------------------------------------------------------------------------
(* A log whose entries are borne out once the step is made. *)
BorneOut(j, log) ==
    \A i \in DOMAIN log :
        /\ log[i].qr \in Names'
        /\ qrs'[log[i].qr].job = j /\ qrs'[log[i].qr].attempt = log[i].attempt
        /\ log[i].outcome = "OK"  => <<j, log[i].attempt>> \in succeeded' \/ Deserted(j)'
        /\ log[i].outcome = "APP" => <<j, log[i].attempt>> \in failed' \/ Deserted(j)'

LEMMA BornOutStill ==
    ASSUME Consistent, VerdictsHaveEvidence, SameAttempts, Files, NEW j \in Jobs,
           MarkersKept(j) \/ Deserted(j)'
    PROVE  BorneOut(j, mem[j].log) /\ BorneOut(j, statusFile[j].log)
<1> SUFFICES ASSUME NEW r \in Records(j) PROVE BorneOut(j, r.log)
  BY DEF Records
<1>1. r \in Record
  BY RecordsFit DEF Records
<1> SUFFICES ASSUME NEW i \in DOMAIN r.log
             PROVE  /\ r.log[i].qr \in Names'
                    /\ qrs'[r.log[i].qr].job = j
                    /\ qrs'[r.log[i].qr].attempt = r.log[i].attempt
                    /\ r.log[i].outcome = "OK"  =>
                          <<j, r.log[i].attempt>> \in succeeded' \/ Deserted(j)'
                    /\ r.log[i].outcome = "APP" =>
                          <<j, r.log[i].attempt>> \in failed' \/ Deserted(j)'
  BY DEF BorneOut
<1>2. r.log[i].attempt \in Nat
  <2>1. r.log \in Seq(Entry)
    BY <1>1 DEF Record
  <2>2. r.log[i] \in Entry
    BY <2>1
  <2> QED
    BY <2>2 DEF Entry
<1>3. /\ r.log[i].qr \in Names
      /\ qrs[r.log[i].qr].job = j /\ qrs[r.log[i].qr].attempt = r.log[i].attempt
      /\ r.log[i].outcome = "OK"  => <<j, r.log[i].attempt>> \in succeeded \/ Deserted(j)
      /\ r.log[i].outcome = "APP" => <<j, r.log[i].attempt>> \in failed \/ Deserted(j)
  BY DEF VerdictsHaveEvidence, AttemptOf, Deserted
<1>4. Deserted(j) => Deserted(j)'
  BY DEF Files
<1> QED
  BY <1>2, <1>3, <1>4 DEF SameAttempts, MarkersKept

LEMMA BornOutAtLast ==
    ASSUME Consistent, VerdictsHaveEvidence, SameAttempts, Files, NEW j \in Jobs,
           MarkersKept(j), NEW r, Ends(j, mem[j], r)
    PROVE  BorneOut(j, r.log)
<1>1. BorneOut(j, mem[j].log)
  BY BornOutStill
<1>2. PICK outcome \in Outcomes :
         /\ mem[j].status \in Holding
         /\ r.log = Append(mem[j].log, [attempt |-> NextAttempt(mem[j]), qr |-> mem[j].qr,
                                        outcome |-> outcome])
         /\ outcome = "OK"  => <<j, NextAttempt(mem[j])>> \in succeeded
         /\ outcome = "APP" => <<j, NextAttempt(mem[j])>> \in failed
  BY DEF Ends
<1> DEFINE e == [attempt |-> NextAttempt(mem[j]), qr |-> mem[j].qr, outcome |-> outcome]
<1>3. /\ mem[j].qr \in Names' /\ qrs'[mem[j].qr].job = j
      /\ qrs'[mem[j].qr].attempt = NextAttempt(mem[j])
  BY <1>2, OwnQr DEF SameAttempts
<1>4. mem[j].log \in Seq(Entry) /\ NextAttempt(mem[j]) \in Nat
  BY RecordsFit DEF Record, NextAttempt
<1>5. /\ outcome = "OK"  => <<j, NextAttempt(mem[j])>> \in succeeded'
      /\ outcome = "APP" => <<j, NextAttempt(mem[j])>> \in failed'
  BY <1>2, <1>4 DEF MarkersKept
<1>6. DOMAIN r.log = 1..Len(mem[j].log) + 1
      /\ \A i \in DOMAIN r.log : r.log[i] = IF i \in DOMAIN mem[j].log THEN mem[j].log[i] ELSE e
  BY <1>2, <1>4
<1> QED
  BY <1>1, <1>3, <1>5, <1>6 DEF BorneOut

LEMMA EvidenceKept ==
    ASSUME Consistent, VerdictsHaveEvidence, SameAttempts, Lawful
    PROVE  VerdictsHaveEvidence'
<1>1. \A j \in Jobs : BorneOut(j, mem'[j].log) /\ BorneOut(j, statusFile'[j].log)
  <2> TAKE j \in Jobs
  <2>1. BorneOut(j, NoRecord.log) /\ BorneOut(j, NewRecord.log)
    BY DEF BorneOut, NoRecord, NewRecord
  <2>2. MarkersKept(j) \/ Deserted(j)'
            => BorneOut(j, mem[j].log) /\ BorneOut(j, statusFile[j].log)
    BY BornOutStill DEF Lawful
  <2>3. CASE Stays(j) \/ Submits(j) \/ Loads(j) \/ Forgets(j)
    BY <2>1, <2>2, <2>3 DEF Stays, Submits, Loads, Forgets, StateOnFile
  <2>4. CASE Writes(j)
    <3>1. BorneOut(j, mem'[j].log)
      BY <2>2, <2>4, BornOutAtLast DEF Writes, Goes, Lawful
    <3> QED
      BY <2>2, <2>4, <3>1 DEF Writes
  <2> QED
    BY <2>3, <2>4 DEF Lawful, JobStep
<1> QED
  BY <1>1 DEF VerdictsHaveEvidence, BorneOut, AttemptOf, Records, Deserted

(* Everything so far, as one invariant. *)
LEMMA OrderAlways == Spec => [](Consistent /\ Orderly /\ VerdictsHaveEvidence)
<1> DEFINE I == Consistent /\ Orderly /\ VerdictsHaveEvidence
<1>1. Spec => []Consistent
  BY ConsistentAlways
<1>2. Init => Orderly /\ VerdictsHaveEvidence
  BY DEF Init, Orderly, VisitsFit, TasksFit, VerdictsHaveEvidence, Records, NoRecord
<1>3. I /\ Consistent' /\ [Next]_vars => I'
  <2> SUFFICES ASSUME I, [Next]_vars PROVE Orderly' /\ VerdictsHaveEvidence'
    OBVIOUS
  <2>1. CASE Next
    BY <2>1, NextLawful, NextAttempts, EvidenceKept
  <2>2. CASE UNCHANGED vars
    <3>1. UNCHANGED <<filed, statusFile, mem, phase, jobsLeft, due, qrs, succeeded, failed>>
      BY <2>2 DEF vars, gcsVars, memVars, loopVars
    <3>2. VerdictsHaveEvidence'
      BY <3>1 DEF VerdictsHaveEvidence, Records, AttemptOf, Names
    <3> QED
      BY <3>1, <3>2, SameOrderly
  <2> QED
    BY <2>1, <2>2
<1> QED
  BY <1>1, <1>2, <1>3, PTL DEF Spec

(* Every log entry, in memory or in status.json, names the QR that was     *)
(* requested for its own attempt, and a verdict rests on the marker that a *)
(* worker wrote for that very attempt (scheduler.py:184-210, 239-273), as  *)
(* long as the job's directory has not been deleted, wholly or half-way.   *)
THEOREM VerdictsRestOnEvidence == Spec => []VerdictsHaveEvidence
  BY OrderAlways, PTL

-----------------------------------------------------------------------------
(***************************************************************************)
(* The ledger.  Memory is ahead of status.json, if it holds a record at    *)
(* all, and both justify their status.                                     *)
(***************************************************************************)
Prefix(t, s) == Len(t) <= Len(s) /\ \A i \in 1..Len(t) : t[i] = s[i]

Count(r) == Len(r.log)

Honest(j, r) ==
    /\ r.attempt = Count(r)
    /\ r.status = "ABSENT" => Count(r) = 0
    /\ Count(r) <= MaxAttempts[j]
    /\ \A i \in 1..Count(r) :
          /\ r.log[i].attempt = i
          /\ r.log[i].outcome = "OK" => i = Count(r) /\ r.status = "SUCCEEDED"
    /\ r.status \in Open => Count(r) < MaxAttempts[j]
    /\ r.status = "SUCCEEDED" => Count(r) > 0 /\ r.log[Count(r)].outcome = "OK"
    /\ r.status = "FAILED" => /\ Count(r) > 0
                              /\ \/ r.log[Count(r)].outcome = "APP"
                                 \/ Count(r) = MaxAttempts[j]

IsAhead(m, f) ==
    /\ Prefix(f.log, m.log)
    /\ f.status \in {"SUCCEEDED", "CANCELED"} => m.status = f.status /\ m.log = f.log

BooksFit ==
    \A j \in Jobs :
        /\ Honest(j, mem[j]) /\ Honest(j, statusFile[j])
        /\ mem[j].status # "ABSENT" => IsAhead(mem[j], statusFile[j])
        /\ filed[j] = "new" => mem[j].status = "ABSENT" /\ statusFile[j].status = "ABSENT"

LEMMA BlankHonest ==
    ASSUME NEW j \in Jobs
    PROVE  Honest(j, NoRecord) /\ Honest(j, NewRecord)
<1>1. MaxAttempts[j] \in Nat /\ MaxAttempts[j] > 0
  BY AttemptAssumption
<1> QED
  BY <1>1 DEF Honest, NoRecord, NewRecord, Count, Open, Holding

LEMMA PrefixOfSelf ==
    ASSUME NEW r \in Record
    PROVE  IsAhead(r, r)
  BY DEF IsAhead, Prefix, Record

LEMMA HonestGoes ==
    ASSUME NEW j \in Jobs, NEW s \in Record, NEW r, Honest(j, s), Goes(j, s, r),
           s.status # "ABSENT"
    PROVE  Honest(j, r)
<1>1. r.log = s.log /\ r.attempt = s.attempt /\ Count(r) = Count(s)
  BY DEF Goes, Count
<1>2. CASE r.status = s.status
  BY <1>1, <1>2 DEF Honest
<1>3. CASE s.status \in Open /\ r.status \in Open \cup {"CANCELED"}
  BY <1>1, <1>3 DEF Honest, Open, Holding
<1>4. CASE s.status = "FAILED" /\ r.status = "PENDING" /\ AttemptsLeft(j, s)
  BY <1>1, <1>4 DEF Honest, AttemptsLeft, Open
<1> QED
  BY <1>2, <1>3, <1>4 DEF Goes

LEMMA HonestEnds ==
    ASSUME NEW j \in Jobs, NEW s \in Record, NEW r, Honest(j, s), Ends(j, s, r)
    PROVE  Honest(j, r)
<1>1. PICK outcome \in Outcomes :
        /\ s.status \in Holding
        /\ r.log = Append(s.log, [attempt |-> NextAttempt(s), qr |-> s.qr,
                                  outcome |-> outcome])
        /\ r.attempt = NextAttempt(s)
        /\ outcome = "OK" => r.status = "SUCCEEDED"
        /\ outcome = "APP" => r.status = "FAILED"
        /\ outcome = "INFRA" =>
              r.status = IF AttemptsLeft(j, r) THEN "PENDING" ELSE "FAILED"
  BY DEF Ends
<1> DEFINE n == Count(s)
           e == [attempt |-> NextAttempt(s), qr |-> s.qr, outcome |-> outcome]
<1>2. s.log \in Seq(Entry) /\ n \in Nat /\ MaxAttempts[j] \in Nat
  BY AttemptAssumption DEF Record, Count
<1>3. Count(r) = n + 1 /\ r.log[n + 1] = e /\ \A i \in 1..n : r.log[i] = s.log[i]
  BY <1>1, <1>2 DEF Count
<1>4. r.attempt = Count(r)
  BY <1>1, <1>3 DEF Honest, NextAttempt
<1>5. n < MaxAttempts[j] /\ \A i \in 1..n : s.log[i].outcome # "OK"
  BY <1>1 DEF Honest, Open, Holding
<1>6. r.log[Count(r)].outcome = outcome /\ Count(r) > 0 /\ Count(r) <= MaxAttempts[j]
  BY <1>2, <1>3, <1>5
<1>7. \A i \in 1..Count(r) : r.log[i].outcome = "OK" => i = Count(r) /\ outcome = "OK"
  BY <1>2, <1>3, <1>5
<1>12. \A i \in 1..Count(r) : r.log[i].attempt = i
  BY <1>1, <1>2, <1>3, <1>4 DEF Honest
<1>8. n + 1 \in Nat /\ Count(r) \in Nat
  BY <1>2, <1>3
<1> HIDE DEF n, e
<1>9. CASE outcome = "OK"
  BY <1>1, <1>4, <1>6, <1>7, <1>9, <1>12 DEF Honest, Open, Holding
<1>10. CASE outcome = "APP"
  BY <1>1, <1>4, <1>6, <1>7, <1>10, <1>12 DEF Honest, Open, Holding
<1>11. CASE outcome = "INFRA"
  <2>1. r.status = IF Count(r) < MaxAttempts[j] THEN "PENDING" ELSE "FAILED"
    BY <1>1, <1>4, <1>11 DEF AttemptsLeft
  <2>2. \/ r.status = "PENDING" /\ Count(r) < MaxAttempts[j]
        \/ r.status = "FAILED" /\ Count(r) = MaxAttempts[j]
    BY <1>2, <1>6, <1>8, <2>1
  <2> QED
    BY <1>4, <1>6, <1>7, <1>11, <1>12, <2>2 DEF Honest, Open, Holding
<1> QED
  BY <1>9, <1>10, <1>11 DEF Outcomes

LEMMA StillAhead ==
    ASSUME NEW j \in Jobs, NEW f \in Record, NEW m \in Record, NEW r,
           IsAhead(m, f), Goes(j, m, r) \/ Ends(j, m, r)
    PROVE  IsAhead(r, f)
<1>1. CASE Goes(j, m, r)
  BY <1>1 DEF IsAhead, Goes, Open, Holding
<1>2. CASE Ends(j, m, r)
  <2>1. PICK e : r.log = Append(m.log, e) /\ m.status \in Holding
    BY <1>2 DEF Ends
  <2>2. m.log \in Seq(Entry) /\ f.log \in Seq(Entry)
    BY DEF Record
  <2> QED
    BY <2>1, <2>2 DEF IsAhead, Prefix, Holding
<1> QED
  BY <1>1, <1>2

LEMMA BooksKept ==
    ASSUME Consistent, BooksFit, Lawful, TypeOK'
    PROVE  BooksFit'
<1> SUFFICES ASSUME NEW j \in Jobs
             PROVE  /\ Honest(j, mem'[j]) /\ Honest(j, statusFile'[j])
                    /\ mem'[j].status # "ABSENT" => IsAhead(mem'[j], statusFile'[j])
                    /\ filed'[j] = "new" => /\ mem'[j].status = "ABSENT"
                                            /\ statusFile'[j].status = "ABSENT"
  BY DEF BooksFit, Honest, IsAhead, Prefix, Count
<1>1. /\ mem[j] \in Record /\ statusFile[j] \in Record
      /\ mem'[j] \in Record /\ statusFile'[j] \in Record
  BY RecordsFit DEF TypeOK, MemoryOK, GcsOK
<1>2. /\ Honest(j, mem[j]) /\ Honest(j, statusFile[j])
      /\ mem[j].status # "ABSENT" => IsAhead(mem[j], statusFile[j])
      /\ filed[j] = "new" => mem[j].status = "ABSENT" /\ statusFile[j].status = "ABSENT"
  BY DEF BooksFit
<1>3. filed'[j] = "new" => filed[j] = "new"
  BY <1>2 DEF Lawful, Files
<1>4. NoRecord.status = "ABSENT" /\ NewRecord.status = "PENDING" /\ NewRecord.log = <<>>
      /\ Honest(j, NoRecord) /\ Honest(j, NewRecord)
  BY BlankHonest DEF NoRecord, NewRecord
<1>5. CASE Stays(j)
  BY <1>2, <1>3, <1>5 DEF Stays
<1>6. CASE Submits(j)
  <2>1. IsAhead(mem[j], NewRecord)
    BY <1>1, <1>4 DEF IsAhead, Prefix, Record
  <2> QED
    BY <1>2, <1>4, <1>6, <2>1 DEF Submits
<1>7. CASE Loads(j)
  <2>1. CASE statusFile[j].status = "ABSENT"
    <3>1. statusFile[j].log \in Seq(Entry) /\ Len(statusFile[j].log) = 0
      BY <1>1, <1>2, <2>1 DEF Honest, Count, Record
    <3>2. IsAhead(NewRecord, statusFile[j])
      BY <1>4, <2>1, <3>1 DEF IsAhead, Prefix
    <3> QED
      BY <1>2, <1>3, <1>4, <1>7, <2>1, <3>2 DEF Loads, StateOnFile
  <2>2. CASE statusFile[j].status # "ABSENT"
    BY <1>1, <1>2, <1>3, <1>7, <2>2, PrefixOfSelf DEF Loads, StateOnFile
  <2> QED
    BY <2>1, <2>2
<1>8. CASE Forgets(j)
  BY <1>2, <1>3, <1>4, <1>8 DEF Forgets
<1>9. CASE Writes(j)
  <2>1. Honest(j, mem'[j]) /\ IsAhead(mem'[j], statusFile[j])
    BY <1>1, <1>2, <1>9, HonestGoes, HonestEnds, StillAhead DEF Writes
  <2>2. IsAhead(mem'[j], mem'[j])
    BY <1>1, PrefixOfSelf
  <2> QED
    BY <1>2, <1>3, <1>9, <2>1, <2>2 DEF Writes
<1> QED
  BY <1>5, <1>6, <1>7, <1>8, <1>9 DEF Lawful, JobStep

-----------------------------------------------------------------------------
(***************************************************************************)
(* A submission in two writes.  The second one is over when the iteration  *)
(* that first found the job is: until then the job may be given a QR, but  *)
(* not one that is polled, and what is published of it makes a             *)
(* cancellation possible, but not one that is seen.                        *)
(***************************************************************************)
Shown(j) == Fresh(j) => snapshot[j].status # "ABSENT"

(* The stages that come after polling, the pause between two iterations    *)
(* included.                                                               *)
Later == {"schedule", "reap", "reconcile", "publish", "idle"}

FreshFits(j) ==
    Fresh(j) =>
        /\ j \in canceled => Shown(j)
        /\ snapshot[j].status # "ABSENT" => phase = "idle" /\ mem[j].status # "ABSENT"
        /\ QrsOf(j) # {} => phase \in Later /\ mem[j].status # "ABSENT"
        /\ mem[j].log = <<>> /\ mem[j].status \notin Terminal
        /\ statusFile[j].log = <<>> /\ statusFile[j].status \notin Terminal

Timely ==
    /\ \A j \in Jobs : filed[j] = "spec" => "slow" \in Happenings
    /\ "slow" \in Happenings => \A j \in Jobs : FreshFits(j)

(* What a slow submission must not meet, for TLC finds that it undoes it:  *)
(* a CLI that cancels a job which no snapshot shows.                       *)
SlowIsAlone == "slow" \in Happenings => "blind" \notin Happenings

(* How a step keeps to that order. *)
CancelsLate == \A j \in Jobs : j \in canceled' => j \in canceled \/ Shown(j)

PublishesLast ==
    \/ snapshot' = snapshot
    \/ phase = "publish" /\ phase' = "idle" /\ snapshot' = Published /\ UNCHANGED mem

PollsFirst ==
    /\ phase \in Later \ {"idle"} => phase' \in Later
    /\ \A j \in Jobs :
          QrsOf(j)' # {} => \/ QrsOf(j) # {}
                            \/ /\ phase' \in Later
                               /\ mem[j].status = "PENDING" /\ UNCHANGED mem

EndsInTime ==
    \A j \in Jobs :
        filed'[j] = "spec" /\ mem[j].status # "ABSENT" =>
            /\ phase = "idle" => phase' = "idle"
            /\ mem'[j].status = "ABSENT" => QrsOf(j) = {} /\ snapshot[j].status = "ABSENT"

OnTime == CancelsLate /\ PublishesLast /\ PollsFirst /\ EndsInTime

LEMMA NextCancelsLate ==
    ASSUME Next, \A j \in Jobs : snapshot[j].status # "ABSENT" => Shown(j),
           "blind" \notin Happenings
    PROVE  CancelsLate
<1>1. CASE Environment
  <2>1. CASE \E j \in Jobs : RequestCancel(j)
    BY <1>1, <2>1 DEF RequestCancel, Views, CancelsLate
  <2>2. CASE UNCHANGED canceled
    BY <2>2 DEF CancelsLate
  <2> QED
    BY <1>1, <2>1, <2>2 DEF Environment, Cli, Submit, SubmitSpec, SubmitStatus,
       RequestRetry, CloudOf, WorkerOf, Grant, Sicken, Suspend, Remove, Claim,
       ReportSuccess, ReportFailure, Vanish, gcsVars
<1>2. CASE ~Environment
  <2>1. canceled' \subseteq canceled
    <3>1. ASSUME NEW j \in jobsLeft, VisitJob(j) PROVE canceled' \subseteq canceled
      BY <3>1 DEF VisitJob, RefreshState, CheckCanceled, CheckCompleted,
         CheckCompletedMissingReport, CheckRetry, PassOver, CreateQueuedResource,
         CreateFails, ReapTerminal, ReapFails, NotYetExpired, gcsVars
    <3>2. ASSUME NEW q \in qrsLeft, VisitName(q) PROVE canceled' \subseteq canceled
      BY <3>2 DEF VisitName, PollQueuedResource, PollForgotten, PollReplaced,
         PollDisappeared, PollDescribed, ReconcileOrphan, gcsVars
    <3>3. ASSUME NEW d \in due, Carry(d) PROVE canceled' \subseteq canceled
      BY <3>3 DEF Carry, SaveStatus, CleanupFinished, Requeue, AdoptQr, HandlePreemption,
         ExamineSickVm, ExamineStarted, ExamineTimeout, ExamineInTime, gcsVars
    <3> QED
      BY <1>2, <3>1, <3>2, <3>3 DEF Next, Scheduler, ScanJobs, WriteSchedulerState,
         EndIteration, Advance, Abort, Crash, BackoffOver, gcsVars
  <2> QED
    BY <2>1 DEF CancelsLate
<1> QED
  BY <1>1, <1>2

LEMMA NextPublishesLast == ASSUME Next PROVE PublishesLast
<1>1. ASSUME NEW j \in jobsLeft, VisitJob(j) PROVE PublishesLast
  BY <1>1 DEF VisitJob, RefreshState, CheckCanceled, CheckCompleted,
     CheckCompletedMissingReport, CheckRetry, PassOver, CreateQueuedResource,
     CreateFails, ReapTerminal, ReapFails, NotYetExpired, gcsVars, PublishesLast
<1>2. ASSUME NEW q \in qrsLeft, VisitName(q) PROVE PublishesLast
  BY <1>2 DEF VisitName, PollQueuedResource, PollForgotten, PollReplaced,
     PollDisappeared, PollDescribed, ReconcileOrphan, gcsVars, PublishesLast
<1>3. ASSUME NEW d \in due, Carry(d) PROVE PublishesLast
  BY <1>3 DEF Carry, SaveStatus, CleanupFinished, Requeue, AdoptQr, HandlePreemption,
     ExamineSickVm, ExamineStarted, ExamineTimeout, ExamineInTime, gcsVars, PublishesLast
<1>4. CASE Environment
  BY <1>4 DEF Environment, Cli, Submit, SubmitSpec, SubmitStatus, RequestCancel,
     RequestRetry, CloudOf, WorkerOf, Grant, Sicken, Suspend, Remove, Claim,
     ReportSuccess, ReportFailure, Vanish, gcsVars, PublishesLast
<1>5. CASE WriteSchedulerState
  BY <1>5 DEF WriteSchedulerState, memVars, PublishesLast
<1> QED
  BY <1>1, <1>2, <1>3, <1>4, <1>5 DEF Next, Scheduler, ScanJobs,
     EndIteration, Advance, Abort, Crash, BackoffOver, gcsVars, PublishesLast

(* A stage is left for a later one or for the end of the iteration.        *)
LEMMA NextPhase ==
    ASSUME Consistent, Next
    PROVE  \/ phase' = phase \/ phase' = "idle" \/ phase = "idle"
           \/ \E p \in DOMAIN Place : Advance(p)
<1>1. ASSUME NEW j \in jobsLeft, VisitJob(j) PROVE phase' = phase
  BY <1>1, VisitingJob DEF VisitJob, RefreshState, CheckCanceled, CheckCompleted,
     CheckCompletedMissingReport, CheckRetry, PassOver, CreateQueuedResource,
     CreateFails, ReapTerminal, ReapFails, NotYetExpired
<1>2. ASSUME NEW q \in qrsLeft, VisitName(q) PROVE phase' = phase
  BY <1>2 DEF VisitName, PollQueuedResource, PollForgotten, PollReplaced,
     PollDisappeared, PollDescribed, ReconcileOrphan, VisitQr
<1>3. ASSUME NEW d \in due, Carry(d) PROVE phase' = phase
  BY <1>3 DEF Carry, SaveStatus, CleanupFinished, Requeue, AdoptQr, HandlePreemption,
     ExamineSickVm, ExamineStarted, ExamineTimeout, ExamineInTime, Resume
<1> QED
  BY <1>1, <1>2, <1>3 DEF Next, Scheduler, Environment, ScanJobs, WriteSchedulerState,
     EndIteration, Abort, Crash, Unwind, BackoffOver, loopVars

LEMMA AdvanceGoesOn ==
    ASSUME NEW p \in DOMAIN Place, Advance(p), phase \in Later
    PROVE  phase' \in Later
<1>1. phase # "idle" /\ phase' = p /\ Place[phase] < Place[p]
  BY DEF Advance, Drained, Ahead
<1>2. p \in {"scan", "refresh", "cancel", "poll", "complete", "retry"} => Place[p] <= 5
  BY DEF Place
<1>3. Place[phase] >= 6
  BY <1>1 DEF Later, Place
<1>4. p \in {"scan", "refresh", "cancel", "poll", "complete", "retry"} \cup Later
  BY DEF Place, Later
<1>5. Place[p] \in Nat /\ Place[phase] \in Nat
  BY <1>1 DEF Place, Later
<1> QED
  BY <1>1, <1>2, <1>3, <1>4, <1>5

LEMMA NextPollsFirst == ASSUME Consistent, Orderly, Next PROVE PollsFirst
<1>1. phase \in Later \ {"idle"} => phase' \in Later
  BY NextPhase, AdvanceGoesOn DEF Later
<1>2. qrs \in Seq(QR) /\ jobsLeft \subseteq Jobs
  BY DEF Consistent, TypeOK, CloudOK, LoopOK
<1>3. ASSUME Names' \subseteq Names, NEW j \in Jobs, QrsOf(j)' # {}
      PROVE  QrsOf(j) # {}
  <2>1. PICK q \in Names' : qrs'[q].job = j
    BY <1>3 DEF QrsOf
  <2> QED
    BY <1>3, <2>1, NextAttempts DEF QrsOf, SameAttempts
<1>4. ASSUME NEW j \in Jobs, QrsOf(j)' # {}, QrsOf(j) = {}
      PROVE  phase' \in Later /\ mem[j].status = "PENDING" /\ UNCHANGED mem
  <2>1. ~Environment
    <3>1. Environment => Names' = Names
      BY <1>2 DEF Environment, Cli, Submit, SubmitSpec, SubmitStatus, RequestCancel,
         RequestRetry, CloudOf, WorkerOf, Grant, Sicken, Suspend, Remove, Claim,
         ReportSuccess, ReportFailure, Vanish, Names
    <3> QED
      BY <1>3, <1>4, <3>1
  <2>2. TouchesQrs
    BY <2>1, ProcessTouchesQrs
  <2>3. \A q \in Names : CleanupResources(q) => Names' = Names
    BY <1>2 DEF CleanupResources, Names
  <2>4. PICK k \in jobsLeft : /\ phase = "schedule" /\ UNCHANGED <<phase, mem>>
                              /\ qrs' = Append(qrs, NewQR(k, NextAttempt(mem[k])))
    BY <1>3, <1>4, <2>2, <2>3 DEF TouchesQrs, Names
  <2>5. k = j
    <3>1. PICK q \in Names' : qrs'[q].job = j
      BY <1>4 DEF QrsOf
    <3>2. q \notin Names
      BY <1>4, <3>1, NextAttempts DEF QrsOf, SameAttempts
    <3>3. q = Len(qrs) + 1 /\ qrs'[q] = NewQR(k, NextAttempt(mem[k]))
      BY <1>2, <2>4, <3>1, <3>2 DEF Names
    <3> QED
      BY <3>1, <3>3 DEF NewQR
  <2> QED
    BY <2>4, <2>5 DEF Orderly, VisitsFit, Later
<1> QED
  BY <1>1, <1>4 DEF PollsFirst

LEMMA NextEndsInTime == ASSUME Consistent, Orderly, Next PROVE EndsInTime
<1> SUFFICES ASSUME NEW j \in Jobs, filed'[j] = "spec", mem[j].status # "ABSENT"
             PROVE  /\ phase = "idle" => phase' = "idle"
                    /\ mem'[j].status = "ABSENT" =>
                          QrsOf(j) = {} /\ snapshot[j].status = "ABSENT"
  BY DEF EndsInTime
<1>1. ~ScanJobs
  BY DEF ScanJobs, TimeUp, Loaded
<1>2. ASSUME phase = "idle" PROVE phase' = "idle"
  <2>1. due = {} /\ jobsLeft = {}
    BY <1>2 DEF Consistent, PipelineFits, OneHandler, Orderly, VisitsFit
  <2>2. ASSUME NEW q \in qrsLeft, VisitName(q) PROVE FALSE
    BY <1>2, <2>2 DEF VisitName, PollQueuedResource, PollForgotten, PollReplaced,
       PollDisappeared, PollDescribed, ReconcileOrphan, VisitQr
  <2> QED
    BY <1>1, <1>2, <2>1, <2>2 DEF Next, Scheduler, Environment, WriteSchedulerState,
       EndIteration, Advance, Drained, Abort, Crash, Unwind, BackoffOver, loopVars
<1>3. ASSUME mem'[j].status = "ABSENT"
      PROVE  QrsOf(j) = {} /\ snapshot[j].status = "ABSENT"
  <2>1. JobStep(j)
    BY NextLawful DEF Lawful
  <2>2. Forgets(j)
    <3>1. ~Stays(j) /\ ~Submits(j) /\ ~Loads(j)
      BY <1>3 DEF Stays, Submits, Loads, StateOnFile, NewRecord, NoRecord
    <3>2. ~Writes(j)
      BY <1>3 DEF Writes, Goes, Ends, Open, Holding, Outcomes
    <3> QED
      BY <2>1, <3>1, <3>2 DEF JobStep
  <2>3. phase' = "idle"
    BY <2>2 DEF Forgets, Deserted
  <2>4. mem' # mem
    BY <1>3
  <2>5. Crash
    <3>1. ASSUME NEW k \in jobsLeft, VisitJob(k) PROVE FALSE
      BY <2>3, <3>1, VisitingJob DEF VisitJob, RefreshState, CheckCanceled, CheckCompleted,
         CheckCompletedMissingReport, CheckRetry, PassOver, CreateQueuedResource,
         CreateFails, ReapTerminal, ReapFails, NotYetExpired, Orderly, VisitsFit
    <3>2. ASSUME NEW q \in qrsLeft, VisitName(q) PROVE FALSE
      BY <2>3, <3>2 DEF VisitName, PollQueuedResource, PollForgotten, PollReplaced,
         PollDisappeared, PollDescribed, ReconcileOrphan, VisitQr
    <3>3. ASSUME NEW d \in due, Carry(d) PROVE FALSE
      BY <2>3, <3>3 DEF Carry, SaveStatus, CleanupFinished, Requeue, AdoptQr,
         HandlePreemption, ExamineSickVm, ExamineStarted, ExamineTimeout, ExamineInTime,
         Resume, Consistent, PipelineFits, OneHandler
    <3> QED
      BY <1>1, <2>4, <3>1, <3>2, <3>3 DEF Next, Scheduler, Environment,
         WriteSchedulerState, EndIteration, Advance, Abort, BackoffOver, memVars
  <2> QED
    BY <2>5 DEF Crash, TimeUp
<1> QED
  BY <1>2, <1>3

LEMMA NextOnTime ==
    ASSUME Consistent, Orderly, Next, "blind" \notin Happenings
    PROVE  OnTime
  BY NextCancelsLate, NextPublishesLast, NextPollsFirst, NextEndsInTime DEF OnTime, Shown

(* Once shown, a job stays so while its submission is under way. *)
LEMMA ShownStays ==
    ASSUME Files, PublishesLast, NEW j \in Jobs, FreshFits(j), Shown(j),
           filed[j] = "new" => mem[j].status = "ABSENT"
    PROVE  Shown(j)'
<1> SUFFICES ASSUME Fresh(j)' PROVE snapshot'[j].status # "ABSENT"
  BY DEF Shown
<1>1. Fresh(j)
  BY DEF Fresh, Files
<1>2. snapshot[j].status # "ABSENT" /\ phase = "idle"
  BY <1>1 DEF Shown, FreshFits
<1> QED
  BY <1>2 DEF PublishesLast

LEMMA FreshFitsKept ==
    ASSUME Consistent, BooksFit, BooksFit', Lawful, OnTime, NEW j \in Jobs, FreshFits(j)
    PROVE  FreshFits(j)'
<1> SUFFICES ASSUME Fresh(j)'
             PROVE  /\ j \in canceled' => Shown(j)'
                    /\ snapshot'[j].status # "ABSENT"
                          => phase' = "idle" /\ mem'[j].status # "ABSENT"
                    /\ QrsOf(j)' # {} => phase' \in Later /\ mem'[j].status # "ABSENT"
                    /\ mem'[j].log = <<>> /\ mem'[j].status \notin Terminal
                    /\ statusFile'[j].log = <<>> /\ statusFile'[j].status \notin Terminal
  BY DEF FreshFits
<1>1. Files /\ JobStep(j)
  BY DEF Lawful
<1>2. /\ Fresh(j) /\ ~Deserted(j)' /\ filed'[j] # "full"
      /\ filed[j] = "new" => mem[j].status = "ABSENT"
      /\ filed'[j] = "spec" \/ filed[j] = "new"
  BY <1>1 DEF Fresh, Files, Deserted, BooksFit
<1>3. /\ j \in canceled => snapshot[j].status # "ABSENT"
      /\ snapshot[j].status # "ABSENT" => phase = "idle" /\ mem[j].status # "ABSENT"
      /\ QrsOf(j) # {} => phase \in Later /\ mem[j].status # "ABSENT"
      /\ mem[j].log = <<>> /\ mem[j].status \notin Terminal
      /\ statusFile[j].log = <<>> /\ statusFile[j].status \notin Terminal
  BY <1>2 DEF FreshFits, Shown
<1>4. mem[j].status # "ABSENT" => /\ phase = "idle" => phase' = "idle"
                                  /\ mem'[j].status = "ABSENT" =>
                                        QrsOf(j) = {} /\ snapshot[j].status = "ABSENT"
  BY <1>2 DEF OnTime, EndsInTime
<1>5. j \in canceled' => Shown(j)'
  BY <1>1, <1>2, ShownStays DEF OnTime, CancelsLate, FreshFits
<1>6. snapshot'[j].status # "ABSENT" => phase' = "idle" /\ mem'[j].status # "ABSENT"
  BY <1>3, <1>4 DEF OnTime, PublishesLast, Published, View
<1>7. QrsOf(j)' # {} => phase' \in Later /\ mem'[j].status # "ABSENT"
  BY <1>3, <1>4 DEF OnTime, PollsFirst, Later
<1>8. NoRecord.status = "ABSENT" /\ NewRecord.status = "PENDING" /\ NewRecord.log = <<>>
      /\ NoRecord.log = <<>>
  BY DEF NoRecord, NewRecord
<1>9. /\ mem'[j].log = <<>> /\ mem'[j].status \notin Terminal
      /\ statusFile'[j].log = <<>> /\ statusFile'[j].status \notin Terminal
  <2>1. CASE Stays(j) \/ Submits(j) \/ Loads(j) \/ Forgets(j)
    BY <1>2, <1>3, <1>8, <2>1 DEF Stays, Submits, Loads, Forgets, StateOnFile, Terminal
  <2>2. CASE Writes(j)
    <3>1. ~Ends(j, mem[j], mem'[j])
      <4> SUFFICES ASSUME mem[j].status \in Holding, phase \in {"poll", "complete"}
                   PROVE  FALSE
        BY DEF Ends
      <4>1. mem[j].qr \in Names /\ qrs[mem[j].qr].job = j
        BY OwnQr
      <4> QED
        BY <1>3, <4>1 DEF QrsOf, Later
    <3>2. mem'[j].log = mem[j].log /\ mem'[j].status \notin Terminal
      BY <1>3, <2>2, <3>1 DEF Writes, Goes, Open, Holding, Terminal
    <3> QED
      BY <1>3, <2>2, <3>2 DEF Writes
  <2> QED
    BY <1>1, <2>1, <2>2 DEF JobStep
<1> QED
  BY <1>5, <1>6, <1>7, <1>9

LEMMA TimelyKept ==
    ASSUME Consistent, Orderly, BooksFit, BooksFit', Timely, SlowIsAlone, Next
    PROVE  Timely'
<1>1. Lawful
  BY NextLawful
<1>2. \A j \in Jobs : filed'[j] = "spec" => "slow" \in Happenings
  BY <1>1 DEF Timely, Lawful, Files
<1>3. ASSUME "slow" \in Happenings, NEW j \in Jobs PROVE FreshFits(j)'
  BY <1>1, <1>3, NextOnTime, FreshFitsKept DEF Timely, SlowIsAlone
<1> QED
  BY <1>2, <1>3 DEF Timely

(* The second write finds nothing that the scheduler has made of the job.  *)
LEMMA SubmissionUndoesNothing ==
    ASSUME Consistent, BooksFit, Timely, NEW j \in Jobs, Submits(j)
    PROVE  /\ statusFile[j].log = <<>>
           /\ statusFile[j].status \notin {"SUCCEEDED", "CANCELED"}
<1>1. statusFile[j] \in Record /\ Honest(j, statusFile[j])
  BY RecordsFit DEF BooksFit
<1>2. CASE filed[j] = "new"
  BY <1>1, <1>2 DEF BooksFit, Honest, Count, Record
<1>3. CASE filed[j] = "spec"
  BY <1>3 DEF Timely, FreshFits, Fresh, Terminal
<1> QED
  BY <1>2, <1>3 DEF Submits, Fresh

-----------------------------------------------------------------------------
(* Records as the ledger shows them. *)
LedgerEntry == [attempt : Nat, outcome : Outcomes]

LedgerEntryOf(e) == [attempt |-> e.attempt, outcome |-> e.outcome]

LEMMA LedgerLog ==
    ASSUME NEW r \in Record
    PROVE  /\ LedgerOf(r).log \in Seq(LedgerEntry) /\ Len(LedgerOf(r).log) = Count(r)
           /\ Count(r) \in Nat
           /\ \A i \in 1..Count(r) : /\ LedgerOf(r).log[i] \in LedgerEntry
                                     /\ LedgerOf(r).log[i] = LedgerEntryOf(r.log[i])
           /\ LedgerOf(r).status = r.status
<1>1. r.log \in Seq(Entry) /\ Count(r) \in Nat
  BY DEF Record, Count
<1>2. \A i \in 1..Count(r) : LedgerEntryOf(r.log[i]) \in LedgerEntry
  <2> TAKE i \in 1..Count(r)
  <2>1. r.log[i] \in Entry
    BY <1>1 DEF Count
  <2> QED
    BY <2>1 DEF Entry, LedgerEntry, LedgerEntryOf
<1> DEFINE log == [i \in 1..Count(r) |-> LedgerEntryOf(r.log[i])]
<1>3. log \in Seq(LedgerEntry) /\ Len(log) = Count(r)
  BY <1>1, <1>2
<1> QED
  BY <1>1, <1>2, <1>3 DEF LedgerOf, LedgerEntryOf, Count

LEMMA LedgerExtends ==
    ASSUME NEW r \in Record, NEW f \in Record, Prefix(f.log, r.log)
    PROVE  Ledger!Extends(LedgerOf(r).log, LedgerOf(f).log)
<1> DEFINE s == LedgerOf(r).log  t == LedgerOf(f).log
<1>1. s \in Seq(LedgerEntry) /\ t \in Seq(LedgerEntry)
  BY LedgerLog
<1>2. Len(t) <= Len(s) /\ \A i \in 1..Len(t) : t[i] = s[i]
  BY LedgerLog DEF Prefix, Count
<1> HIDE DEF s, t
<1>3. t = SubSeq(s, 1, Len(t))
  BY <1>1, <1>2
<1> QED
  BY <1>2, <1>3 DEF Ledger!Extends, s, t

LEMMA LedgerJustified ==
    ASSUME NEW j \in Jobs, NEW r \in Record, Honest(j, r)
    PROVE  Ledger!Justified(j, LedgerOf(r))
<1>1. \A i \in 1..Count(r) : /\ LedgerOf(r).log[i].attempt = r.log[i].attempt
                              /\ LedgerOf(r).log[i].outcome = r.log[i].outcome
  <2> TAKE i \in 1..Count(r)
  <2>1. LedgerOf(r).log[i] = LedgerEntryOf(r.log[i])
    BY LedgerLog
  <2> QED
    BY <2>1 DEF LedgerEntryOf
<1> QED
  BY <1>1, LedgerLog DEF Ledger!Justified, Honest, Open, Holding, Ledger!Open, Count

LEMMA LedgerStep ==
    ASSUME Consistent, BooksFit, Lawful, Timely, TypeOK', BooksFit'
    PROVE  [Ledger!LedgerNext]_([j \in Jobs |-> LedgerOf(statusFile[j])])
<1> DEFINE before == [j \in Jobs |-> LedgerOf(statusFile[j])]
           after  == [j \in Jobs |-> LedgerOf(statusFile'[j])]
<1>1. CASE before = after
  BY <1>1
<1>2. CASE before # after
  <2>1. PICK j \in Jobs : before[j] # after[j]
    BY <1>2
  <2> DEFINE f == statusFile[j]  r == statusFile'[j]
  <2>2. f # r /\ \A k \in Jobs \ {j} : statusFile'[k] = statusFile[k]
    BY <2>1 DEF Lawful, OneWrite
  <2>3. after = [before EXCEPT ![j] = LedgerOf(r)]
    <3>1. \A k \in Jobs : after[k] = IF k = j THEN LedgerOf(r) ELSE before[k]
      BY <2>2
    <3> QED
      BY <3>1
  <2>4. /\ f \in Record /\ r \in Record /\ mem[j] \in Record /\ mem'[j] \in Record
        /\ Honest(j, f) /\ Honest(j, statusFile[j])'
    BY RecordsFit DEF BooksFit, TypeOK, GcsOK, MemoryOK
  <2>5. Honest(j, r)
    BY <2>4 DEF Honest, Count
  <2>6. /\ before[j] = LedgerOf(f) /\ after[j] = LedgerOf(r)
        /\ LedgerOf(f).status = f.status /\ LedgerOf(r).status = r.status
    BY <2>4, LedgerLog
  <2>7. CASE r = NoRecord
    <3>1. LedgerOf(r) = Ledger!Absent
      BY <2>7 DEF LedgerOf, NoRecord, Ledger!Absent
    <3> QED
      BY <2>1, <2>3, <2>6, <3>1 DEF Ledger!LedgerNext, Ledger!Expire
  <2>8. CASE Submits(j)
    <3>1. /\ f.status \notin {"SUCCEEDED", "CANCELED"} /\ Len(f.log) = 0
          /\ r = NewRecord
      BY <2>8, SubmissionUndoesNothing DEF Submits
    <3>2. Prefix(f.log, r.log) /\ r.status = "PENDING"
      BY <3>1 DEF Prefix, NewRecord, NoRecord
    <3>3. Ledger!Report(j)
      BY <2>3, <2>4, <2>5, <2>6, <3>1, <3>2, LedgerExtends, LedgerJustified
         DEF Ledger!Report, Ledger!Final, Ledger!Open
    <3> QED
      BY <3>3 DEF Ledger!LedgerNext
  <2>9. CASE Writes(j)
    <3>1. r = mem'[j] /\ IsAhead(mem[j], f) /\ mem[j].status # "ABSENT"
          /\ (Goes(j, mem[j], r) \/ Ends(j, mem[j], r))
      BY <2>2, <2>9 DEF Writes, BooksFit
    <3>2. IsAhead(r, f) /\ r.status # "ABSENT"
      BY <2>4, <3>1, StillAhead DEF Goes, Ends, Open, Holding, Outcomes
    <3>3. f.status \notin {"SUCCEEDED", "CANCELED"}
      <4> SUFFICES ASSUME f.status \in {"SUCCEEDED", "CANCELED"} PROVE FALSE
        OBVIOUS
      <4>1. r.status = f.status /\ r.log = f.log
        BY <3>2 DEF IsAhead
      <4>2. LedgerOf(r) = LedgerOf(f)
        BY <4>1 DEF LedgerOf
      <4> QED
        BY <2>1, <2>6, <4>2
    <3>4. r.status \in Statuses
      BY <2>4, <3>2 DEF Record
    <3>5. Ledger!Report(j)
      BY <2>3, <2>4, <2>5, <2>6, <3>2, <3>3, <3>4, LedgerExtends, LedgerJustified
         DEF Ledger!Report, Ledger!Final, Ledger!Open, Ledger!Closed, IsAhead, Statuses,
             Holding, Terminal
    <3> QED
      BY <3>5 DEF Ledger!LedgerNext
  <2>10. Submits(j) \/ Writes(j) \/ r = NoRecord
    BY <2>2 DEF Lawful, JobStep, Stays, Loads, Forgets
  <2> QED
    BY <2>7, <2>8, <2>9, <2>10
<1> QED
  BY <1>1, <1>2

LEMMA LedgerBegins == Init => BooksFit /\ Timely /\ Ledger!LedgerInit
<1> SUFFICES ASSUME Init PROVE BooksFit /\ Timely /\ Ledger!LedgerInit
  OBVIOUS
<1>1. \A j \in Jobs : mem[j] = NoRecord /\ statusFile[j] = NoRecord /\ filed[j] = "new"
  BY DEF Init
<1>2. BooksFit
  BY <1>1, BlankHonest DEF BooksFit, NoRecord
<1>3. Timely
  BY <1>1 DEF Init, Timely, FreshFits, Shown, QrsOf, Names, NoRecord, View, Terminal
<1>4. LedgerOf(NoRecord) = Ledger!Absent
  BY DEF LedgerOf, NoRecord, Ledger!Absent
<1> QED
  BY <1>1, <1>2, <1>3, <1>4 DEF Ledger!LedgerInit

(* status.json implements JobLedger, whatever crashes, lost writes, failed *)
(* calls and retries come in between, and also when the submitter's second *)
(* write comes after the scheduler has found the job                       *)
(* (scheduler.py:153-158, 239-313, 409-437, cli.py:272).                   *)
THEOREM StatusFileKeepsLedger ==
    ASSUME SlowIsAlone
    PROVE  Spec => StatusFileIsLedger
<1> DEFINE ledger == [j \in Jobs |-> LedgerOf(statusFile[j])]
           I == Consistent /\ Orderly
<1>1. Spec => [](I /\ VerdictsHaveEvidence)
  BY OrderAlways
<1>2. I /\ I' /\ BooksFit /\ Timely /\ [Next]_vars
         => BooksFit' /\ Timely' /\ [Ledger!LedgerNext]_ledger
  <2> SUFFICES ASSUME I, I', BooksFit, Timely, [Next]_vars
               PROVE  BooksFit' /\ Timely' /\ [Ledger!LedgerNext]_ledger
    OBVIOUS
  <2>1. CASE Next
    BY <2>1, NextLawful, BooksKept, TimelyKept, LedgerStep DEF Consistent
  <2>2. CASE UNCHANGED vars
    <3>1. UNCHANGED <<filed, statusFile, canceled, snapshot, qrs, mem, phase>>
      BY <2>2 DEF vars, gcsVars, memVars, loopVars
    <3>2. BooksFit'
      BY <3>1 DEF BooksFit, Honest, IsAhead, Prefix, Count
    <3>3. Timely'
      BY <3>1 DEF Timely, FreshFits, Fresh, Shown, QrsOf, Names
    <3> QED
      BY <3>1, <3>2, <3>3
  <2> QED
    BY <2>1, <2>2
<1> QED
  BY <1>1, <1>2, LedgerBegins, PTL DEF Spec, StatusFileIsLedger, Ledger!LedgerSpec
=============================================================================
