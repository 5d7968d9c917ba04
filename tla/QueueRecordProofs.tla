-------------------------- MODULE QueueRecordProofs --------------------------
(***************************************************************************)
(* The records of jobs, the QRs of the cloud and the scheduler's books fit *)
(* together, for any number of jobs, attempts, crashes and failing calls.  *)
(* The argument rests on three things: a QR's job and attempt never change *)
(* after it was requested; at most one handler is under way; and what a    *)
(* handler still has to do fits the record it was decided on.              *)
(***************************************************************************)
EXTENDS QueueSchedulerProofs

(* At most one handler is under way, and none between iterations.          *)
OneHandler ==
    /\ \A d, e \in due : d = e
    /\ phase = "idle" => due = {}

(* A pending task is about a QR of its job, of the attempt to come if it   *)
(* is to be adopted; a job whose QR is only to be cleaned up has ended.    *)
TaskFits(d) ==
    /\ d.do \in {"examine", "preempt", "adopt"} => d.qr # 0
    /\ d.do \in {"examine", "preempt", "adopt", "cleanup"} /\ d.qr # 0 =>
          d.qr \in Names /\ qrs[d.qr].job = d.job
    /\ d.do = "adopt" => qrs[d.qr].attempt = NextAttempt(mem[d.job])
    /\ d.do = "cleanup" => mem[d.job].status \in Terminal

DueFits == \A d \in due : TaskFits(d)

(* What is still to be reconciled is not in queued_resources.              *)
OrphansFit == phase = "reconcile" => due = {} /\ qrsLeft \cap tracked = {}

PipelineFits == OneHandler /\ DueFits /\ OrphansFit

(* The strengthening of CurrentQrFitsAttempt and HeldIsTracked that every  *)
(* step preserves.                                                         *)
Consistent ==
    /\ TypeOK
    /\ PipelineFits
    /\ CurrentQrFitsAttempt
    /\ HeldIsTracked

-----------------------------------------------------------------------------
(* What no step changes. *)

SameAttempts ==
    /\ Names \subseteq Names'
    /\ \A q \in Names : qrs'[q].job = qrs[q].job /\ qrs'[q].attempt = qrs[q].attempt

LEMMA UnchangedAttempts == ASSUME UNCHANGED qrs PROVE SameAttempts
  BY DEF SameAttempts, Names

LEMMA CleanupAttempts ==
    ASSUME TypeOK, NEW q, CleanupResources(q)
    PROVE  SameAttempts
<1>1. qrs \in Seq(QR)
  BY DEF TypeOK, CloudOK
<1>2. \A p \in Names : qrs[p] \in QR
  BY <1>1 DEF Names
<1>3. \A r \in QR : /\ Deleted(r).job = r.job /\ Deleted(r).attempt = r.attempt
                    /\ WithoutVm(r).job = r.job /\ WithoutVm(r).attempt = r.attempt
  BY DEF Deleted, WithoutVm, QR
<1>4. \/ qrs' = qrs
      \/ qrs' = [qrs EXCEPT ![q] = Deleted(@)]
      \/ qrs' = [qrs EXCEPT ![q] = WithoutVm(@)]
  BY DEF CleanupResources
<1> QED
  BY <1>1, <1>2, <1>3, <1>4 DEF SameAttempts, Names

LEMMA AppendAttempts ==
    ASSUME TypeOK, NEW r, qrs' = Append(qrs, r)
    PROVE  SameAttempts
<1>1. qrs \in Seq(QR)
  BY DEF TypeOK, CloudOK
<1> QED
  BY <1>1 DEF SameAttempts, Names

LEMMA EnvironmentAttempts ==
    ASSUME TypeOK, Environment
    PROVE  SameAttempts
<1>1. CASE \E j \in Jobs : Cli(j)
  BY <1>1, UnchangedAttempts DEF Cli, Submit, SubmitSpec, SubmitStatus,
     RequestCancel, RequestRetry
<1>2. CASE \E q \in Names : CloudOf(q) \/ WorkerOf(q)
  <2>1. PICK q \in Names : CloudOf(q) \/ WorkerOf(q)
    BY <1>2
  <2>2. \A p \in Names : qrs[p] \in QR
    BY DEF TypeOK, CloudOK, Names
  <2>3. CASE CloudOf(q)
    BY <2>1, <2>2, <2>3 DEF CloudOf, Grant, Sicken, Suspend, Remove, SameAttempts, Names, QR
  <2>4. CASE WorkerOf(q)
    BY <2>1, <2>2, <2>4 DEF WorkerOf, Claim, ReportSuccess, ReportFailure, Vanish,
       SameAttempts, Names, QR
  <2> QED
    BY <2>1, <2>3, <2>4
<1> QED
  BY <1>1, <1>2 DEF Environment

LEMMA FitKept ==
    ASSUME SameAttempts, NEW j \in Jobs, NEW r, QrFits(j, r)
    PROVE  QrFits(j, r)'
  BY DEF SameAttempts, QrFits, AttemptOf

(* A record that neither holds capacity nor names a QR fits. *)
LEMMA FreeFits ==
    ASSUME NEW j, NEW r, r.status \notin Holding, r.qr = 0
    PROVE  QrFits(j, r)'
  BY DEF QrFits

LEMMA RecordsFit ==
    ASSUME Consistent, NEW j \in Jobs
    PROVE  /\ mem[j] \in Record /\ QrFits(j, mem[j])
           /\ statusFile[j] \in Record /\ QrFits(j, statusFile[j])
  BY DEF Consistent, TypeOK, MemoryOK, GcsOK, CurrentQrFitsAttempt, Records

(* Every record a step leaves or makes fits. *)
LEMMA RecordsKept ==
    ASSUME Consistent, SameAttempts,
           \A j \in Jobs : mem'[j] \in Records(j) \/ QrFits(j, mem[j])',
           \A j \in Jobs : statusFile'[j] \in Records(j) \/ QrFits(j, statusFile[j])'
    PROVE  CurrentQrFitsAttempt'
<1>1. \A j \in Jobs : \A r \in Records(j) : QrFits(j, r)'
  BY FitKept DEF Consistent, CurrentQrFitsAttempt
<1>2. \A j \in Jobs : QrFits(j, mem[j])' /\ QrFits(j, statusFile[j])'
  BY <1>1
<1> QED
  BY <1>2 DEF CurrentQrFitsAttempt, Records

-----------------------------------------------------------------------------
(* What holds capacity stays tracked when QR q, of no job that still holds *)
(* it, is forgotten.                                                       *)
LEMMA HeldKept ==
    ASSUME Consistent, NEW q, tracked \ {q} \subseteq tracked',
           \A j \in Jobs : mem'[j].status \in Holding =>
               /\ mem[j].status \in Holding
               /\ mem'[j].qr = mem[j].qr
               /\ mem[j].qr # q
    PROVE  HeldIsTracked'
  BY DEF Consistent, HeldIsTracked

LEMMA HeldSame ==
    ASSUME Consistent, UNCHANGED <<mem, tracked>>
    PROVE  HeldIsTracked'
  BY DEF Consistent, HeldIsTracked

(* A job that holds a QR holds one of its own. *)
LEMMA OwnQr ==
    ASSUME Consistent, NEW j \in Jobs, mem[j].status \in Holding \/ mem[j].qr # 0
    PROVE  /\ mem[j].qr \in Names /\ mem[j].qr # 0 /\ mem[j].status \in Holding
           /\ qrs[mem[j].qr].job = j
           /\ qrs[mem[j].qr].attempt = NextAttempt(mem[j])
  BY RecordsFit DEF QrFits, AttemptOf

LEMMA NewTask ==
    ASSUME TypeOK, NEW t, NEW j, NEW q, Do(t, j, q), phase' \notin {"idle", "reconcile"},
           TaskFits([do |-> t, job |-> j, qr |-> q])'
    PROVE  PipelineFits'
  BY DEF Do, PipelineFits, OneHandler, DueFits, OrphansFit

LEMMA NoTask ==
    ASSUME due' = {}, phase' = "reconcile" => qrsLeft' \cap tracked' = {}
    PROVE  PipelineFits'
  BY DEF PipelineFits, OneHandler, DueFits, OrphansFit

LEMMA SameTask ==
    ASSUME Consistent, SameAttempts, UNCHANGED <<mem, phase, qrsLeft, due>>,
           tracked' \subseteq tracked
    PROVE  PipelineFits'
<1>1. \A d \in due : TaskFits(d)'
  BY DEF Consistent, PipelineFits, DueFits, TaskFits, SameAttempts
<1> QED
  BY <1>1 DEF Consistent, PipelineFits, OneHandler, DueFits, OrphansFit

(* The first part of a visit is not made in the reconcile stage, nor       *)
(* outside all stages.                                                     *)
LEMMA Visiting ==
    ASSUME NEW stage, NEW j, Visit(stage, j) \/ VisitQr(stage, j)
    PROVE  /\ phase = stage /\ phase' = stage /\ due = {} /\ UNCHANGED crashes
           /\ qrsLeft' \subseteq qrsLeft
  BY DEF Visit, VisitQr

(* What each step re-establishes, besides types. *)
Kept == PipelineFits /\ CurrentQrFitsAttempt /\ HeldIsTracked

(* A step that changes no record in memory and no tracked QR. *)
LEMMA RecordsSame ==
    ASSUME Consistent, SameAttempts, UNCHANGED mem,
           \A j \in Jobs : statusFile'[j] \in Records(j) \/ QrFits(j, statusFile[j])'
    PROVE  CurrentQrFitsAttempt'
  BY RecordsKept DEF Records

LEMMA NewRecordFits ==
    ASSUME NEW j, NEW r, r = NewRecord \/ r = NoRecord
    PROVE  r.status \notin Holding /\ r.qr = 0 /\ QrFits(j, r)'
  BY FreeFits DEF NewRecord, NoRecord, Holding

-----------------------------------------------------------------------------
LEMMA EnvironmentKeeps == ASSUME Consistent, Environment PROVE Kept'
<1>1. UNCHANGED <<mem, tracked, phase, qrsLeft, due>>
  BY DEF Environment, memVars, loopVars
<1>2. SameAttempts
  BY EnvironmentAttempts DEF Consistent
<1>3. \A j \in Jobs : statusFile'[j] \in {statusFile[j], NewRecord, NoRecord}
  BY DEF Consistent, TypeOK, GcsOK, Environment, Cli, Submit, SubmitSpec, SubmitStatus, RequestCancel,
     RequestRetry, CloudOf, WorkerOf, Grant, Sicken, Suspend, Remove, Claim,
     ReportSuccess, ReportFailure, Vanish, gcsVars
<1>4. \A j \in Jobs : statusFile'[j] \in Records(j) \/ QrFits(j, statusFile[j])'
  <2> TAKE j \in Jobs
  <2>1. CASE statusFile'[j] = statusFile[j]
    BY <2>1 DEF Records
  <2>2. CASE statusFile'[j] \in {NewRecord, NoRecord}
    BY <2>2, NewRecordFits DEF NewRecord, NoRecord, QrFits, Holding
  <2> QED
    BY <1>3, <2>1, <2>2
<1>5. CurrentQrFitsAttempt'
  BY <1>1, <1>2, <1>4, RecordsSame
<1> QED
  BY <1>1, <1>2, <1>5, SameTask, HeldSame DEF Kept

LEMMA ScanKeeps == ASSUME Consistent, ScanJobs PROVE Kept'
<1>1. PICK got \in SUBSET Loadable : Load(got)
  BY DEF ScanJobs
<1>2. /\ UNCHANGED <<statusFile, qrs, due, qrsLeft>>
      /\ phase = "idle" /\ phase' \in {"scan", "idle"}
  BY DEF ScanJobs, gcsVars
<1>3. SameAttempts
  BY <1>2, UnchangedAttempts
<1>4. due' = {}
  BY <1>2 DEF Consistent, PipelineFits, OneHandler
<1>5. got \subseteq Jobs
  BY DEF Loadable, Missing, Listed
<1>6. \A j \in Jobs :
         mem'[j] = IF j \in got
                   THEN IF statusFile[j].status = "ABSENT" THEN NewRecord ELSE statusFile[j]
                   ELSE mem[j]
  BY <1>1 DEF Load, LoadedState, StateOnFile
<1>7. \A j \in Jobs : mem'[j] \in Records(j) \/ QrFits(j, mem[j])'
  BY <1>6 DEF Records, QrFits, NewRecord, NoRecord, Holding
<1>8. CurrentQrFitsAttempt'
  BY <1>2, <1>3, <1>7, RecordsKept DEF Records
<1>9. HeldIsTracked'
  <2> SUFFICES ASSUME NEW j \in Jobs, mem'[j].status \in Holding
               PROVE  mem'[j].qr \in tracked'
    BY DEF HeldIsTracked
  <2>1. CASE j \in got
    <3>1. statusFile[j].status \in Holding /\ mem'[j] = statusFile[j]
      BY <1>6, <2>1 DEF NewRecord, NoRecord, Holding
    <3>2. statusFile[j].qr # 0
      BY <3>1, RecordsFit DEF QrFits
    <3> QED
      BY <1>1, <2>1, <3>1, <3>2 DEF Load, Adopted
  <2>2. CASE j \notin got
    BY <1>1, <1>6, <2>2 DEF Load, Consistent, HeldIsTracked
  <2> QED
    BY <2>1, <2>2
<1> QED
  BY <1>2, <1>4, <1>8, <1>9, NoTask DEF Kept

LEMMA RefreshKeeps ==
    ASSUME Consistent, NEW j \in Jobs, RefreshState(j)
    PROVE  Kept'
<1>1. /\ Visit("refresh", j) /\ UNCHANGED <<statusFile, qrs>>
      /\ due' = {} /\ phase' # "reconcile"
  BY Visiting DEF RefreshState, gcsVars
<1>2. SameAttempts
  BY <1>1, UnchangedAttempts
<1>3. CASE UNCHANGED <<mem, tracked>>
  BY <1>1, <1>2, <1>3, NoTask, HeldSame, RecordsSame DEF Kept, Records
<1>4. CASE /\ mem' = [mem EXCEPT ![j] = statusFile[j]]
           /\ tracked' = (tracked \ QrsOf(j)) \cup Adopted({j})
  <2>1. \A k \in Jobs : mem'[k] = IF k = j THEN statusFile[k] ELSE mem[k]
    BY <1>4 DEF Consistent, TypeOK, MemoryOK
  <2>2. CurrentQrFitsAttempt'
    BY <1>1, <1>2, <2>1, RecordsKept DEF Records
  <2>3. HeldIsTracked'
    <3> SUFFICES ASSUME NEW k \in Jobs, mem'[k].status \in Holding
                 PROVE  mem'[k].qr \in tracked'
      BY DEF HeldIsTracked
    <3>1. CASE k = j
      <4>1. mem'[j].qr # 0 /\ mem'[j] = statusFile[j]
        BY <2>1, <3>1, RecordsFit DEF QrFits
      <4> QED
        BY <1>4, <3>1, <4>1 DEF Adopted
    <3>2. CASE k # j
      <4>1. mem'[k] = mem[k] /\ mem[k].qr \in tracked
        BY <2>1, <3>2 DEF Consistent, HeldIsTracked
      <4>2. mem[k].qr \notin QrsOf(j)
        BY <3>2, <4>1, OwnQr DEF QrsOf
      <4> QED
        BY <1>4, <4>1, <4>2
    <3> QED
      BY <3>1, <3>2
  <2> QED
    BY <1>1, <2>2, <2>3, NoTask DEF Kept
<1> QED
  BY <1>3, <1>4 DEF RefreshState

LEMMA CheckCanceledKeeps ==
    ASSUME Consistent, NEW j \in Jobs, CheckCanceled(j)
    PROVE  Kept'
<1>1. Visit("cancel", j) /\ UNCHANGED statusFile
  BY DEF CheckCanceled, gcsVars
<1>2. CASE CancelJob(j)
  <2>1. /\ mem' = [mem EXCEPT ![j] = [Released(@) EXCEPT !.status = "CANCELED"]]
        /\ Do("save", j, 0)
        /\ CleanupResources(mem[j].qr) \/ UNCHANGED <<qrs, tracked>>
    BY <1>2 DEF CancelJob
  <2>2. SameAttempts /\ tracked \ {mem[j].qr} \subseteq tracked'
    BY <2>1, CleanupAttempts, UnchangedAttempts DEF CleanupResources, Consistent
  <2>3. mem'[j].status = "CANCELED" /\ mem'[j].qr = 0
        /\ \A k \in Jobs \ {j} : mem'[k] = mem[k]
    BY <2>1, RecordsFit DEF Released, Record, Consistent, TypeOK, MemoryOK
  <2>4. CurrentQrFitsAttempt'
    BY <1>1, <2>2, <2>3, RecordsKept DEF Records, QrFits, Holding
  <2>5. \A k \in Jobs : mem'[k].status \in Holding =>
           mem[k].status \in Holding /\ mem'[k].qr = mem[k].qr /\ mem[k].qr # mem[j].qr
    BY <2>3, OwnQr DEF Holding
  <2>6. PipelineFits'
    BY <1>1, <2>1, NewTask, Visiting DEF TaskFits, Consistent
  <2> QED
    BY <2>2, <2>4, <2>5, <2>6, HeldKept DEF Kept
<1>3. CASE UNCHANGED <<mem, qrs, tracked, due>>
  <2>1. SameAttempts /\ due' = {} /\ phase' # "reconcile"
    BY <1>1, <1>3, Visiting, UnchangedAttempts
  <2> QED
    BY <1>1, <1>3, <2>1, NoTask, HeldSame, RecordsSame DEF Kept, Records
<1> QED
  BY <1>2, <1>3 DEF CheckCanceled

(* Record r will fit once the step is made. *)
WillFit(j, r) ==
    /\ r.status \in Holding <=> r.qr # 0
    /\ r.qr # 0 => /\ r.qr \in Names'
                   /\ qrs'[r.qr].job = j
                   /\ qrs'[r.qr].attempt = NextAttempt(r)

(* The step saves record r of job j, in memory at least. *)
LEMMA WriteKeeps ==
    ASSUME Consistent, SameAttempts, NEW j \in Jobs, NEW r, WriteStatus(j, r),
           WillFit(j, r)
    PROVE  /\ CurrentQrFitsAttempt'
           /\ mem'[j] = r /\ \A k \in Jobs \ {j} : mem'[k] = mem[k]
<1>1. mem'[j] = r /\ \A k \in Jobs \ {j} : mem'[k] = mem[k]
  BY DEF WriteStatus, Consistent, TypeOK, MemoryOK
<1>2. \A k \in Jobs : statusFile'[k] = statusFile[k] \/ (k = j /\ statusFile'[k] = r)
  BY DEF WriteStatus, Consistent, TypeOK, GcsOK
<1>3. \A k \in Jobs : mem'[k] \in Records(k) \/ QrFits(k, mem[k])'
  BY <1>1 DEF Records, QrFits, WillFit, AttemptOf, NextAttempt
<1>4. \A k \in Jobs : statusFile'[k] \in Records(k) \/ QrFits(k, statusFile[k])'
  BY <1>2 DEF Records, QrFits, WillFit, AttemptOf, NextAttempt
<1> QED
  BY <1>1, <1>3, <1>4, RecordsKept

(* A record with the same status, attempt and QR fits as well. *)
LEMMA LikewiseFits ==
    ASSUME Consistent, SameAttempts, NEW j \in Jobs, NEW r,
           r.attempt = mem[j].attempt, r.qr = mem[j].qr,
           r.status \in Holding <=> mem[j].status \in Holding
    PROVE  WillFit(j, r)
<1>1. QrFits(j, mem[j])
  BY RecordsFit
<1> QED
  BY <1>1 DEF QrFits, WillFit, SameAttempts, AttemptOf, NextAttempt

LEMMA PollKeeps ==
    ASSUME Consistent, NEW q \in Names, PollQueuedResource(q)
    PROVE  Kept'
<1> DEFINE j == qrs[q].job
<1>1. VisitQr("poll", q) /\ j \in Jobs
  BY QrType DEF PollQueuedResource, PollForgotten, PollReplaced, PollDisappeared,
     PollDescribed, Consistent
<1>2. due = {} /\ phase' = "poll"
  BY <1>1, Visiting
<1>3. q \in Nat /\ q # 0
  BY DEF Names, Consistent, TypeOK, CloudOK
<1>4. CASE PollForgotten(q) \/ PollReplaced(q)
  <2>1. /\ tracked \ {q} \subseteq tracked' /\ UNCHANGED <<mem, statusFile, due>>
        /\ CleanupResources(q) \/ UNCHANGED qrs
        /\ mem[j].status = "ABSENT" \/ mem[j].qr # q
    BY <1>1, <1>4 DEF PollForgotten, PollReplaced, CleanupResources, gcsVars, Loaded
  <2>2. SameAttempts
    BY <2>1, CleanupAttempts, UnchangedAttempts DEF Consistent
  <2>3. \A k \in Jobs : mem[k].status \in Holding => mem[k].qr # q
    BY <1>1, <2>1, OwnQr DEF Holding
  <2>4. HeldIsTracked'
    BY <2>1, <2>3, HeldKept
  <2>5. CurrentQrFitsAttempt'
    BY <2>1, <2>2, RecordsSame DEF Records
  <2>6. PipelineFits'
    BY <1>2, <2>1, NoTask
  <2> QED
    BY <2>4, <2>5, <2>6 DEF Kept
<1>5. CASE PollDisappeared(q)
  <2>1. Do("preempt", j, q) /\ UNCHANGED <<statusFile, qrs, mem, tracked>>
    BY <1>5 DEF PollDisappeared, gcsVars
  <2>2. PipelineFits'
    BY <1>2, <1>3, <2>1, NewTask, UnchangedAttempts
       DEF TaskFits, SameAttempts, Consistent
  <2> QED
    BY <2>1, <2>2, HeldSame, RecordsSame, UnchangedAttempts DEF Kept, Records
<1>6. CASE PollDescribed(q)
  <2> DEFINE r == [mem[j] EXCEPT !.qrState = Described(q)]
  <2>1. /\ UNCHANGED <<qrs, tracked>>
        /\ WriteStatus(j, r) \/ UNCHANGED <<mem, statusFile>>
        /\ UNCHANGED due \/ Do("examine", j, q) \/ Do("preempt", j, q)
    BY <1>6 DEF PollDescribed, HandleState
  <2>2. r.attempt = mem[j].attempt /\ r.qr = mem[j].qr /\ r.status = mem[j].status
    BY <1>1, RecordsFit DEF Record
  <2> HIDE DEF r
  <2>3. SameAttempts
    BY <2>1, UnchangedAttempts
  <2>4. WillFit(j, r)
    BY <1>1, <2>2, <2>3, LikewiseFits
  <2>5. CurrentQrFitsAttempt'
    BY <1>1, <2>1, <2>3, <2>4, WriteKeeps, RecordsSame DEF Records
  <2>6. \A k \in Jobs : mem'[k].status = mem[k].status /\ mem'[k].qr = mem[k].qr
    BY <1>1, <2>1, <2>2, <2>3, <2>4, WriteKeeps
  <2>7. HeldIsTracked'
    BY <2>1, <2>6 DEF HeldIsTracked, Consistent
  <2>8. PipelineFits'
    <3>1. CASE UNCHANGED due
      BY <1>2, <3>1, NoTask
    <3>2. CASE Do("examine", j, q) \/ Do("preempt", j, q)
      BY <1>2, <1>3, <2>3, <3>2, NewTask DEF TaskFits, SameAttempts, Consistent
    <3> QED
      BY <2>1, <3>1, <3>2
  <2> QED
    BY <2>5, <2>7, <2>8 DEF Kept
<1> QED
  BY <1>4, <1>5, <1>6 DEF PollQueuedResource

(* Records that hold nothing any more. *)
LEMMA FinishedFree ==
    ASSUME NEW j \in Jobs, NEW r \in Record, NEW outcome \in {"APP", "OK"}
    PROVE  /\ Finished(r, outcome).status \in Terminal
           /\ Finished(r, outcome).qr = 0
           /\ WillFit(j, Finished(r, outcome))
<1>1. Closed(r, outcome) \in Record
  BY ClosedType DEF Outcomes
<1>2. Released(Closed(r, outcome)) \in Record /\ Released(Closed(r, outcome)).qr = 0
  BY <1>1, ReleasedType
<1>3. Finished(r, outcome).status \in Terminal /\ Finished(r, outcome).qr = 0
  BY <1>2 DEF Finished, Record, Terminal
<1> QED
  BY <1>3 DEF WillFit, Terminal, Holding

(* One job ends, and the QR it held is left to be cleaned up. *)
LEMMA EndKeeps ==
    ASSUME Consistent, NEW j \in Jobs, NEW r,
           mem'[j] = r /\ \A k \in Jobs \ {j} : mem'[k] = mem[k],
           r.status \in Terminal, UNCHANGED <<qrs, tracked>>,
           Do("cleanup", j, mem[j].qr), phase' = "complete", CurrentQrFitsAttempt'
    PROVE  Kept'
<1>1. HeldIsTracked'
  BY DEF HeldIsTracked, Consistent, Terminal, Holding
<1>2. PipelineFits'
  <2>1. mem[j].qr # 0 => mem[j].qr \in Names' /\ qrs'[mem[j].qr].job = j
    BY OwnQr DEF Names
  <2> QED
    BY <2>1, NewTask DEF TaskFits, Consistent
<1> QED
  BY <1>1, <1>2 DEF Kept

LEMMA CheckCompletedKeeps ==
    ASSUME Consistent, NEW j \in Jobs,
           CheckCompleted(j) \/ CheckCompletedMissingReport(j)
    PROVE  Kept'
<1>1. Visit("complete", j) /\ UNCHANGED <<qrs, tracked>>
  BY DEF CheckCompleted, CheckCompletedMissingReport
<1>2. SameAttempts /\ due = {} /\ phase' = "complete" /\ mem[j] \in Record
  BY <1>1, Visiting, UnchangedAttempts, RecordsFit
<1>3. CASE UNCHANGED <<mem, statusFile, due>>
  BY <1>1, <1>2, <1>3, NoTask, HeldSame, RecordsSame DEF Kept, Records
<1>4. CASE \E outcome \in {"APP", "OK"} : FinishJob(j, outcome)
  <2>1. PICK outcome \in {"APP", "OK"} : FinishJob(j, outcome)
    BY <1>4
  <2> DEFINE r == Finished(mem[j], outcome)
  <2>2. WriteStatus(j, r) /\ Do("cleanup", j, mem[j].qr)
    BY <2>1 DEF FinishJob
  <2>3. r.status \in Terminal /\ WillFit(j, r)
    BY <1>2, FinishedFree
  <2> HIDE DEF r
  <2> QED
    BY <1>1, <1>2, <2>2, <2>3, WriteKeeps, EndKeeps
<1>5. CASE /\ mem' = [mem EXCEPT ![j] = Finished(@, "OK")]
           /\ statusFile' = [statusFile EXCEPT ![j] = Finished(mem[j], "OK")]
           /\ Do("cleanup", j, mem[j].qr)
  <2> DEFINE r == Finished(mem[j], "OK")
  <2>1. r.status \in Terminal /\ r.qr = 0
    BY <1>2, FinishedFree
  <2> HIDE DEF r
  <2>2. /\ mem'[j] = r /\ \A k \in Jobs \ {j} : mem'[k] = mem[k]
        /\ statusFile'[j] = r /\ \A k \in Jobs \ {j} : statusFile'[k] = statusFile[k]
    BY <1>5 DEF r, Consistent, TypeOK, MemoryOK, GcsOK
  <2>3. CurrentQrFitsAttempt'
    BY <1>2, <2>1, <2>2, RecordsKept DEF Records, QrFits, Terminal, Holding
  <2> QED
    BY <1>1, <1>2, <1>5, <2>1, <2>2, <2>3, EndKeeps
<1> QED
  BY <1>3, <1>4, <1>5 DEF CheckCompleted, CheckCompletedMissingReport

LEMMA CheckRetryKeeps ==
    ASSUME Consistent, NEW j \in Jobs, CheckRetry(j)
    PROVE  Kept'
<1>1. Visit("retry", j) /\ UNCHANGED <<statusFile, qrs, mem, tracked>>
  BY DEF CheckRetry, memVars
<1>2. SameAttempts /\ due = {} /\ phase' = "retry"
  BY <1>1, Visiting, UnchangedAttempts
<1>3. Do("requeue", j, 0) \/ UNCHANGED due
  BY DEF CheckRetry
<1>4. PipelineFits'
  BY <1>2, <1>3, NewTask, NoTask DEF TaskFits, Consistent
<1> QED
  BY <1>1, <1>2, <1>4, HeldSame, RecordsSame DEF Kept, Records

LEMMA ScheduleKeeps ==
    ASSUME Consistent, NEW j \in Jobs,
           PassOver(j) \/ CreateQueuedResource(j) \/ CreateFails(j)
    PROVE  Kept'
<1>1. Visit("schedule", j) /\ UNCHANGED <<statusFile, mem, tracked>>
  BY DEF PassOver, CreateQueuedResource, CreateFails, gcsVars, memVars
<1>2. due = {} /\ phase' = "schedule"
  BY <1>1, Visiting
<1>3. UNCHANGED qrs \/ qrs' = Append(qrs, NewQR(j, NextAttempt(mem[j])))
  BY DEF PassOver, CreateQueuedResource, CreateFails
<1>4. SameAttempts
  BY <1>3, UnchangedAttempts, AppendAttempts DEF Consistent
<1>5. CurrentQrFitsAttempt' /\ HeldIsTracked'
  BY <1>1, <1>4, RecordsSame, HeldSame DEF Records
<1>6. PipelineFits'
  <2>1. CASE UNCHANGED due
    BY <1>2, <2>1, NoTask
  <2>2. CASE CreateQueuedResource(j)
    <3>1. /\ qrs' = Append(qrs, NewQR(j, NextAttempt(mem[j])))
          /\ Do("adopt", j, Len(qrs) + 1)
      BY <2>2 DEF CreateQueuedResource
    <3>2. qrs \in Seq(QR)
      BY DEF Consistent, TypeOK, CloudOK
    <3>3. /\ Len(qrs) + 1 \in Names' /\ Len(qrs) + 1 # 0
          /\ qrs'[Len(qrs) + 1] = NewQR(j, NextAttempt(mem[j]))
      BY <3>1, <3>2 DEF Names
    <3>4. /\ qrs'[Len(qrs) + 1].job = j
          /\ qrs'[Len(qrs) + 1].attempt = NextAttempt(mem'[j])
      BY <1>1, <3>3 DEF NewQR, NextAttempt
    <3> QED
      BY <1>2, <3>1, <3>3, <3>4, NewTask DEF TaskFits, Consistent
  <2> QED
    BY <2>1, <2>2 DEF PassOver, CreateFails
<1> QED
  BY <1>5, <1>6 DEF Kept

LEMMA ReapKeeps ==
    ASSUME Consistent, NEW j \in Jobs,
           ReapTerminal(j) \/ ReapFails(j) \/ NotYetExpired(j)
    PROVE  Kept'
<1>1. Visit("reap", j) /\ UNCHANGED <<qrs, tracked, due>>
  BY DEF ReapTerminal, ReapFails, NotYetExpired, memVars
<1>2. SameAttempts /\ due' = {} /\ phase' = "reap"
  BY <1>1, Visiting, UnchangedAttempts
<1>3. \A k \in Jobs : /\ mem'[k] \in {mem[k], NoRecord}
                      /\ statusFile'[k] \in {statusFile[k], NoRecord}
  BY DEF ReapTerminal, ReapFails, NotYetExpired, Forget, memVars, gcsVars,
     Consistent, TypeOK, MemoryOK, GcsOK
<1>4. CurrentQrFitsAttempt'
  BY <1>2, <1>3, RecordsKept DEF Records, QrFits, NoRecord, Holding
<1>5. HeldIsTracked'
  BY <1>1, <1>3 DEF HeldIsTracked, Consistent, NoRecord, Holding
<1> QED
  BY <1>2, <1>4, <1>5, NoTask DEF Kept

LEMMA ReconcileKeeps ==
    ASSUME Consistent, NEW q \in qrsLeft, ReconcileOrphan(q)
    PROVE  Kept'
<1>1. /\ VisitQr("reconcile", q) /\ CleanupResources(q)
      /\ UNCHANGED <<statusFile, mem, due>>
  BY DEF ReconcileOrphan, gcsVars
<1>2. /\ phase = "reconcile" /\ due' = {} /\ qrsLeft' \subseteq qrsLeft
      /\ SameAttempts
  BY <1>1, Visiting, CleanupAttempts DEF Consistent
<1>3. qrsLeft \cap tracked = {}
  BY <1>2 DEF Consistent, PipelineFits, OrphansFit
<1>4. tracked \ {q} \subseteq tracked' /\ tracked' \subseteq tracked
  BY <1>1 DEF CleanupResources
<1>5. HeldIsTracked'
  BY <1>1, <1>3, <1>4, HeldKept DEF Consistent, HeldIsTracked
<1>6. CurrentQrFitsAttempt'
  BY <1>1, <1>2, RecordsSame DEF Records
<1>7. PipelineFits'
  BY <1>2, <1>3, <1>4, NoTask
<1> QED
  BY <1>5, <1>6, <1>7 DEF Kept

-----------------------------------------------------------------------------
(* The rest of a handler. *)

(* A step that carries on a task leaves the reconcile stage alone. *)
LEMMA Resuming ==
    ASSUME Consistent, NEW d \in due, NEW task, Resume(d, task)
    PROVE  /\ d.do = task /\ d.job \in Jobs /\ mem[d.job] \in Record
           /\ TaskFits(d) /\ phase' = phase /\ phase \notin {"idle", "reconcile"}
  BY RecordsFit DEF Consistent, TypeOK, LoopOK, DueOK, PipelineFits, OneHandler, DueFits,
     OrphansFit, Resume

LEMMA SaveKeeps ==
    ASSUME Consistent, NEW d \in due, SaveStatus(d) \/ Requeue(d) \/ ExamineStarted(d)
    PROVE  Kept'
<1> DEFINE j == d.job
<1>1. /\ j \in Jobs /\ mem[j] \in Record /\ phase' = phase
      /\ phase \notin {"idle", "reconcile"} /\ due' = {} /\ UNCHANGED <<qrs, tracked>>
  BY Resuming DEF SaveStatus, Requeue, ExamineStarted, Done
<1>2. SameAttempts
  BY <1>1, UnchangedAttempts
<1>3. PICK r : WriteStatus(j, r) /\ WillFit(j, r)
               /\ (r.status \in Holding =>
                      mem[j].status \in Holding /\ r.qr = mem[j].qr)
  <2>1. CASE SaveStatus(d)
    BY <1>1, <1>2, <2>1, LikewiseFits DEF SaveStatus
  <2>2. CASE Requeue(d)
    <3>1. WillFit(j, mem[j])
      BY <1>1, <1>2, LikewiseFits
    <3> DEFINE r == [Released(mem[j]) EXCEPT !.status = "PENDING"]
    <3>2. r.status = "PENDING" /\ r.qr = 0
      BY <1>1, ReleasedType DEF Record
    <3>3. WillFit(j, r)
      BY <3>2 DEF WillFit, Holding
    <3> QED
      BY <2>2, <3>1, <3>2, <3>3 DEF Requeue, RetriedRecord, Holding
  <2>3. CASE ExamineStarted(d)
    <3> DEFINE r == [mem[j] EXCEPT !.status = "RUNNING"]
    <3>1. /\ r.status = "RUNNING" /\ r.qr = mem[j].qr /\ r.attempt = mem[j].attempt
          /\ mem[j].status \in Holding
      BY <1>1, <2>3 DEF ExamineStarted, Record, Holding
    <3>2. WillFit(j, r)
      BY <1>1, <1>2, <3>1, LikewiseFits DEF Holding
    <3> QED
      BY <2>3, <3>1, <3>2 DEF ExamineStarted
  <2> QED
    BY <2>1, <2>2, <2>3
<1>4. CurrentQrFitsAttempt' /\ mem'[j] = r /\ \A k \in Jobs \ {j} : mem'[k] = mem[k]
  BY <1>1, <1>2, <1>3, WriteKeeps
<1>5. HeldIsTracked'
  BY <1>1, <1>3, <1>4 DEF HeldIsTracked, Consistent
<1> QED
  BY <1>1, <1>4, <1>5, NoTask DEF Kept

LEMMA AdoptKeeps ==
    ASSUME Consistent, NEW d \in due, AdoptQr(d)
    PROVE  Kept'
<1> DEFINE j == d.job
           r == [mem[j] EXCEPT !.status = "PROVISIONING", !.qr = d.qr,
                               !.qrState = "WAITING"]
<1>1. /\ j \in Jobs /\ mem[j] \in Record /\ TaskFits(d) /\ d.do = "adopt"
      /\ phase' = phase /\ phase \notin {"idle", "reconcile"} /\ due' = {}
  BY Resuming DEF AdoptQr, Done
<1>2. WriteStatus(j, r) /\ tracked' = tracked \cup {d.qr} /\ UNCHANGED qrs
  BY DEF AdoptQr
<1>3. SameAttempts
  BY <1>2, UnchangedAttempts
<1>4. r.status = "PROVISIONING" /\ r.qr = d.qr /\ r.attempt = mem[j].attempt
  BY <1>1 DEF Record
<1> HIDE DEF r
<1>5. WillFit(j, r)
  BY <1>1, <1>2, <1>4 DEF WillFit, TaskFits, NextAttempt, Holding, Names
<1>6. CurrentQrFitsAttempt' /\ mem'[j] = r /\ \A k \in Jobs \ {j} : mem'[k] = mem[k]
  BY <1>1, <1>2, <1>3, <1>5, WriteKeeps
<1>7. HeldIsTracked'
  BY <1>2, <1>4, <1>6 DEF HeldIsTracked, Consistent
<1> QED
  BY <1>1, <1>6, <1>7, NoTask DEF Kept

LEMMA PreemptKeeps ==
    ASSUME Consistent, NEW d \in due, HandlePreemption(d)
    PROVE  Kept'
<1> DEFINE j == d.job
           r == Requeued(j, Released(Closed(mem[j], "INFRA")))
<1>1. /\ j \in Jobs /\ mem[j] \in Record /\ TaskFits(d) /\ d.do = "preempt"
      /\ phase' = phase /\ phase \notin {"idle", "reconcile"}
  BY Resuming DEF HandlePreemption
<1>2. /\ mem' = [mem EXCEPT ![j] = r] /\ CleanupResources(d.qr)
      /\ Do("save", j, 0) /\ UNCHANGED statusFile
  BY DEF HandlePreemption, gcsVars
<1>3. r.status \in {"PENDING", "FAILED"} /\ r.qr = 0
  <2>1. Released(Closed(mem[j], "INFRA")) \in Record
        /\ Released(Closed(mem[j], "INFRA")).qr = 0
    BY <1>1, ClosedType, ReleasedType DEF Outcomes
  <2> QED
    BY <2>1 DEF Requeued, Record
<1> HIDE DEF r
<1>4. SameAttempts /\ tracked \ {d.qr} \subseteq tracked'
  BY <1>2, CleanupAttempts DEF CleanupResources, Consistent
<1>5. mem'[j] = r /\ \A k \in Jobs \ {j} : mem'[k] = mem[k]
  BY <1>1, <1>2 DEF Consistent, TypeOK, MemoryOK
<1>6. CurrentQrFitsAttempt'
  BY <1>2, <1>3, <1>4, <1>5, RecordsKept DEF Records, QrFits, Holding
<1>7. \A k \in Jobs : mem'[k].status \in Holding =>
         mem[k].status \in Holding /\ mem'[k].qr = mem[k].qr /\ mem[k].qr # d.qr
  BY <1>1, <1>3, <1>5, OwnQr DEF TaskFits, Holding
<1>8. HeldIsTracked'
  BY <1>4, <1>7, HeldKept
<1>9. PipelineFits'
  BY <1>1, <1>2, NewTask DEF TaskFits, Consistent
<1> QED
  BY <1>6, <1>8, <1>9 DEF Kept

LEMMA CarryKeeps ==
    ASSUME Consistent, NEW d \in due, Carry(d)
    PROVE  Kept'
<1>1. CASE CleanupFinished(d)
  <2>1. /\ d.job \in Jobs /\ TaskFits(d) /\ d.do = "cleanup" /\ due' = {}
        /\ phase' = phase /\ phase \notin {"idle", "reconcile"}
    BY <1>1, Resuming DEF CleanupFinished, Done
  <2>2. CleanupResources(d.qr) /\ UNCHANGED <<statusFile, mem>>
    BY <1>1 DEF CleanupFinished, gcsVars
  <2>3. SameAttempts /\ tracked \ {d.qr} \subseteq tracked'
    BY <2>2, CleanupAttempts DEF CleanupResources, Consistent
  <2>4. \A k \in Jobs : mem[k].status \in Holding => mem[k].qr # d.qr
    BY <2>1, OwnQr DEF TaskFits, Terminal, Holding
  <2>5. HeldIsTracked'
    BY <2>2, <2>3, <2>4, HeldKept
  <2> QED
    BY <2>1, <2>2, <2>3, <2>5, NoTask, RecordsSame DEF Kept, Records
<1>2. CASE ExamineSickVm(d) \/ ExamineTimeout(d) \/ ExamineInTime(d)
  <2>1. /\ Resume(d, "examine") /\ UNCHANGED <<statusFile, qrs, mem, tracked>>
        /\ due' = {} \/ Do("preempt", d.job, d.qr)
    BY <1>2 DEF ExamineSickVm, ExamineTimeout, ExamineInTime, Done, gcsVars, memVars
  <2>2. /\ d.job \in Jobs /\ TaskFits(d) /\ d.do = "examine"
        /\ phase' = phase /\ phase \notin {"idle", "reconcile"}
    BY <2>1, Resuming
  <2>3. PipelineFits'
    <3>1. CASE due' = {}
      BY <2>2, <3>1, NoTask
    <3>2. CASE Do("preempt", d.job, d.qr)
      BY <2>1, <2>2, <3>2, NewTask DEF TaskFits, Names, Consistent
    <3> QED
      BY <2>1, <3>1, <3>2
  <2> QED
    BY <2>1, <2>3, HeldSame, RecordsSame, UnchangedAttempts DEF Kept, Records
<1> QED
  BY <1>1, <1>2, SaveKeeps, AdoptKeeps, PreemptKeeps DEF Carry

-----------------------------------------------------------------------------
(* The loop, and the process. *)

LEMMA MoveOnKeeps ==
    ASSUME Consistent,
           EndIteration \/ WriteSchedulerState \/ \E p \in DOMAIN Place : Advance(p)
    PROVE  Kept'
<1>1. /\ UNCHANGED <<statusFile, qrs, mem, tracked, due>> /\ due = {}
  BY DEF EndIteration, WriteSchedulerState, Advance, Drained, gcsVars, memVars
<1>2. phase' = "reconcile" => qrsLeft' \cap tracked' = {}
  <2>1. CASE \E p \in DOMAIN Place : Advance(p)
    <3>1. PICK p \in DOMAIN Place : Advance(p)
      BY <2>1
    <3> QED
      BY <1>1, <3>1 DEF Advance, QrsFor, Orphans
  <2>2. CASE EndIteration \/ WriteSchedulerState
    BY <2>2 DEF EndIteration, WriteSchedulerState
  <2> QED
    BY <2>1, <2>2
<1> QED
  BY <1>1, <1>2, NoTask, HeldSame, RecordsSame, UnchangedAttempts DEF Kept, Records

LEMMA ProcessKeeps == ASSUME Consistent, Abort \/ Crash PROVE Kept'
<1>1. UNCHANGED <<statusFile, qrs>> /\ due' = {} /\ phase' = "idle"
  BY DEF Abort, Crash, Unwind, gcsVars
<1>2. SameAttempts
  BY <1>1, UnchangedAttempts
<1>3. CASE Abort
  BY <1>1, <1>2, <1>3, NoTask, HeldSame, RecordsSame DEF Abort, memVars, Kept, Records
<1>4. CASE Crash
  <2>1. \A j \in Jobs : mem'[j] = NoRecord
    BY <1>4 DEF Crash
  <2>2. CurrentQrFitsAttempt'
    BY <1>1, <1>2, <2>1, RecordsKept DEF Records, QrFits, NoRecord, Holding
  <2>3. HeldIsTracked'
    BY <2>1 DEF HeldIsTracked, NoRecord, Holding
  <2> QED
    BY <1>1, <2>2, <2>3, NoTask DEF Kept
<1> QED
  BY <1>3, <1>4

LEMMA NextKeeps == ASSUME Consistent, Next PROVE Consistent'
<1>1. TypeOK' /\ jobsLeft \subseteq Jobs /\ qrsLeft \subseteq Names
  BY NextType DEF Consistent, TypeOK, LoopOK
<1>2. ASSUME NEW j \in jobsLeft, VisitJob(j) PROVE Kept'
  BY <1>1, <1>2, RefreshKeeps, CheckCanceledKeeps, CheckCompletedKeeps, CheckRetryKeeps,
     ScheduleKeeps, ReapKeeps DEF VisitJob
<1>3. ASSUME NEW q \in qrsLeft, VisitName(q) PROVE Kept'
  BY <1>1, <1>3, PollKeeps, ReconcileKeeps DEF VisitName
<1>4. ASSUME NEW j \in backoff, BackoffOver(j) PROVE Kept'
  <2>1. UNCHANGED <<statusFile, qrs, mem, tracked, phase, qrsLeft, due>>
    BY <1>4 DEF BackoffOver, gcsVars, loopVars
  <2> QED
    BY <2>1, SameTask, HeldSame, RecordsSame, UnchangedAttempts DEF Kept, Records
<1>5. Kept'
  BY <1>2, <1>3, <1>4, EnvironmentKeeps, ScanKeeps, MoveOnKeeps, CarryKeeps,
     ProcessKeeps DEF Next, Scheduler
<1> QED
  BY <1>1, <1>5 DEF Consistent, Kept

(* The scheduler shares the job directories and the QRs with others.  As   *)
(* long as what they write is well-formed and a status.json names a QR of  *)
(* its attempt, its own books are none the worse for it.                   *)
LEMMA OthersKeep ==
    ASSUME Consistent, UNCHANGED <<memVars, loopVars>>, SameAttempts,
           GcsOK', CloudOK', BudgetOK',
           \A j \in Jobs : QrFits(j, statusFile[j])'
    PROVE  Consistent'
<1>1. Names \subseteq Names'
  BY DEF SameAttempts
<1>2. TypeOK'
  BY <1>1, SameMemory, SameLoop DEF Consistent, TypeOK
<1>3. UNCHANGED <<mem, tracked, phase, qrsLeft, due>>
  BY DEF memVars, loopVars
<1> QED
  BY <1>2, <1>3, SameTask, HeldSame, RecordsSame DEF Consistent

LEMMA InitConsistent == Init => Consistent
<1> SUFFICES ASSUME Init PROVE Consistent
  OBVIOUS
<1>1. PipelineFits
  BY DEF Init, PipelineFits, OneHandler, DueFits, OrphansFit
<1>2. CurrentQrFitsAttempt /\ HeldIsTracked
  BY DEF Init, CurrentQrFitsAttempt, HeldIsTracked, Records, QrFits, NoRecord, Holding
<1> QED
  BY <1>1, <1>2, InitType DEF Consistent

LEMMA ConsistentAlways == Spec => []Consistent
<1>1. Consistent /\ [Next]_vars => Consistent'
  <2> SUFFICES ASSUME Consistent, UNCHANGED vars PROVE Consistent'
    BY NextKeeps
  <2>1. UNCHANGED <<gcsVars, qrs, memVars, loopVars, budgetVars>>
    BY DEF vars
  <2>2. TypeOK'
    BY <2>1, SameNames, SameGcs, SameMemory, SameLoop
       DEF Consistent, TypeOK, CloudOK, BudgetOK, budgetVars
  <2>3. UNCHANGED <<statusFile, qrs, mem, tracked, phase, qrsLeft, due>>
    BY <2>1 DEF gcsVars, memVars, loopVars
  <2> QED
    BY <2>2, <2>3, SameTask, HeldSame, RecordsSame, UnchangedAttempts
       DEF Consistent, Records
<1> QED
  BY <1>1, InitConsistent, PTL DEF Spec

(* The QR a record names, in memory or in status.json, was created for     *)
(* that job and for the attempt the record is about to close, whatever     *)
(* crashes, lost writes, retries and refused deletions came in between     *)
(* (scheduler.py:516-552, 189, 384).                                       *)
THEOREM QrFitsAlways == Spec => []CurrentQrFitsAttempt
<1>1. Consistent => CurrentQrFitsAttempt
  BY DEF Consistent
<1> QED
  BY <1>1, ConsistentAlways, PTL

(* A job that holds capacity in the scheduler's books has its QR in        *)
(* queued_resources, where it is polled and reconciliation spares it       *)
(* (scheduler.py:118-125, 449, 546).                                       *)
THEOREM HeldAlwaysTracked == Spec => []HeldIsTracked
<1>1. Consistent => HeldIsTracked
  BY DEF Consistent
<1> QED
  BY <1>1, ConsistentAlways, PTL

=============================================================================
